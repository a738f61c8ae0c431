--------------------------- MODULE PipelineProofs ---------------------------
(***************************************************************************)
(* Proofs about Pipeline, for any number of values and copies, any         *)
(* capacity of the channels and any width of the count.                    *)
(***************************************************************************)
EXTENDS Pipeline, FiniteSetTheorems, TLAPS

-----------------------------------------------------------------------------
(***************************************************************************)
(* Sequences of messages and the values in them.                           *)
(***************************************************************************)
Val(m) == IF m.ec = "ok" THEN {m.v} ELSE {}

\* What every message of the model is.
LEMMA MessageFacts ==
  /\ \A m \in Messages : m \in Receives /\ (m.ec = "ok" => m.v \in 1 .. MaxValues)
  /\ \A m \in Receives : m.ec = "ok" => m \in Messages /\ m # Source!Idle /\ m # Source!Waiting
  /\ \A n \in 1 .. MaxValues :
       Value(n) \in Messages /\ Value(n).ec = "ok" /\ Value(n).v = n
  /\ Source!Idle \in Receives /\ Source!Idle.ec = "idle"
  /\ Source!Waiting \in Receives /\ Source!Waiting.ec = "waiting"
  /\ Source!Fault \in Messages /\ Source!Fault.ec = "fault"
  /\ Source!Closed \in Receives /\ Source!Closed.ec = "closed"
  /\ Source!Cancelled \in Receives /\ Source!Cancelled.ec = "cancelled"
  /\ \A m \in Messages : m.ec # "ok" => m = Source!Fault
BY DEF Messages, Receives, Value, Source!Msg, Source!Idle, Source!Waiting, Source!Fault,
       Source!Closed, Source!Cancelled

\* Both channels have the same replies.
LEMMA SameReplies ==
  /\ Sink!Idle = Source!Idle /\ Sink!Waiting = Source!Waiting /\ Sink!Fault = Source!Fault
  /\ Sink!Closed = Source!Closed /\ Sink!Cancelled = Source!Cancelled
BY DEF Source!Msg, Source!Idle, Source!Waiting, Source!Fault, Source!Closed, Source!Cancelled,
       Sink!Msg, Sink!Idle, Sink!Waiting, Sink!Fault, Sink!Closed, Sink!Cancelled

LEMMA One ==
  ASSUME NEW m
  PROVE  Values(<<m>>) = Val(m) /\ Increasing(<<m>>)
<1>1. DOMAIN <<m>> = {1} /\ <<m>>[1] = m
  OBVIOUS
<1>. QED
  BY <1>1 DEF Values, Val, Increasing

LEMMA NoneHeld == Values(<< >>) = {} /\ Increasing(<< >>)
BY DEF Values, Increasing

\* A message more at the end.
LEMMA Appended ==
  ASSUME NEW s \in Seq(Messages), NEW m \in Messages
  PROVE  /\ Append(s, m) \in Seq(Messages) /\ Len(Append(s, m)) = Len(s) + 1
         /\ \A i \in DOMAIN s : i \in DOMAIN Append(s, m) /\ Append(s, m)[i] = s[i]
         /\ \A i \in DOMAIN Append(s, m) : i \in DOMAIN s \/ (i = Len(s) + 1 /\ Append(s, m)[i] = m)
         /\ Values(Append(s, m)) = Values(s) \cup Val(m)
         /\ Increasing(s) /\ (\A n \in Values(s), k \in Val(m) : n < k) => Increasing(Append(s, m))
<1>. DEFINE t == Append(s, m)
            e == Len(s) + 1
<1>1. /\ t \in Seq(Messages) /\ Len(t) = e /\ e \in Nat
      /\ DOMAIN t = 1 .. e /\ DOMAIN s = 1 .. Len(s) /\ Len(s) \in Nat
      /\ \A i \in DOMAIN s : t[i] = s[i]
      /\ t[e] = m
  OBVIOUS
<1>. HIDE DEF t, e
<1>2. e = Len(s) + 1
  BY DEF e
<1>3. DOMAIN t = DOMAIN s \cup {e}
  BY <1>1, <1>2
<1>4. Values(t) = Values(s) \cup Val(m)
  <2>1. Values(t) \subseteq Values(s) \cup Val(m)
    BY <1>1, <1>3 DEF Values, Val
  <2>2. Values(s) \subseteq Values(t)
    BY <1>1, <1>3 DEF Values
  <2>3. Val(m) \subseteq Values(t)
    BY <1>1, <1>3 DEF Values, Val
  <2>. QED
    BY <2>1, <2>2, <2>3
<1>5. ASSUME Increasing(s), \A n \in Values(s), k \in Val(m) : n < k
      PROVE  Increasing(t)
  <2>1. SUFFICES ASSUME NEW i \in DOMAIN t, NEW j \in DOMAIN t, i < j,
                        t[i].ec = "ok", t[j].ec = "ok"
                 PROVE  t[i].v < t[j].v
    BY DEF Increasing
  <2>2. i \in DOMAIN s
    BY <1>1, <1>2, <2>1
  <2>3. CASE j = e
    BY <1>1, <1>5, <2>1, <2>2, <2>3 DEF Values, Val
  <2>4. CASE j \in DOMAIN s
    BY <1>1, <1>5, <2>1, <2>2, <2>4 DEF Increasing
  <2>. QED
    BY <1>3, <2>3, <2>4
<1>. QED
  BY <1>1, <1>2, <1>3, <1>4, <1>5 DEF t, e

\* The first message taken away.
LEMMA Taken ==
  ASSUME NEW s \in Seq(Messages), s # << >>
  PROVE  /\ Head(s) \in Messages /\ Tail(s) \in Seq(Messages) /\ Len(Tail(s)) = Len(s) - 1
         /\ 1 \in DOMAIN s /\ Head(s) = s[1] /\ Len(s) \in Nat \ {0}
         /\ \A i \in DOMAIN Tail(s) : i + 1 \in DOMAIN s /\ Tail(s)[i] = s[i + 1]
         /\ Values(s) = Val(Head(s)) \cup Values(Tail(s))
         /\ Increasing(s) =>
              Increasing(Tail(s)) /\ \A k \in Val(Head(s)), n \in Values(Tail(s)) : k < n
<1>. DEFINE t == Tail(s)
<1>1. /\ Head(s) \in Messages /\ t \in Seq(Messages) /\ Len(t) = Len(s) - 1
      /\ 1 \in DOMAIN s /\ Head(s) = s[1] /\ Len(s) \in Nat \ {0}
      /\ DOMAIN s = 1 .. Len(s) /\ DOMAIN t = 1 .. Len(s) - 1
      /\ \A i \in DOMAIN t : t[i] = s[i + 1]
  OBVIOUS
<1>. HIDE DEF t
<1>2. \A i \in DOMAIN t : i + 1 \in DOMAIN s /\ 1 < i + 1
  BY <1>1
<1>3. \A i \in DOMAIN s : i = 1 \/ (i - 1 \in DOMAIN t /\ t[i - 1] = s[i])
  BY <1>1
<1>4. Values(s) \subseteq Val(Head(s)) \cup Values(t)
  BY <1>1, <1>3 DEF Values, Val
<1>5. Val(Head(s)) \cup Values(t) \subseteq Values(s)
  BY <1>1, <1>2 DEF Values, Val
<1>6. ASSUME Increasing(s)
      PROVE  Increasing(t) /\ \A k \in Val(Head(s)), n \in Values(t) : k < n
  <2>1. \A i, j \in DOMAIN t : i < j => i + 1 < j + 1
    BY <1>1
  <2>2. Increasing(t)
    BY <1>1, <1>2, <1>6, <2>1 DEF Increasing
  <2>3. \A k \in Val(Head(s)), n \in Values(t) : k < n
    BY <1>1, <1>2, <1>6 DEF Increasing, Values, Val
  <2>. QED
    BY <2>2, <2>3
<1>. QED
  BY <1>1, <1>2, <1>4, <1>5, <1>6 DEF t

\* The last message taken away.
LEMMA Cut ==
  ASSUME NEW s \in Seq(Messages), NEW c \in Nat, Len(s) = c + 1
  PROVE  LET t == SubSeq(s, 1, c)
             m == s[Len(s)]
         IN /\ t \in Seq(Messages) /\ Len(t) = c /\ m \in Messages /\ Len(s) \in DOMAIN s
            /\ \A i \in DOMAIN t : i \in DOMAIN s /\ i # Len(s) /\ t[i] = s[i]
            /\ Values(s) = Values(t) \cup Val(m)
            /\ Increasing(s) =>
                 Increasing(t) /\ \A n \in Values(t), k \in Val(m) : n < k
<1>. DEFINE t == SubSeq(s, 1, c)
            m == s[Len(s)]
<1>1. /\ t \in Seq(Messages) /\ Len(t) = c
      /\ DOMAIN t = 1 .. c /\ DOMAIN s = 1 .. c + 1
      /\ \A i \in 1 .. c : t[i] = s[i]
      /\ m = s[c + 1] /\ m \in Messages /\ Len(s) \in DOMAIN s
  OBVIOUS
<1>. HIDE DEF t, m
<1>2. DOMAIN s = DOMAIN t \cup {c + 1} /\ \A i \in DOMAIN t : i < c + 1 /\ i # Len(s)
  BY <1>1
<1>3. Values(s) = Values(t) \cup Val(m)
  BY <1>1, <1>2 DEF Values, Val
<1>4. ASSUME Increasing(s)
      PROVE  Increasing(t) /\ \A n \in Values(t), k \in Val(m) : n < k
  BY <1>1, <1>2, <1>4 DEF Increasing, Values, Val
<1>. QED
  BY <1>1, <1>2, <1>3, <1>4 DEF t, m

-----------------------------------------------------------------------------
(***************************************************************************)
(* Where the values are, as sets: from the body of the loop back to the    *)
(* source, those that were lost, and how many were produced.               *)
(***************************************************************************)
Below(A, B) == \A m \in A, n \in B : m < n

Flow(a, b, c, d, e, x, p) ==
  /\ Below(a, b) /\ Below(a, c) /\ Below(a, d) /\ Below(a, e)
  /\ Below(b, c) /\ Below(b, d) /\ Below(b, e)
  /\ Below(c, d) /\ Below(c, e)
  /\ Below(d, e)
  /\ Below(x, d) /\ Below(x, e)
  /\ (a \cup b \cup c \cup d \cup e) \cap x = {}
  /\ 1 .. p = x \cup a \cup b \cup c \cup d \cup e

\* One value more at the end.
LEMMA FlowProduced ==
  ASSUME NEW a, NEW b, NEW c, NEW d, NEW e, NEW x, NEW p \in Nat, Flow(a, b, c, d, e, x, p)
  PROVE  /\ Flow(a, b, c, d, e \cup {p + 1}, x, p + 1)
         /\ d = {} /\ e = {} => Flow(a, b, c, {p + 1}, {}, x, p + 1)
<1>1. \A n \in 1 .. p : n < p + 1
  OBVIOUS
<1>2. 1 .. p + 1 = 1 .. p \cup {p + 1} /\ p + 1 \notin 1 .. p
  OBVIOUS
<1>. QED
  BY <1>1, <1>2 DEF Flow, Below

\* The value at the end taken back.
LEMMA FlowUnproduced ==
  ASSUME NEW a, NEW b, NEW c, NEW d, NEW t, NEW m, NEW x, NEW p \in Nat,
         Flow(a, b, c, d, t \cup {m}, x, p), Below(t, {m})
  PROVE  p >= 1 /\ m = p /\ Flow(a, b, c, d, t, x, p - 1)
<1>1. m \in 1 .. p /\ p >= 1 /\ p \in 1 .. p
  BY DEF Flow
<1>2. m = p
  BY <1>1 DEF Flow, Below
<1>3. 1 .. p - 1 = 1 .. p \ {p}
  BY <1>1
<1>4. \A n \in x \cup a \cup b \cup c \cup d \cup t : n \in 1 .. p /\ n < p
  BY <1>1, <1>2 DEF Flow, Below
<1>. QED
  BY <1>1, <1>2, <1>3, <1>4 DEF Flow, Below

\* The moves from one place to the next.
LEMMA FlowMoved ==
  ASSUME NEW a, NEW b, NEW c, NEW d, NEW e, NEW x, NEW p, NEW k, NEW t
  PROVE  /\ Flow(a, b, c, {}, k \cup t, x, p) /\ Below(k, t) => Flow(a, b, c, k, t, x, p)
         /\ Flow(a, {}, k \cup t, d, e, x, p) /\ Below(k, t) => Flow(a, k, t, d, e, x, p)
         /\ Flow(a, b, c, d, e, x, p) => Flow(a, b, c \cup d, {}, e, x, p)
         /\ Flow(a, {}, {}, d, e, x, p) => Flow(a, d, {}, {}, e, x, p)
         /\ Flow(a, b, c, d, e, x, p) => Flow(a \cup b, {}, c, d, e, x, p)
BY DEF Flow, Below

\* The ways to lose a value.
LEMMA FlowLost ==
  ASSUME NEW a, NEW b, NEW c, NEW d, NEW e, NEW x, NEW p, NEW k, NEW t
  PROVE  /\ Flow(a, b, c, d, e, x, p) => Flow(a, b, c, {}, e, x \cup d, p)
         /\ Flow(a, b, t \cup k, d, e, x, p) /\ Below(t, k) => Flow(a, b, t, d, e, x \cup k, p)
BY DEF Flow, Below

-----------------------------------------------------------------------------
\* What the count is one step behind the source, and one step later.
LEMMA WrapsBack ==
  ASSUME NEW n \in 0 .. SizeMax
  PROVE  /\ Wrapped(n - 1) \in 0 .. SizeMax
         /\ Wrapped(Wrapped(n - 1) + 1) = n
         /\ n >= 1 => Wrapped(n - 1) = n - 1
<1>. DEFINE w == SizeMax + 1
<1>1. w \in Nat \ {0} /\ SizeMax \in Nat /\ n \in 0 .. w - 1
  BY CopyAssumption
<1>2. \A k \in 0 .. w - 1 : k % w = k
  BY <1>1
<1>3. w % w = 0
  BY <1>1
<1>4. (0 - 1) % w = w - 1
  BY <1>1
<1>. QED
  BY <1>1, <1>2, <1>3, <1>4 DEF Wrapped

-----------------------------------------------------------------------------
(***************************************************************************)
(* The inductive invariant.                                                *)
(***************************************************************************)
\* The count is one behind the source.
CountInv ==
  /\ phase = "initial" => completed = 0 /\ taken = 0 /\ stored = 0
  /\ phase = "source" => completed = Wrapped(taken - 1) /\ stored = taken
  /\ phase = "sink" => taken >= 1 /\ completed = taken - 1 /\ stored = taken - 1
  /\ CountRight

\* The flag and the value it stands for.
LoopInv ==
  /\ destroyed = (LoopOver /\ has_value)
  /\ constructed => has_value
  /\ has_value /\ ~constructed => over = "channel" /\ at \in {"receiving", "threw", "dropped"}
  /\ ~constructed => seen = << >>
  /\ at = "body" => constructed

SourceInv ==
  /\ srcReceive = Source!Waiting => srcHeld = << >>
  /\ Len(srcHeld) <= SourceCapacity + 1

\* A send to the sink that waits is the copy's, or the message that ends the loop.
SinkInv ==
  /\ sinkReceive = Source!Waiting => sinkHeld = << >>
  /\ sinkReceive = Source!Closed => ~sinkOpen /\ sinkHeld = << >>
  /\ sinkReceive = Source!Cancelled => stopped
  /\ sinkReceive = Source!Fault => ended /\ sinkHeld = << >>
  /\ ended => phase = "done"
  /\ \A i \in DOMAIN sinkHeld : sinkHeld[i].ec = "ok" \/ (ended /\ i = Len(sinkHeld))
  /\ Len(sinkHeld) <= SinkCapacity + 1
  /\ Sink!SendWaits =>
       \/ phase = "sink" /\ sending = "sent"
       \/ ended /\ sinkHeld[Len(sinkHeld)].ec # "ok"

OrderInv ==
  /\ Increasing(seen) /\ Increasing(sinkHeld) /\ Increasing(srcHeld)
  /\ Flow(Values(seen), Val(sinkReceive), Values(sinkHeld), Val(srcReceive), Values(srcHeld),
          lost, produced)

PipelineInv ==
  /\ PipelineTypeOK
  /\ CountInv /\ LoopInv /\ SourceInv /\ SinkInv /\ OrderInv /\ LossBounded

-----------------------------------------------------------------------------
\* Which actions touch what.
LEMMA Frames ==
  ASSUME [PipelineNext]_all
  PROVE
    /\ \/ UNCHANGED copyVars
       \/ Again \/ CopyStart \/ CopyReceived \/ CopySent \/ CancelCopy
    /\ \/ UNCHANGED <<loopVars, seen>>
       \/ LoopAsks \/ LoopReceived \/ LoopBroken \/ LoopCancelled \/ Shutdown
    /\ \/ UNCHANGED <<srcVars, produced>>
       \/ Produce \/ CloseSource \/ CancelSource \/ CopyStart \/ CopyReceived
       \/ CopySent \/ CancelCopy
    /\ \/ UNCHANGED <<sinkVars, phase, sending, ended, stopped>>
       \/ CloseSink \/ Abandon \/ Again \/ EndStream \/ CopyStart \/ CopyReceived
       \/ CopySent \/ CancelCopy \/ LoopAsks \/ LoopReceived \/ LoopCancelled
    /\ \/ UNCHANGED <<seen, srcHeld, srcReceive, sinkHeld, sinkReceive, lost, produced>>
       \/ Produce \/ CloseSource \/ CancelSource \/ CloseSink \/ Abandon \/ EndStream
       \/ CopyStart \/ CopyReceived \/ CopySent \/ CancelCopy
       \/ LoopAsks \/ LoopReceived \/ LoopCancelled
    /\ \/ UNCHANGED <<lost, sending, result, copies>>
       \/ Abandon \/ Again \/ CopyReceived \/ CopySent \/ CancelCopy
<1>1. CASE UNCHANGED all
  BY <1>1 DEF all, copyVars, vars, loopVars, srcVars, sinkVars, progVars
<1>2. CASE Produce
  BY <1>2 DEF Produce, Source!Send, copyVars, vars, loopVars, srcVars, sinkVars, progVars
<1>3. CASE CloseSource
  BY <1>3 DEF CloseSource, Source!Close, copyVars, vars, loopVars, srcVars, sinkVars, progVars
<1>4. CASE CancelSource
  BY <1>4 DEF CancelSource, copyVars, vars, loopVars, srcVars, sinkVars, progVars
<1>5. CASE CloseSink
  BY <1>5 DEF CloseSink, copyVars, vars, loopVars, srcVars, sinkVars, progVars
<1>6. CASE Abandon
  BY <1>6 DEF Abandon, copyVars, vars, loopVars, srcVars, sinkVars, progVars
<1>7. CASE Again
  BY <1>7 DEF Again, copyVars, vars, loopVars, srcVars, sinkVars, progVars
<1>8. CASE EndStream
  BY <1>8 DEF EndStream, copyVars, vars, loopVars, srcVars, sinkVars, progVars
<1>9. CASE CopyStart
  BY <1>9 DEF CopyStart, Start, copyVars, vars, loopVars, srcVars, sinkVars, progVars
<1>10. CASE CopyReceived
  BY <1>10 DEF CopyReceived, copyVars, vars, loopVars, srcVars, sinkVars, progVars
<1>11. CASE CopySent
  BY <1>11 DEF CopySent, copyVars, vars, loopVars, srcVars, sinkVars, progVars
<1>12. CASE CancelCopy
  BY <1>12 DEF CancelCopy, copyVars, vars, loopVars, srcVars, sinkVars, progVars
<1>13. CASE LoopAsks
  BY <1>13 DEF LoopAsks, copyVars, vars, loopVars, srcVars, sinkVars, progVars
<1>14. CASE LoopReceived
  BY <1>14 DEF LoopReceived, copyVars, vars, loopVars, srcVars, sinkVars, progVars
<1>15. CASE LoopBroken
  BY <1>15 DEF LoopBroken, Break, Leave, copyVars, vars, loopVars, srcVars, sinkVars, progVars
<1>16. CASE LoopCancelled
  BY <1>16 DEF LoopCancelled, copyVars, vars, loopVars, srcVars, sinkVars, progVars
<1>17. CASE Shutdown
  BY <1>17 DEF Shutdown, Drop, Leave, copyVars, vars, loopVars, srcVars, sinkVars, progVars
<1>. QED
  BY <1>1, <1>2, <1>3, <1>4, <1>5, <1>6, <1>7, <1>8, <1>9, <1>10, <1>11, <1>12, <1>13, <1>14, <1>15, <1>16, <1>17
     DEF PipelineNext, CopyHandles, LoopHandles

-----------------------------------------------------------------------------
\* The count.
LEMMA CountStep ==
  ASSUME PipelineTypeOK, CountInv, [PipelineNext]_all
  PROVE  CountInv'
<1>. USE DEF CountInv, CountRight
<1>1. /\ phase \in {"initial", "source", "sink", "done"} /\ taken \in 0 .. MaxValues
      /\ completed \in 0 .. SizeMax /\ stored \in 0 .. MaxValues
      /\ MaxValues \in Nat /\ SizeMax \in Nat /\ MaxValues <= SizeMax
  BY CopyAssumption DEF PipelineTypeOK, TypeOK
<1>2. /\ Wrapped(Wrapped(taken - 1) + 1) = taken
      /\ taken >= 1 => Wrapped(taken - 1) = taken - 1
  BY <1>1, WrapsBack
<1>3. CASE UNCHANGED copyVars
  BY <1>3 DEF copyVars, vars
<1>4. CASE Again
  BY <1>4 DEF Again
<1>5. CASE CopyStart
  BY <1>1, <1>5 DEF CopyStart, Start
<1>6. CASE CopyReceived
  <2>1. CASE SourceGave
    BY <1>1, <1>2, <2>1 DEF SourceGave, End
  <2>2. CASE SourceFailed
    BY <1>1, <1>2, <2>2 DEF SourceFailed, End
  <2>. QED
    BY <1>6, <2>1, <2>2 DEF CopyReceived
<1>7. CASE CopySent
  <2>1. CASE SinkAccepted
    BY <1>1, <1>2, <2>1 DEF SinkAccepted, End
  <2>2. CASE SinkFailed
    BY <1>1, <2>2 DEF SinkFailed, End
  <2>. QED
    BY <1>7, <2>1, <2>2 DEF CopySent
<1>8. CASE CancelCopy
  BY <1>8 DEF CancelCopy, Cancel
<1>. QED
  BY Frames, <1>3, <1>4, <1>5, <1>6, <1>7, <1>8

\* The loop and its storage.
LEMMA LoopStep ==
  ASSUME PipelineTypeOK, LoopInv, [PipelineNext]_all
  PROVE  LoopInv'
<1>. USE DEF LoopInv, LoopOver
<1>1. /\ over \in {"channel", "coro"} /\ seen \in Seq(Messages) /\ has_value \in BOOLEAN
      /\ at \in {"start", "receiving", "body", "left", "threw", "dropped"}
  BY DEF PipelineTypeOK
<1>2. CASE UNCHANGED <<loopVars, seen>>
  BY <1>2 DEF loopVars
<1>3. CASE LoopAsks
  <2>1. CASE Ask(over = "channel" => sinkOpen)
    BY <1>1, <1>3, <2>1 DEF LoopAsks, Ask, MarkBeforeReceive
  <2>2. CASE Stop(over = "channel" => sinkOpen)
    BY <1>1, <1>3, <2>2 DEF LoopAsks, Stop, Leave
  <2>. QED
    BY <1>3, <2>1, <2>2 DEF LoopAsks
<1>4. CASE LoopReceived
  <2>1. CASE Received
    BY <1>1, <2>1 DEF Received
  <2>2. CASE (Failed \/ Exhausted) /\ UNCHANGED seen
    BY <1>1, <2>2 DEF Failed, Exhausted, Leave
  <2>. QED
    BY <1>4, <2>1, <2>2 DEF LoopReceived
<1>5. CASE LoopBroken
  <2>1. PICK how \in {"left", "threw"} : Break(how) /\ UNCHANGED seen
    BY <1>5 DEF LoopBroken
  <2>2. /\ at = "body" /\ at' = how /\ destroyed' = has_value
        /\ UNCHANGED <<over, has_value, constructed, seen>>
    BY <2>1 DEF Break, Leave
  <2>. QED
    BY <1>1, <2>1, <2>2
<1>6. CASE LoopCancelled
  <2>1. UNCHANGED <<over, at, has_value, constructed, destroyed, seen>>
    BY <1>6 DEF LoopCancelled, CancelLoop
  <2>. QED
    BY <2>1
<1>7. CASE Shutdown
  BY <1>1, <1>7 DEF Shutdown, Drop, Leave, loopVars
<1>. QED
  BY Frames, <1>2, <1>3, <1>4, <1>5, <1>6, <1>7

\* The channel that the copy receives from.
LEMMA SourceStep ==
  ASSUME PipelineTypeOK, SourceInv, [PipelineNext]_all
  PROVE  SourceInv'
<1>. USE DEF SourceInv
<1>1. srcHeld \in Seq(Messages) /\ srcReceive \in Receives /\ SourceCapacity \in Nat
  BY PipelineAssumption DEF PipelineTypeOK
<1>2. Source!Waiting \notin Messages /\ Source!Idle # Source!Waiting
  BY MessageFacts DEF Messages, Source!Waiting, Source!Idle, Source!Msg, Value, Source!Fault
<1>3. Source!Closed # Source!Waiting /\ Source!Cancelled # Source!Waiting
  BY DEF Source!Waiting, Source!Msg, Source!Closed, Source!Cancelled
<1>4. ASSUME Source!Receive
      PROVE  SourceInv'
  <2>1. CASE srcHeld # << >>
    BY <1>1, <1>2, <1>4, <2>1, Taken DEF Source!Receive
  <2>2. CASE srcHeld = << >>
    BY <1>1, <1>4, <2>2 DEF Source!Receive
  <2>. QED
    BY <2>1, <2>2
<1>5. CASE UNCHANGED <<srcVars, produced>>
  BY <1>5 DEF srcVars
<1>6. CASE Produce
  <2>1. PICK m \in Messages : Source!Send(m) /\ ~Source!SendWaits
    <3>1. \A n \in 0 .. MaxValues : n < MaxValues => Value(n + 1) \in Messages
      BY CopyAssumption, MessageFacts
    <3>. QED
      BY <1>6, <3>1, MessageFacts DEF Produce, PipelineTypeOK
  <2>2. Len(srcHeld) <= SourceCapacity
    BY <1>1, <2>1 DEF Source!SendWaits
  <2>. QED
    BY <1>1, <1>2, <2>1, <2>2, Appended DEF Source!Send
<1>7. CASE CloseSource
  BY <1>1, <1>3, <1>7 DEF CloseSource, Source!Close
<1>8. CASE CancelSource
  <2>1. srcReceive' # Source!Waiting
    BY <1>3, <1>8 DEF CancelSource, Source!Cancel
  <2>2. CASE Source!SendWaits
    <3>1. Len(srcHeld) = SourceCapacity + 1
      BY <1>1, <2>2 DEF Source!SendWaits
    <3>2. Len(srcHeld') = SourceCapacity
      BY <1>1, <1>8, <2>2, <3>1, Cut DEF CancelSource, Source!Cancel
    <3>. QED
      BY <1>1, <2>1, <3>2
  <2>3. CASE ~Source!SendWaits
    BY <1>1, <1>8, <2>1, <2>3 DEF CancelSource, Source!Cancel
  <2>. QED
    BY <2>2, <2>3
<1>9. CASE CopyStart
  BY <1>4, <1>9 DEF CopyStart
<1>10. CASE CopyReceived
  BY <1>1, <1>2, <1>10 DEF CopyReceived, Source!Take
<1>11. CASE CopySent
  BY <1>4, <1>11 DEF CopySent, srcVars
<1>12. CASE CancelCopy
  BY <1>3, <1>12 DEF CancelCopy, Source!CancelReceive, srcVars
<1>. QED
  BY Frames, <1>5, <1>6, <1>7, <1>8, <1>9, <1>10, <1>11, <1>12

\* Replies and messages are told apart by their code.
LEMMA Replies ==
  /\ \A m \in Messages : m \notin {Source!Idle, Source!Waiting, Source!Closed, Source!Cancelled}
  /\ \A m \in Messages : m.ec = "ok" <=> m # Source!Fault
  /\ Source!Idle \notin {Source!Waiting, Source!Closed, Source!Cancelled, Source!Fault}
  /\ Source!Waiting \notin {Source!Closed, Source!Cancelled, Source!Fault}
  /\ Source!Closed \notin {Source!Cancelled, Source!Fault} /\ Source!Cancelled # Source!Fault
<1>1. /\ Source!Idle.ec = "idle" /\ Source!Waiting.ec = "waiting" /\ Source!Fault.ec = "fault"
      /\ Source!Closed.ec = "closed" /\ Source!Cancelled.ec = "cancelled"
  BY DEF Source!Msg, Source!Idle, Source!Waiting, Source!Fault, Source!Closed, Source!Cancelled
<1>2. \A m \in Messages : m.ec \in {"ok", "fault"}
  BY <1>1 DEF Messages, Value, Source!Msg
<1>. QED
  BY <1>1, <1>2, MessageFacts

\* What sending to the sink does, and receiving from it, in terms of its lists.
LEMMA SinkSend ==
  ASSUME PipelineTypeOK, SinkInv, NEW m \in Messages, Sink!Send(m)
  PROVE  /\ sinkOpen /\ UNCHANGED sinkOpen
         /\ \/ /\ sinkReceive = Source!Waiting /\ sinkHeld = << >>
               /\ sinkReceive' = m /\ sinkHeld' = << >>
            \/ /\ sinkReceive # Source!Waiting /\ sinkReceive' = sinkReceive
               /\ sinkHeld' = Append(sinkHeld, m)
BY SameReplies DEF SinkInv, Sink!Send

LEMMA SinkReceive ==
  ASSUME PipelineTypeOK, SinkInv, Sink!Receive
  PROVE  /\ sinkReceive = Source!Idle /\ UNCHANGED sinkOpen
         /\ \/ /\ sinkHeld # << >>
               /\ sinkReceive' = Head(sinkHeld) /\ sinkHeld' = Tail(sinkHeld)
            \/ /\ sinkHeld = << >> /\ sinkHeld' = << >>
               /\ sinkReceive' = (IF sinkOpen THEN Source!Waiting ELSE Source!Closed)
BY SameReplies DEF SinkInv, Sink!Receive

\* What is taken out of the sink when a send that waits is cancelled.
LEMMA SinkCut ==
  ASSUME PipelineTypeOK, SinkInv,
         sinkHeld' = IF Sink!SendWaits THEN SubSeq(sinkHeld, 1, SinkCapacity) ELSE sinkHeld
  PROVE  /\ Sink!SendWaits => Len(sinkHeld) = SinkCapacity + 1 /\ sinkHeld # << >>
         /\ Len(sinkHeld') <= SinkCapacity /\ Len(sinkHeld') \in Nat
         /\ \A i \in DOMAIN sinkHeld' :
              /\ i \in DOMAIN sinkHeld /\ sinkHeld'[i] = sinkHeld[i]
              /\ Sink!SendWaits => i # Len(sinkHeld)
         /\ ~Sink!SendWaits => sinkHeld' = sinkHeld
         /\ sinkHeld = << >> => sinkHeld' = << >>
<1>1. sinkHeld \in Seq(Messages) /\ SinkCapacity \in Nat /\ Len(sinkHeld) \in Nat
  BY PipelineAssumption DEF PipelineTypeOK
<1>2. CASE Sink!SendWaits
  <2>1. Len(sinkHeld) = SinkCapacity + 1 /\ sinkHeld # << >>
    BY <1>1, <1>2 DEF Sink!SendWaits, SinkInv
  <2>. QED
    BY <1>1, <1>2, <2>1, Cut
<1>3. CASE ~Sink!SendWaits
  BY <1>1, <1>3 DEF Sink!SendWaits
<1>. QED
  BY <1>2, <1>3

\* The channel that the copy sends to.
LEMMA SinkStep ==
  ASSUME PipelineTypeOK, SinkInv, [PipelineNext]_all
  PROVE  SinkInv'
<1>1. /\ sinkHeld \in Seq(Messages) /\ Len(sinkHeld) \in Nat
      /\ sinkReceive \in Receives /\ SinkCapacity \in Nat
      /\ sending # "idle" <=> phase = "sink"
      /\ ended \in BOOLEAN /\ sinkOpen \in BOOLEAN /\ stopped \in BOOLEAN
  BY PipelineAssumption DEF PipelineTypeOK
<1>2. CASE UNCHANGED <<sinkVars, phase, sending, ended, stopped>>
  BY <1>2 DEF SinkInv, sinkVars, Sink!SendWaits
<1>3. CASE CloseSink
  BY <1>1, <1>3, Replies, SameReplies
     DEF SinkInv, CloseSink, Sink!Close, Sink!SendWaits, copyVars, vars, loopVars, progVars
<1>4. CASE Abandon
  <2>1. /\ sinkHeld' = IF Sink!SendWaits THEN SubSeq(sinkHeld, 1, SinkCapacity) ELSE sinkHeld
        /\ sinkOpen' = FALSE /\ UNCHANGED <<sinkReceive, phase, ended, stopped>>
    BY <1>4 DEF Abandon, copyVars, vars, loopVars, progVars
  <2>2. ~Sink!SendWaits'
    BY <1>1, <2>1, SinkCut DEF Sink!SendWaits
  <2>3. Len(sinkHeld') <= SinkCapacity + 1
    BY <1>1, <2>1, SinkCut
  <2>. QED
    BY <2>1, <2>2, <2>3, SinkCut DEF SinkInv
<1>5. CASE Again
  BY <1>1, <1>5 DEF SinkInv, Again, Sink!SendWaits, sinkVars, loopVars
<1>6. CASE EndStream
  <2>1. /\ phase = "done" /\ ~ended /\ ended' /\ UNCHANGED <<phase, sending, stopped>>
        /\ Sink!Send(Source!Fault)
    BY <1>6, SameReplies DEF EndStream, copyVars, vars, loopVars
  <2>2. Len(sinkHeld) <= SinkCapacity
    BY <1>1, <2>1 DEF SinkInv, Sink!SendWaits
  <2>3. CASE sinkReceive = Source!Waiting
    <3>1. sinkReceive' = Source!Fault /\ sinkHeld' = << >> /\ UNCHANGED sinkOpen
      BY <2>1, <2>3, SinkSend, MessageFacts
    <3>. QED
      BY <1>1, <2>1, <3>1, Replies DEF SinkInv, Sink!SendWaits
  <2>4. CASE sinkReceive # Source!Waiting
    <3>1. /\ sinkOpen /\ UNCHANGED <<sinkOpen, sinkReceive>>
          /\ sinkHeld' = Append(sinkHeld, Source!Fault)
      BY <2>1, <2>4, SinkSend, MessageFacts
    <3>2. /\ Len(sinkHeld') = Len(sinkHeld) + 1 /\ sinkHeld'[Len(sinkHeld')] = Source!Fault
          /\ \A i \in DOMAIN sinkHeld' : i = Len(sinkHeld') \/
               (i \in DOMAIN sinkHeld /\ sinkHeld'[i] = sinkHeld[i])
      BY <1>1, <3>1, MessageFacts, Appended
    <3>. QED
      BY <1>1, <2>1, <2>2, <2>4, <3>1, <3>2, MessageFacts DEF SinkInv, Sink!SendWaits
  <2>. QED
    BY <2>3, <2>4
<1>7. CASE CopyStart
  BY <1>1, <1>7 DEF SinkInv, CopyStart, Start, Sink!SendWaits, sinkVars, loopVars, progVars
<1>8. CASE CopyReceived
  <2>1. phase = "source" /\ ~ended /\ UNCHANGED <<ended, stopped>>
    BY <1>8 DEF SinkInv, CopyReceived, SourceGave, SourceFailed, loopVars, progVars
  <2>2. Len(sinkHeld) <= SinkCapacity /\ ~Sink!SendWaits
    BY <1>1, <2>1 DEF SinkInv, Sink!SendWaits
  <2>3. CASE UNCHANGED sinkVars
    BY <1>1, <2>1, <2>2, <2>3 DEF SinkInv, Sink!SendWaits, sinkVars
  <2>4. CASE /\ Sink!Send(srcReceive) /\ srcReceive.ec = "ok"
             /\ phase' = "sink" /\ sending' = "sent"
    <3>1. srcReceive \in Messages
      BY <2>4, MessageFacts DEF PipelineTypeOK
    <3>2. CASE sinkReceive = Source!Waiting
      <4>1. sinkReceive' = srcReceive /\ sinkHeld' = << >> /\ UNCHANGED sinkOpen
        BY <2>4, <3>1, <3>2, SinkSend
      <4>. QED
        BY <1>1, <2>1, <2>4, <3>1, <4>1, Replies DEF SinkInv, Sink!SendWaits
    <3>3. CASE sinkReceive # Source!Waiting
      <4>1. /\ sinkOpen /\ UNCHANGED <<sinkOpen, sinkReceive>>
            /\ sinkHeld' = Append(sinkHeld, srcReceive)
        BY <2>4, <3>1, <3>3, SinkSend
      <4>2. /\ Len(sinkHeld') = Len(sinkHeld) + 1
            /\ \A i \in DOMAIN sinkHeld' : sinkHeld'[i].ec = "ok"
        BY <1>1, <2>1, <2>4, <3>1, <4>1, Appended DEF SinkInv
      <4>. QED
        BY <1>1, <2>1, <2>2, <2>4, <3>3, <4>1, <4>2 DEF SinkInv, Sink!SendWaits
    <3>. QED
      BY <3>2, <3>3
  <2>5. UNCHANGED sinkVars \/ (Sink!Send(srcReceive) /\ srcReceive.ec = "ok" /\ SourceGave
                              /\ ~cancelled /\ sending' = "sent")
    BY <1>8 DEF CopyReceived
  <2>. QED
    BY <2>3, <2>4, <2>5 DEF SourceGave
<1>9. CASE CopySent
  <2>1. /\ phase = "sink" /\ UNCHANGED <<sinkVars, ended, stopped>>
        /\ sending = "sent" => ~Sink!SendWaits
    BY <1>9 DEF CopySent, SinkAccepted, SinkFailed, loopVars, progVars
  <2>. QED
    BY <1>1, <2>1 DEF SinkInv, Sink!SendWaits, sinkVars
<1>10. CASE CancelCopy
  <2>1. UNCHANGED <<phase, ended, stopped>>
    BY <1>10 DEF CancelCopy, Cancel, loopVars, progVars
  <2>2. CASE phase = "source" \/ sending # "sent"
    <3>1. UNCHANGED <<sinkVars, sending>>
      BY <1>1, <1>10, <2>2 DEF CancelCopy, SendCancelled
    <3>. QED
      BY <1>1, <2>1, <3>1 DEF SinkInv, Sink!SendWaits, sinkVars
  <2>3. CASE phase # "source" /\ sending = "sent"
    <3>1. /\ sinkHeld' = IF Sink!SendWaits THEN SubSeq(sinkHeld, 1, SinkCapacity) ELSE sinkHeld
          /\ UNCHANGED <<sinkOpen, sinkReceive>>
      BY <1>10, <2>3 DEF CancelCopy, Sink!CancelSend
    <3>2. ~Sink!SendWaits' /\ Len(sinkHeld') <= SinkCapacity + 1
      BY <1>1, <3>1, SinkCut DEF Sink!SendWaits
    <3>. QED
      BY <2>1, <3>1, <3>2, SinkCut DEF SinkInv
  <2>. QED
    BY <2>2, <2>3
<1>11. CASE LoopAsks
  <2>1. UNCHANGED <<phase, sending, ended, stopped>>
    BY <1>11 DEF LoopAsks, Ask, Stop, Leave, copyVars, vars, progVars
  <2>2. CASE UNCHANGED sinkVars
    BY <1>1, <2>1, <2>2 DEF SinkInv, Sink!SendWaits, sinkVars
  <2>3. CASE Sink!Receive /\ sinkHeld = << >>
    <3>1. /\ UNCHANGED sinkOpen /\ sinkHeld' = << >>
          /\ sinkReceive' = (IF sinkOpen THEN Source!Waiting ELSE Source!Closed)
      BY <2>3, SinkReceive
    <3>. QED
      BY <1>1, <2>1, <3>1, Replies DEF SinkInv, Sink!SendWaits
  <2>4. CASE Sink!Receive /\ sinkHeld # << >>
    <3>1. /\ UNCHANGED sinkOpen
          /\ sinkReceive' = Head(sinkHeld) /\ sinkHeld' = Tail(sinkHeld)
      BY <2>4, SinkReceive
    <3>2. /\ Head(sinkHeld) \in Messages /\ Head(sinkHeld) = sinkHeld[1] /\ 1 \in DOMAIN sinkHeld
          /\ Tail(sinkHeld) \in Seq(Messages) /\ Len(sinkHeld') = Len(sinkHeld) - 1
          /\ \A i \in DOMAIN sinkHeld' : i + 1 \in DOMAIN sinkHeld /\ sinkHeld'[i] = sinkHeld[i + 1]
          /\ DOMAIN sinkHeld' = 1 .. Len(sinkHeld')
      BY <1>1, <2>4, <3>1, Taken
    <3>3. sinkReceive' = Source!Fault => ended /\ Len(sinkHeld) = 1
      BY <3>1, <3>2, Replies DEF SinkInv
    <3>4. Len(sinkHeld) = 1 => sinkHeld' = << >>
      BY <3>1, <3>2
    <3>5. \A i \in DOMAIN sinkHeld' :
            sinkHeld'[i].ec = "ok" \/ (ended /\ i = Len(sinkHeld'))
      BY <1>1, <3>2 DEF SinkInv
    <3>6. ~Sink!SendWaits' /\ Len(sinkHeld') <= SinkCapacity + 1
      BY <1>1, <3>2 DEF SinkInv, Sink!SendWaits
    <3>. QED
      BY <2>1, <3>1, <3>2, <3>3, <3>4, <3>5, <3>6, Replies DEF SinkInv
  <2>. QED
    BY <1>11, <2>2, <2>3, <2>4 DEF LoopAsks
<1>12. CASE LoopReceived
  <2>1. /\ UNCHANGED <<phase, sending, ended, stopped, sinkHeld, sinkOpen>>
        /\ sinkReceive' = Source!Idle
    BY <1>12, SameReplies
       DEF LoopReceived, Sink!Take, Received, Failed, Exhausted, Leave, copyVars, vars, progVars
  <2>. QED
    BY <1>1, <2>1, Replies DEF SinkInv, Sink!SendWaits
<1>13. CASE LoopCancelled
  <2>1. /\ UNCHANGED <<phase, sending, ended, sinkHeld, sinkOpen>> /\ stopped'
        /\ sinkReceive' = IF sinkReceive = Source!Waiting THEN Source!Cancelled ELSE sinkReceive
    BY <1>13, SameReplies
       DEF LoopCancelled, CancelLoop, Sink!CancelReceive, copyVars, vars, progVars
  <2>. QED
    BY <1>1, <2>1, Replies DEF SinkInv, Sink!SendWaits
<1>. QED
  BY Frames, <1>2, <1>3, <1>4, <1>5, <1>6, <1>7, <1>8, <1>9, <1>10, <1>11, <1>12, <1>13

-----------------------------------------------------------------------------
(***************************************************************************)
(* Where the values are.                                                   *)
(***************************************************************************)
LEMMA ValFacts ==
  /\ \A m : m.ec = "ok" => Val(m) = {m.v}
  /\ \A m : m.ec # "ok" => Val(m) = {}
  /\ Val(Source!Idle) = {} /\ Val(Source!Waiting) = {} /\ Val(Source!Fault) = {}
  /\ Val(Source!Closed) = {} /\ Val(Source!Cancelled) = {}
BY MessageFacts DEF Val

LEMMA FaultAppended ==
  ASSUME NEW s \in Seq(Messages), Increasing(s)
  PROVE  /\ Increasing(Append(s, Source!Fault))
         /\ Values(Append(s, Source!Fault)) = Values(s)
<1>1. Val(Source!Fault) = {} /\ Source!Fault \in Messages
  BY ValFacts, MessageFacts
<1>2. \A n \in Values(s), k \in Val(Source!Fault) : n < k
  BY <1>1
<1>3. /\ Values(Append(s, Source!Fault)) = Values(s) \cup Val(Source!Fault)
      /\ Increasing(s) /\ (\A n \in Values(s), k \in Val(Source!Fault) : n < k)
           => Increasing(Append(s, Source!Fault))
  BY <1>1, Appended, Zenon
<1>. QED
  BY <1>1, <1>2, <1>3, Zenon

\* The next value leaves the channel's list for its reply.
LEMMA SourceAsked ==
  ASSUME PipelineTypeOK, OrderInv, Source!Receive,
         UNCHANGED <<seen, sinkReceive, sinkHeld, lost, produced>>
  PROVE  OrderInv'
<1>1. srcHeld \in Seq(Messages) /\ Val(srcReceive) = {}
  BY ValFacts DEF PipelineTypeOK, Source!Receive
<1>2. CASE srcHeld # << >>
  <2>1. srcReceive' = Head(srcHeld) /\ srcHeld' = Tail(srcHeld)
    BY <1>2 DEF Source!Receive
  <2>2. /\ Increasing(srcHeld') /\ Below(Val(srcReceive'), Values(srcHeld'))
        /\ Values(srcHeld) = Val(srcReceive') \cup Values(srcHeld')
    BY <1>1, <1>2, <2>1, Taken DEF OrderInv, Below
  <2>. QED
    BY <1>1, <2>2, FlowMoved DEF OrderInv
<1>3. CASE srcHeld = << >>
  <2>1. Val(srcReceive') = {} /\ srcHeld' = srcHeld
    BY <1>3, ValFacts DEF Source!Receive
  <2>. QED
    BY <1>1, <2>1 DEF OrderInv
<1>. QED
  BY <1>2, <1>3

LEMMA SinkAsked ==
  ASSUME PipelineTypeOK, SinkInv, OrderInv, Sink!Receive,
         UNCHANGED <<seen, srcReceive, srcHeld, lost, produced>>
  PROVE  OrderInv'
<1>1. sinkHeld \in Seq(Messages) /\ Val(sinkReceive) = {}
  BY ValFacts, SinkReceive DEF PipelineTypeOK
<1>2. CASE sinkHeld # << >>
  <2>1. sinkReceive' = Head(sinkHeld) /\ sinkHeld' = Tail(sinkHeld)
    BY <1>2, SinkReceive
  <2>2. /\ Increasing(sinkHeld') /\ Below(Val(sinkReceive'), Values(sinkHeld'))
        /\ Values(sinkHeld) = Val(sinkReceive') \cup Values(sinkHeld')
    BY <1>1, <1>2, <2>1, Taken DEF OrderInv, Below
  <2>. QED
    BY <1>1, <2>2, FlowMoved DEF OrderInv
<1>3. CASE sinkHeld = << >>
  <2>1. Val(sinkReceive') = {} /\ sinkHeld' = sinkHeld
    BY <1>3, ValFacts, SinkReceive
  <2>. QED
    BY <1>1, <2>1 DEF OrderInv
<1>. QED
  BY <1>2, <1>3

\* A message joins the sink's list or goes to who waits for it.
LEMMA SinkSent ==
  ASSUME PipelineTypeOK, SinkInv, OrderInv, NEW m \in Messages, Sink!Send(m),
         Val(m) = Val(srcReceive),
         Val(srcReceive') = {},
         UNCHANGED <<seen, srcHeld, lost, produced>>
  PROVE  OrderInv'
<1>1. sinkHeld \in Seq(Messages)
  BY DEF PipelineTypeOK
<1>2. CASE sinkReceive = Source!Waiting
  <2>1. /\ Val(sinkReceive) = {} /\ Values(sinkHeld) = {}
        /\ sinkReceive' = m /\ sinkHeld' = << >> /\ sinkHeld = << >>
    BY <1>2, SinkSend, ValFacts, NoneHeld
  <2>2. Flow(Values(seen), {}, {}, Val(srcReceive), Values(srcHeld), lost, produced)
    BY <2>1 DEF OrderInv
  <2>3. Flow(Values(seen), Val(srcReceive), {}, {}, Values(srcHeld), lost, produced)
    BY <2>2, FlowMoved
  <2>. QED
    BY <2>1, <2>3, NoneHeld DEF OrderInv
<1>3. CASE sinkReceive # Source!Waiting
  <2>1. sinkReceive' = sinkReceive /\ sinkHeld' = Append(sinkHeld, m)
    BY <1>3, SinkSend
  <2>2. \A n \in Values(sinkHeld), k \in Val(m) : n < k
    BY <1>1 DEF OrderInv, Flow, Below
  <2>3. Increasing(sinkHeld') /\ Values(sinkHeld') = Values(sinkHeld) \cup Val(srcReceive)
    BY <1>1, <2>1, <2>2, Appended DEF OrderInv
  <2>4. Flow(Values(seen), Val(sinkReceive), Values(sinkHeld) \cup Val(srcReceive), {},
             Values(srcHeld), lost, produced)
    BY FlowMoved DEF OrderInv
  <2>. QED
    BY <2>1, <2>3, <2>4 DEF OrderInv
<1>. QED
  BY <1>2, <1>3

\* The message whose send waits is taken out of the sink, and lost when it is a value.
LEMMA SinkCancelled ==
  ASSUME PipelineTypeOK, SinkInv, OrderInv, SendCancelled,
         sinkHeld' = IF Sink!SendWaits THEN SubSeq(sinkHeld, 1, SinkCapacity) ELSE sinkHeld,
         UNCHANGED <<seen, sinkReceive, srcReceive, srcHeld, produced>>
  PROVE  OrderInv'
<1>1. CASE Sink!SendWaits
  <2>. DEFINE m == sinkHeld[Len(sinkHeld)]
  <2>1. /\ sinkHeld \in Seq(Messages) /\ SinkCapacity \in Nat
        /\ Len(sinkHeld) = SinkCapacity + 1
    BY <1>1, PipelineAssumption, SinkCut DEF PipelineTypeOK
  <2>2. /\ Values(sinkHeld) = Values(sinkHeld') \cup Val(m)
        /\ Increasing(sinkHeld') /\ Below(Values(sinkHeld'), Val(m)) /\ Len(sinkHeld) \in DOMAIN sinkHeld
    BY <1>1, <2>1, Cut DEF OrderInv, Below
  <2>3. lost' = lost \cup Val(m)
    <3>1. CASE phase = "sink" /\ sending = "sent"
      BY <1>1, <2>2, <3>1, ValFacts DEF SendCancelled, SinkInv
    <3>2. CASE ~(phase = "sink" /\ sending = "sent")
      BY <1>1, <3>2, ValFacts DEF SendCancelled, SinkInv
    <3>. QED
      BY <3>1, <3>2
  <2>. QED
    BY <2>2, <2>3, FlowLost DEF OrderInv
<1>2. CASE ~Sink!SendWaits
  BY <1>2 DEF SendCancelled, OrderInv
<1>. QED
  BY <1>1, <1>2

LEMMA OrderStep ==
  ASSUME PipelineTypeOK, SourceInv, SinkInv, OrderInv, [PipelineNext]_all
  PROVE  OrderInv'
<1>1. /\ srcHeld \in Seq(Messages) /\ sinkHeld \in Seq(Messages) /\ seen \in Seq(Messages)
      /\ produced \in Nat /\ SourceCapacity \in Nat /\ srcReceive \in Receives
      /\ sinkReceive \in Receives /\ produced <= MaxValues /\ MaxValues \in Nat
  BY CopyAssumption, PipelineAssumption DEF PipelineTypeOK
<1>2. CASE UNCHANGED <<seen, srcHeld, srcReceive, sinkHeld, sinkReceive, lost, produced>>
  BY <1>2 DEF OrderInv
<1>3. CASE Produce
  <2>0. UNCHANGED <<seen, sinkHeld, sinkReceive, lost>>
    BY <1>3 DEF Produce, sinkVars
  <2>1. ASSUME produced < MaxValues, produced' = produced + 1, Source!Send(Value(produced + 1))
        PROVE  OrderInv'
    <3>1. Value(produced + 1) \in Messages /\ Val(Value(produced + 1)) = {produced + 1}
      <4>1. produced + 1 \in 1 .. MaxValues
        BY <1>1, <2>1
      <4>. QED
        BY <4>1, MessageFacts, ValFacts
    <3>2. CASE srcReceive = Source!Waiting
      <4>1. /\ srcHeld = << >> /\ srcHeld' = << >> /\ srcReceive' = Value(produced + 1)
            /\ Val(srcReceive) = {} /\ Values(srcHeld) = {}
        BY <2>1, <3>2, NoneHeld, ValFacts DEF SourceInv, Source!Send
      <4>2. Flow(Values(seen), Val(sinkReceive), Values(sinkHeld), {produced + 1}, {}, lost,
                 produced + 1)
        BY <1>1, <4>1, FlowProduced DEF OrderInv
      <4>. QED
        BY <2>0, <2>1, <3>1, <4>1, <4>2 DEF OrderInv
    <3>3. CASE srcReceive # Source!Waiting
      <4>1. srcReceive' = srcReceive /\ srcHeld' = Append(srcHeld, Value(produced + 1))
        BY <2>1, <3>3 DEF Source!Send
      <4>2. \A n \in Values(srcHeld) : n < produced + 1
        <5>1. Values(srcHeld) \subseteq 1 .. produced
          BY DEF OrderInv, Flow
        <5>. QED
          BY <1>1, <5>1
      <4>3. /\ Increasing(srcHeld') /\ Values(srcHeld') = Values(srcHeld) \cup {produced + 1}
        BY <1>1, <3>1, <4>1, <4>2, Appended DEF OrderInv
      <4>4. Flow(Values(seen), Val(sinkReceive), Values(sinkHeld), Val(srcReceive),
                 Values(srcHeld) \cup {produced + 1}, lost, produced + 1)
        BY <1>1, FlowProduced DEF OrderInv
      <4>. QED
        BY <2>0, <2>1, <4>1, <4>3, <4>4 DEF OrderInv
    <3>. QED
      BY <3>2, <3>3
  <2>2. ASSUME Source!Send(Source!Fault), UNCHANGED produced
        PROVE  OrderInv'
    <3>1. CASE srcReceive = Source!Waiting
      <4>1. srcHeld' = srcHeld /\ Val(srcReceive') = {} /\ Val(srcReceive) = {}
        BY <2>2, <3>1, ValFacts DEF Source!Send
      <4>. QED
        BY <2>0, <2>2, <4>1 DEF OrderInv
    <3>2. CASE srcReceive # Source!Waiting
      <4>1. srcReceive' = srcReceive /\ srcHeld' = Append(srcHeld, Source!Fault)
        BY <2>2, <3>2 DEF Source!Send
      <4>2. Increasing(srcHeld') /\ Values(srcHeld') = Values(srcHeld)
        BY <1>1, <4>1, FaultAppended DEF OrderInv
      <4>. QED
        BY <2>0, <2>2, <4>1, <4>2 DEF OrderInv
    <3>. QED
      BY <3>1, <3>2
  <2>. QED
    BY <1>3, <2>1, <2>2 DEF Produce
<1>4. CASE CloseSource
  <2>1. Val(srcReceive') = Val(srcReceive) /\ UNCHANGED <<seen, srcHeld, sinkHeld, sinkReceive, lost, produced>>
    BY <1>4, ValFacts DEF CloseSource, Source!Close, sinkVars, progVars
  <2>. QED
    BY <2>1 DEF OrderInv
<1>5. CASE CancelSource
  <2>1. Val(srcReceive') = Val(srcReceive) /\ UNCHANGED <<seen, sinkHeld, sinkReceive, lost>>
    BY <1>5, ValFacts DEF CancelSource, Source!Cancel, sinkVars
  <2>2. CASE Source!SendWaits
    <3>. DEFINE m == srcHeld[Len(srcHeld)]
    <3>1. Len(srcHeld) = SourceCapacity + 1 /\ srcHeld' = SubSeq(srcHeld, 1, SourceCapacity)
      BY <1>1, <1>5, <2>2 DEF CancelSource, Source!Cancel, Source!SendWaits, SourceInv
    <3>2. /\ Values(srcHeld) = Values(srcHeld') \cup Val(m)
          /\ Increasing(srcHeld') /\ Below(Values(srcHeld'), Val(m))
      BY <1>1, <3>1, Cut DEF OrderInv, Below
    <3>3. CASE m.ec = "ok"
      <4>1. Val(m) = {m.v} /\ produced' = produced - 1
        BY <1>5, <2>2, <3>3, ValFacts DEF CancelSource
      <4>2. Flow(Values(seen), Val(sinkReceive), Values(sinkHeld), Val(srcReceive),
                 Values(srcHeld') \cup {m.v}, lost, produced)
        BY <3>2, <4>1 DEF OrderInv
      <4>3. Flow(Values(seen), Val(sinkReceive), Values(sinkHeld), Val(srcReceive),
                 Values(srcHeld'), lost, produced - 1)
        <5>1. Below(Values(srcHeld'), {m.v})
          BY <3>2, <4>1
        <5>. HIDE DEF m
        <5>. QED
          BY <1>1, <4>2, <5>1, FlowUnproduced
      <4>. QED
        BY <2>1, <3>2, <4>1, <4>3 DEF OrderInv
    <3>4. CASE m.ec # "ok"
      BY <1>5, <2>1, <2>2, <3>2, <3>4, ValFacts DEF CancelSource, OrderInv
    <3>. QED
      BY <3>3, <3>4
  <2>3. CASE ~Source!SendWaits
    BY <1>5, <2>1, <2>3 DEF CancelSource, Source!Cancel, OrderInv
  <2>. QED
    BY <2>2, <2>3
<1>6. CASE CloseSink
  <2>1. Val(sinkReceive') = Val(sinkReceive) /\ UNCHANGED <<seen, srcHeld, srcReceive, sinkHeld, lost, produced>>
    BY <1>6, ValFacts, SameReplies DEF CloseSink, Sink!Close, srcVars, progVars
  <2>. QED
    BY <2>1 DEF OrderInv
<1>7. CASE Abandon
  BY <1>7, SinkCancelled DEF Abandon, srcVars, progVars
<1>8. CASE EndStream
  <2>1. sinkHeld' \in {sinkHeld, Append(sinkHeld, Source!Fault)} /\ Val(sinkReceive') = Val(sinkReceive)
    BY <1>8, SameReplies, ValFacts DEF EndStream, Sink!Send
  <2>2. Increasing(sinkHeld') /\ Values(sinkHeld') = Values(sinkHeld)
    BY <1>1, <2>1, FaultAppended DEF OrderInv
  <2>. QED
    BY <1>8, <2>1, <2>2 DEF EndStream, OrderInv, srcVars
<1>9. CASE CopyStart
  BY <1>9, SourceAsked DEF CopyStart, sinkVars, progVars
<1>10. CASE CopyReceived
  <2>1. /\ Val(srcReceive') = {} /\ UNCHANGED <<seen, srcHeld, produced>>
    BY <1>10, ValFacts DEF CopyReceived, Source!Take, progVars
  <2>2. CASE srcReceive.ec = "ok" /\ Sink!Send(srcReceive) /\ UNCHANGED lost
    <3>1. srcReceive \in Messages
      BY <1>1, <2>2, MessageFacts
    <3>. QED
      BY <2>1, <2>2, <3>1, SinkSent
  <2>3. CASE srcReceive.ec = "ok" /\ lost' = lost \cup {srcReceive.v} /\ UNCHANGED sinkVars
    <3>1. Val(srcReceive) = {srcReceive.v} /\ UNCHANGED <<sinkHeld, sinkReceive>>
      BY <2>3, ValFacts DEF sinkVars
    <3>2. Flow(Values(seen), Val(sinkReceive), Values(sinkHeld), {}, Values(srcHeld),
               lost \cup Val(srcReceive), produced)
      BY FlowLost DEF OrderInv
    <3>. QED
      BY <2>1, <2>3, <3>1, <3>2 DEF OrderInv
  <2>4. CASE srcReceive.ec # "ok" /\ UNCHANGED <<sinkVars, lost>>
    BY <2>1, <2>4, ValFacts DEF OrderInv, sinkVars
  <2>. QED
    BY <1>10, <2>2, <2>3, <2>4 DEF CopyReceived
<1>11. CASE CopySent
  <2>1. UNCHANGED <<seen, sinkHeld, sinkReceive, lost, produced>>
    BY <1>11 DEF CopySent, sinkVars, progVars
  <2>2. CASE UNCHANGED srcVars
    BY <2>1, <2>2 DEF OrderInv, srcVars
  <2>3. CASE Source!Receive
    BY <2>1, <2>3, SourceAsked
  <2>. QED
    BY <1>11, <2>2, <2>3 DEF CopySent
<1>12. CASE CancelCopy
  <2>1. UNCHANGED <<seen, produced>>
    BY <1>12 DEF CancelCopy, progVars
  <2>2. CASE phase = "source"
    <3>1. Val(srcReceive') = Val(srcReceive) /\ UNCHANGED <<srcHeld, sinkHeld, sinkReceive, lost>>
      BY <1>12, <2>2, ValFacts DEF CancelCopy, Source!CancelReceive, sinkVars
    <3>. QED
      BY <2>1, <3>1 DEF OrderInv
  <2>3. CASE phase # "source" /\ sending = "sent"
    BY <1>12, <2>1, <2>3, SinkCancelled DEF CancelCopy, Sink!CancelSend, srcVars
  <2>4. CASE phase # "source" /\ sending # "sent"
    BY <1>12, <2>1, <2>4 DEF CancelCopy, SendCancelled, OrderInv, srcVars, sinkVars
  <2>. QED
    BY <2>2, <2>3, <2>4
<1>13. CASE LoopAsks
  <2>1. UNCHANGED <<seen, srcHeld, srcReceive, lost, produced>>
    BY <1>13 DEF LoopAsks, srcVars, progVars
  <2>2. CASE Sink!Receive
    BY <2>1, <2>2, SinkAsked
  <2>3. CASE UNCHANGED sinkVars
    BY <2>1, <2>3 DEF OrderInv, sinkVars
  <2>. QED
    BY <1>13, <2>2, <2>3 DEF LoopAsks
<1>14. CASE LoopReceived
  <2>1. Val(sinkReceive') = {} /\ UNCHANGED <<sinkHeld, srcHeld, srcReceive, lost, produced>>
    BY <1>14, ValFacts, SameReplies DEF LoopReceived, Sink!Take, srcVars, progVars
  <2>2. CASE sinkReceive.ec = "ok"
    <3>1. seen' = Append(seen, sinkReceive) /\ sinkReceive \in Messages
      BY <1>1, <1>14, <2>2, MessageFacts DEF LoopReceived
    <3>2. Increasing(seen') /\ Values(seen') = Values(seen) \cup Val(sinkReceive)
      BY <1>1, <3>1, Appended DEF OrderInv, Flow, Below
    <3>3. Flow(Values(seen) \cup Val(sinkReceive), {}, Values(sinkHeld), Val(srcReceive),
               Values(srcHeld), lost, produced)
      BY FlowMoved DEF OrderInv
    <3>. QED
      BY <2>1, <3>2, <3>3 DEF OrderInv
  <2>3. CASE sinkReceive.ec # "ok"
    BY <1>14, <2>1, <2>3, ValFacts DEF LoopReceived, OrderInv
  <2>. QED
    BY <2>2, <2>3
<1>15. CASE LoopCancelled
  <2>1. Val(sinkReceive') = Val(sinkReceive) /\ UNCHANGED <<seen, srcHeld, srcReceive, sinkHeld, lost, produced>>
    BY <1>15, ValFacts, SameReplies DEF LoopCancelled, Sink!CancelReceive, srcVars, progVars
  <2>. QED
    BY <2>1 DEF OrderInv
<1>. QED
  BY Frames, <1>2, <1>3, <1>4, <1>5, <1>6, <1>7, <1>8, <1>9, <1>10, <1>11, <1>12, <1>13, <1>14, <1>15

-----------------------------------------------------------------------------
\* What the copies lost.
LEMMA LossStep ==
  ASSUME PipelineTypeOK, SinkInv, LossBounded, [PipelineNext]_all
  PROVE  LossBounded'
<1>1. IsFiniteSet(lost) /\ Cardinality(lost) \in Nat
  <2>1. lost \in SUBSET (1 .. MaxValues) /\ 1 \in Int /\ MaxValues \in Int
    BY CopyAssumption DEF PipelineTypeOK
  <2>2. IsFiniteSet(1 .. MaxValues)
    BY <2>1, FS_Interval
  <2>3. IsFiniteSet(lost)
    BY <2>1, <2>2, FS_Subset
  <2>. QED
    BY <2>3, FS_CardinalityType
<1>2. ASSUME NEW v
      PROVE  /\ Cardinality(lost \cup {v}) \in Nat
             /\ Cardinality(lost \cup {v}) <= Cardinality(lost) + 1
  <2>1. Cardinality(lost \cup {v}) = IF v \in lost THEN Cardinality(lost) ELSE Cardinality(lost) + 1
    BY <1>1, FS_AddElement
  <2>. QED
    BY <1>1, <2>1
<1>3. /\ copies \in Nat
      /\ result # "none" <=> phase = "done"
      /\ sending # "idle" <=> phase = "sink"
  BY PipelineAssumption DEF PipelineTypeOK, TypeOK
<1>4. ASSUME SendCancelled, UNCHANGED <<result, copies>>
      PROVE  LossBounded'
  <2>1. CASE UNCHANGED <<sending, lost>>
    BY <1>4, <2>1 DEF LossBounded
  <2>2. CASE /\ phase = "sink" /\ sending = "sent" /\ sending' = "failed"
             /\ lost' = lost \cup {sinkHeld[Len(sinkHeld)].v}
    <3>1. Cardinality(lost) <= copies - 1
      BY <1>3, <2>2 DEF LossBounded
    <3>2. Cardinality(lost') \in Nat /\ Cardinality(lost') <= Cardinality(lost) + 1
      BY <1>2, <2>2
    <3>. QED
      BY <1>1, <1>3, <1>4, <2>2, <3>1, <3>2 DEF LossBounded
  <2>. QED
    BY <1>4, <2>1, <2>2 DEF SendCancelled
<1>5. CASE UNCHANGED <<lost, sending, result, copies>>
  BY <1>5 DEF LossBounded
<1>6. CASE Abandon
  BY <1>4, <1>6 DEF Abandon, copyVars, vars, progVars
<1>7. CASE Again
  BY <1>1, <1>3, <1>7 DEF Again, LossBounded
<1>8. CASE CopyReceived
  <2>1. phase = "source" /\ UNCHANGED copies /\ sending = "idle" /\ result = "none"
    BY <1>3, <1>8 DEF CopyReceived, SourceGave, SourceFailed, progVars
  <2>2. CASE UNCHANGED lost
    BY <1>1, <1>3, <2>1, <2>2 DEF LossBounded
  <2>3. CASE /\ lost' = lost \cup {srcReceive.v}
             /\ SourceGave /\ sending' = IF cancelled THEN "idle" ELSE "failed"
    <3>1. Cardinality(lost) <= copies - 1
      BY <1>3, <2>1 DEF LossBounded
    <3>2. Cardinality(lost') \in Nat /\ Cardinality(lost') <= Cardinality(lost) + 1
      BY <1>2, <2>3
    <3>3. sending' = "failed" \/ result' = "aborted"
      BY <2>3 DEF SourceGave, End
    <3>. QED
      BY <1>1, <1>3, <2>1, <3>1, <3>2, <3>3 DEF LossBounded
  <2>. QED
    BY <1>8, <2>2, <2>3 DEF CopyReceived
<1>9. CASE CopySent
  <2>1. UNCHANGED <<lost, copies>> /\ sending' = "idle" /\ result = "none"
    BY <1>3, <1>9 DEF CopySent, SinkAccepted, SinkFailed, progVars
  <2>2. CASE sending = "sent"
    BY <1>1, <1>3, <2>1, <2>2 DEF LossBounded
  <2>3. CASE sending = "failed" /\ SinkFailed
    BY <1>1, <1>3, <2>1, <2>3 DEF LossBounded, SinkFailed, End
  <2>. QED
    BY <1>9, <2>2, <2>3 DEF CopySent
<1>10. CASE CancelCopy
  <2>1. UNCHANGED <<result, copies>> /\ (SendCancelled \/ UNCHANGED <<sending, lost>>)
    BY <1>10 DEF CancelCopy, Cancel, progVars
  <2>. QED
    BY <1>4, <1>5, <2>1
<1>. QED
  BY Frames, <1>5, <1>6, <1>7, <1>8, <1>9, <1>10

\* Types.
LEMMA TypeStep ==
  ASSUME PipelineTypeOK, CountInv, SourceInv, SinkInv, OrderInv, [PipelineNext]_all
  PROVE  PipelineTypeOK'
<1>1. /\ TypeOK
      /\ MaxValues \in Nat /\ SizeMax \in Nat /\ MaxValues <= SizeMax
      /\ SourceCapacity \in Nat /\ SinkCapacity \in Nat /\ MaxCopies \in Nat \ {0}
      /\ sending \in {"idle", "sent", "failed"} /\ (sending # "idle" <=> phase = "sink")
      /\ srcHeld \in Seq(Messages) /\ sinkHeld \in Seq(Messages)
      /\ srcReceive \in Receives /\ sinkReceive \in Receives
      /\ srcOpen \in BOOLEAN /\ sinkOpen \in BOOLEAN
      /\ seen \in Seq(Messages) /\ lost \subseteq 1 .. MaxValues
      /\ produced \in 0 .. MaxValues /\ copies \in 0 .. MaxCopies
      /\ ended \in BOOLEAN /\ alive \in BOOLEAN
  BY CopyAssumption, PipelineAssumption DEF PipelineTypeOK
<1>2. TypeOK'
  <2>. USE DEF TypeOK
  <2>1. \A n \in 0 .. MaxValues : Wrapped(n - 1) \in 0 .. SizeMax /\ Wrapped(Wrapped(n - 1) + 1) = n
    BY <1>1, WrapsBack
  <2>2. CASE UNCHANGED copyVars
    BY <1>1, <2>2 DEF copyVars, vars
  <2>3. CASE Again
    <3>1. /\ phase' = "initial" /\ completed' = 0 /\ cancelled' = FALSE
          /\ result' = "none" /\ taken' = 0 /\ stored' = 0
      BY <2>3 DEF Again
    <3>2. 0 \in 0 .. SizeMax /\ 0 \in 0 .. MaxValues
      BY <1>1
    <3>. QED
      BY <3>1, <3>2
  <2>4. CASE CopyStart
    BY <1>1, <2>1, <2>4 DEF CopyStart, Start, CountInv
  <2>5. CASE CopyReceived
    <3>0. taken \in 0 .. MaxValues /\ taken \in 0 .. SizeMax
      BY <1>1
    <3>1. phase = "source" => Wrapped(completed + 1) \in 0 .. SizeMax
      BY <2>1, <3>0 DEF CountInv
    <3>. QED
      BY <1>1, <2>5, <3>1 DEF CopyReceived, SourceGave, SourceFailed, End
  <2>6. CASE CopySent
    BY <1>1, <2>6 DEF CopySent, SinkAccepted, SinkFailed, End, CountInv
  <2>7. CASE CancelCopy
    BY <1>1, <2>7 DEF CancelCopy, Cancel
  <2>. QED
    BY Frames, <2>2, <2>3, <2>4, <2>5, <2>6, <2>7
<1>3. /\ over' \in {"channel", "coro"} /\ throwing' \in BOOLEAN /\ stopped' \in BOOLEAN
      /\ at' \in {"start", "receiving", "body", "left", "threw", "dropped"}
      /\ has_value' \in BOOLEAN /\ constructed' \in BOOLEAN /\ destroyed' \in BOOLEAN
      /\ seen' \in Seq(Messages)
  <2>1. /\ over \in {"channel", "coro"} /\ throwing \in BOOLEAN /\ stopped \in BOOLEAN
        /\ at \in {"start", "receiving", "body", "left", "threw", "dropped"}
        /\ has_value \in BOOLEAN /\ constructed \in BOOLEAN /\ destroyed \in BOOLEAN
    BY DEF PipelineTypeOK
  <2>2. CASE UNCHANGED <<loopVars, seen>>
    BY <1>1, <2>1, <2>2 DEF loopVars
  <2>3. CASE LoopAsks
    BY <1>1, <2>1, <2>3 DEF LoopAsks, Ask, Stop, Leave, MarkBeforeReceive
  <2>4. CASE LoopReceived
    <3>1. sinkReceive.ec = "ok" => Append(seen, sinkReceive) \in Seq(Messages)
      BY <1>1, MessageFacts, Appended
    <3>. QED
      BY <1>1, <2>1, <2>4, <3>1 DEF LoopReceived, Received, Failed, Exhausted, Leave
  <2>5. CASE LoopBroken
    BY <1>1, <2>1, <2>5 DEF LoopBroken, Break, Leave
  <2>6. CASE LoopCancelled
    BY <1>1, <2>1, <2>6 DEF LoopCancelled, CancelLoop
  <2>7. CASE Shutdown
    BY <1>1, <2>1, <2>7 DEF Shutdown, Drop, Leave, loopVars
  <2>. QED
    BY Frames, <2>2, <2>3, <2>4, <2>5, <2>6, <2>7
<1>4. /\ srcHeld' \in Seq(Messages) /\ srcReceive' \in Receives /\ srcOpen' \in BOOLEAN
      /\ produced' \in 0 .. MaxValues
  <2>1. ASSUME Source!Receive
        PROVE  srcHeld' \in Seq(Messages) /\ srcReceive' \in Receives /\ srcOpen' \in BOOLEAN
    <3>1. CASE srcHeld = << >>
      BY <1>1, <2>1, <3>1, MessageFacts DEF Source!Receive
    <3>2. CASE srcHeld # << >>
      <4>1. Head(srcHeld) \in Messages /\ Tail(srcHeld) \in Seq(Messages)
        BY <1>1, <3>2, Taken
      <4>. QED
        BY <1>1, <2>1, <3>2, <4>1, MessageFacts DEF Source!Receive
    <3>. QED
      BY <3>1, <3>2
  <2>2. CASE UNCHANGED <<srcVars, produced>>
    BY <1>1, <2>2 DEF srcVars
  <2>3. CASE Produce
    <3>1. \A n \in 0 .. MaxValues : n < MaxValues => Value(n + 1) \in Messages
      BY <1>1, MessageFacts
    <3>2. PICK m \in Messages : Source!Send(m)
      BY <1>1, <2>3, <3>1, MessageFacts DEF Produce
    <3>3. Append(srcHeld, m) \in Seq(Messages)
      BY <1>1, Appended
    <3>4. produced' \in 0 .. MaxValues
      BY <1>1, <2>3 DEF Produce
    <3>. QED
      BY <1>1, <3>2, <3>3, <3>4, MessageFacts DEF Source!Send
  <2>4. CASE CloseSource
    BY <1>1, <2>4, MessageFacts DEF CloseSource, Source!Close, progVars
  <2>5. CASE CancelSource
    <3>1. CASE Source!SendWaits
      <4>1. Len(srcHeld) = SourceCapacity + 1 /\ srcHeld' = SubSeq(srcHeld, 1, SourceCapacity)
        BY <1>1, <2>5, <3>1 DEF CancelSource, Source!Cancel, Source!SendWaits, SourceInv
      <4>2. srcHeld' \in Seq(Messages) /\ Len(srcHeld) \in DOMAIN srcHeld
        BY <1>1, <4>1, Cut
      <4>3. srcHeld[Len(srcHeld)].ec = "ok" => srcHeld[Len(srcHeld)].v \in Values(srcHeld)
        BY <4>2 DEF Values
      <4>4. Values(srcHeld) \subseteq 1 .. produced
        BY DEF OrderInv, Flow
      <4>5. produced' \in 0 .. MaxValues
        BY <1>1, <2>5, <4>3, <4>4 DEF CancelSource
      <4>. QED
        BY <1>1, <2>5, <4>2, <4>5, MessageFacts DEF CancelSource, Source!Cancel
    <3>2. CASE ~Source!SendWaits
      BY <1>1, <2>5, <3>2, MessageFacts DEF CancelSource, Source!Cancel
    <3>. QED
      BY <3>1, <3>2
  <2>6. CASE CopyStart
    BY <1>1, <2>1, <2>6 DEF CopyStart, progVars
  <2>7. CASE CopyReceived
    BY <1>1, <2>7, MessageFacts DEF CopyReceived, Source!Take, progVars
  <2>8. CASE CopySent
    BY <1>1, <2>1, <2>8 DEF CopySent, srcVars, progVars
  <2>9. CASE CancelCopy
    BY <1>1, <2>9, MessageFacts DEF CancelCopy, Source!CancelReceive, srcVars, progVars
  <2>. QED
    BY Frames, <2>2, <2>3, <2>4, <2>5, <2>6, <2>7, <2>8, <2>9
<1>5. ASSUME NEW m \in Messages, Sink!Send(m)
      PROVE  sinkHeld' \in Seq(Messages) /\ sinkReceive' \in Receives /\ sinkOpen' \in BOOLEAN
  <2>1. Append(sinkHeld, m) \in Seq(Messages) /\ m \in Receives
    BY <1>1, Appended, MessageFacts
  <2>. QED
    BY <1>1, <1>5, <2>1 DEF Sink!Send
<1>6. ASSUME sinkHeld' = IF Sink!SendWaits THEN SubSeq(sinkHeld, 1, SinkCapacity) ELSE sinkHeld
      PROVE  sinkHeld' \in Seq(Messages)
  <2>1. Sink!SendWaits => Len(sinkHeld) = SinkCapacity + 1
    BY <1>6, SinkCut
  <2>. QED
    BY <1>1, <1>6, <2>1, Cut
<1>7. /\ sinkHeld' \in Seq(Messages) /\ sinkReceive' \in Receives /\ sinkOpen' \in BOOLEAN
      /\ sending' \in {"idle", "sent", "failed"} /\ (sending' # "idle" <=> phase' = "sink")
      /\ ended' \in BOOLEAN
  <2>1. CASE UNCHANGED <<sinkVars, phase, sending, ended, stopped>>
    BY <1>1, <2>1 DEF sinkVars
  <2>2. CASE CloseSink
    BY <1>1, <2>2, MessageFacts, SameReplies DEF CloseSink, Sink!Close, copyVars, vars, progVars
  <2>3. CASE Abandon
    BY <1>1, <1>6, <2>3 DEF Abandon, SendCancelled, copyVars, vars, progVars
  <2>4. CASE Again
    BY <1>1, <2>4 DEF Again, sinkVars
  <2>5. CASE EndStream
    BY <1>1, <1>5, <2>5, MessageFacts, SameReplies DEF EndStream, copyVars, vars
  <2>6. CASE CopyStart
    BY <1>1, <2>6 DEF CopyStart, Start, sinkVars, progVars
  <2>7. CASE CopyReceived
    <3>1. srcReceive.ec = "ok" => srcReceive \in Messages
      BY <1>1, MessageFacts
    <3>2. UNCHANGED ended
      BY <2>7 DEF CopyReceived, progVars
    <3>3. CASE srcReceive.ec = "ok" /\ SourceGave /\ ~cancelled /\ Sink!Send(srcReceive) /\ sending' = "sent"
      BY <1>1, <1>5, <3>1, <3>2, <3>3 DEF SourceGave
    <3>4. CASE /\ SourceGave /\ (cancelled \/ ~sinkOpen)
               /\ sending' = (IF cancelled THEN "idle" ELSE "failed") /\ UNCHANGED sinkVars
      BY <1>1, <3>2, <3>4 DEF SourceGave, End, sinkVars
    <3>5. CASE SourceFailed /\ UNCHANGED <<sinkVars, sending>>
      BY <1>1, <3>2, <3>5 DEF SourceFailed, End, sinkVars
    <3>. QED
      BY <2>7, <3>3, <3>4, <3>5 DEF CopyReceived
  <2>8. CASE CopySent
    BY <1>1, <2>8 DEF CopySent, SinkAccepted, SinkFailed, End, sinkVars, progVars
  <2>9. CASE CancelCopy
    <3>1. UNCHANGED <<phase, ended>> /\ sending' \in {sending, "failed"} /\ (phase = "source" => UNCHANGED sending)
      BY <2>9 DEF CancelCopy, Cancel, SendCancelled, progVars
    <3>2. CASE UNCHANGED sinkVars
      BY <1>1, <2>9, <3>1, <3>2 DEF CancelCopy, Cancel, sinkVars
    <3>3. CASE Sink!CancelSend
      BY <1>1, <1>6, <2>9, <3>1, <3>3 DEF CancelCopy, Cancel, Sink!CancelSend
    <3>. QED
      BY <2>9, <3>2, <3>3 DEF CancelCopy
  <2>10. CASE LoopAsks
    <3>1. UNCHANGED <<phase, sending, ended>>
      BY <2>10 DEF LoopAsks, copyVars, vars, progVars
    <3>2. CASE UNCHANGED sinkVars
      BY <1>1, <3>1, <3>2 DEF sinkVars
    <3>3. CASE Sink!Receive /\ sinkHeld = << >>
      BY <1>1, <3>1, <3>3, SinkReceive, MessageFacts
    <3>4. CASE Sink!Receive /\ sinkHeld # << >>
      <4>1. Head(sinkHeld) \in Messages /\ Tail(sinkHeld) \in Seq(Messages)
        BY <1>1, <3>4, Taken
      <4>. QED
        BY <1>1, <3>1, <3>4, <4>1, SinkReceive, MessageFacts
    <3>. QED
      BY <2>10, <3>2, <3>3, <3>4 DEF LoopAsks
  <2>11. CASE LoopReceived
    BY <1>1, <2>11, MessageFacts, SameReplies DEF LoopReceived, Sink!Take, copyVars, vars, progVars
  <2>12. CASE LoopCancelled
    BY <1>1, <2>12, MessageFacts, SameReplies
       DEF LoopCancelled, Sink!CancelReceive, copyVars, vars, progVars
  <2>. QED
    BY Frames, <2>1, <2>2, <2>3, <2>4, <2>5, <2>6, <2>7, <2>8, <2>9, <2>10, <2>11, <2>12
<1>8. lost' \subseteq 1 .. MaxValues /\ copies' \in 0 .. MaxCopies
  <2>1. CASE UNCHANGED <<lost, sending, result, copies>>
    BY <1>1, <2>1
  <2>2. CASE SendCancelled /\ UNCHANGED copies
    <3>1. CASE UNCHANGED lost
      BY <1>1, <2>2, <3>1
    <3>2. CASE /\ phase = "sink" /\ sending = "sent" /\ Sink!SendWaits
               /\ lost' = lost \cup {sinkHeld[Len(sinkHeld)].v}
      <4>1. Len(sinkHeld) \in DOMAIN sinkHeld /\ sinkHeld[Len(sinkHeld)] \in Messages
        BY <1>1, <3>2 DEF Sink!SendWaits
      <4>2. sinkHeld[Len(sinkHeld)].ec = "ok"
        BY <3>2, <4>1 DEF SinkInv
      <4>. QED
        BY <1>1, <2>2, <3>2, <4>1, <4>2, MessageFacts
    <3>. QED
      BY <2>2, <3>1, <3>2 DEF SendCancelled
  <2>3. CASE Abandon
    BY <2>2, <2>3 DEF Abandon, progVars
  <2>4. CASE Again
    BY <1>1, <2>4 DEF Again
  <2>5. CASE CopyReceived
    <3>1. srcReceive.ec = "ok" => srcReceive.v \in 1 .. MaxValues
      BY <1>1, MessageFacts
    <3>. QED
      BY <1>1, <2>5, <3>1 DEF CopyReceived, progVars
  <2>6. CASE CopySent
    BY <1>1, <2>6 DEF CopySent, progVars
  <2>7. CASE CancelCopy
    BY <1>1, <2>2, <2>7 DEF CancelCopy, progVars
  <2>. QED
    BY Frames, <2>1, <2>3, <2>4, <2>5, <2>6, <2>7
<1>9. alive' \in BOOLEAN
  BY <1>1 DEF PipelineNext, Shutdown, all
<1>. QED
  BY <1>2, <1>3, <1>4, <1>7, <1>8, <1>9 DEF PipelineTypeOK

-----------------------------------------------------------------------------
\* The invariant holds at the beginning and every step keeps it.
LEMMA InvInit == PipelineInit => PipelineInv
<1>. SUFFICES ASSUME PipelineInit
              PROVE  PipelineInv
  OBVIOUS
<1>1. /\ phase = "initial" /\ completed = 0 /\ cancelled = FALSE /\ result = "none"
      /\ taken = 0 /\ stored = 0
      /\ over \in {"channel", "coro"} /\ throwing \in BOOLEAN /\ at = "start"
      /\ has_value = FALSE /\ constructed = FALSE /\ destroyed = FALSE /\ stopped = FALSE
      /\ srcHeld = << >> /\ srcOpen = TRUE /\ srcReceive = Source!Idle
      /\ sinkHeld = << >> /\ sinkOpen = TRUE /\ sinkReceive = Source!Idle
      /\ sending = "idle" /\ produced = 0 /\ copies = 1 /\ ended = FALSE
      /\ seen = << >> /\ lost = {} /\ alive = TRUE
  BY SameReplies
     DEF PipelineInit, Init, LoopInit, Source!ChannelInit, Sink!ChannelInit
<1>2. /\ MaxValues \in Nat /\ SizeMax \in Nat /\ MaxCopies \in Nat \ {0}
      /\ SourceCapacity \in Nat /\ SinkCapacity \in Nat
  BY CopyAssumption, PipelineAssumption
<1>3. << >> \in Seq(Messages) /\ Source!Idle \in Receives /\ Len(<< >>) = 0 /\ DOMAIN << >> = {}
  BY MessageFacts
<1>4. PipelineTypeOK
  <2>1. 0 \in 0 .. SizeMax /\ 0 \in 0 .. MaxValues /\ 1 \in 0 .. MaxCopies
    BY <1>2
  <2>2. TypeOK
    BY <1>1, <2>1 DEF TypeOK
  <2>3. lost \subseteq 1 .. MaxValues /\ produced \in 0 .. MaxValues /\ copies \in 0 .. MaxCopies
    BY <1>1, <2>1
  <2>. QED
    BY <1>1, <1>3, <2>2, <2>3 DEF PipelineTypeOK
<1>5. CountInv /\ LoopInv
  BY <1>1 DEF CountInv, CountRight, LoopInv, LoopOver
<1>6. SourceInv /\ SinkInv
  BY <1>1, <1>2, <1>3, Replies DEF SourceInv, SinkInv, Sink!SendWaits
<1>7. OrderInv
  <2>1. /\ Values(seen) = {} /\ Values(sinkHeld) = {} /\ Values(srcHeld) = {}
        /\ Increasing(seen) /\ Increasing(sinkHeld) /\ Increasing(srcHeld)
        /\ Val(sinkReceive) = {} /\ Val(srcReceive) = {}
    BY <1>1, NoneHeld, ValFacts
  <2>2. 1 .. produced = {}
    BY <1>1
  <2>3. Flow({}, {}, {}, {}, {}, lost, produced)
    BY <1>1, <2>2 DEF Flow, Below
  <2>. QED
    BY <2>1, <2>3 DEF OrderInv
<1>8. LossBounded
  BY <1>1, FS_EmptySet DEF LossBounded
<1>. QED
  BY <1>4, <1>5, <1>6, <1>7, <1>8 DEF PipelineInv

LEMMA InvStep == PipelineInv /\ [PipelineNext]_all => PipelineInv'
BY CountStep, LoopStep, SourceStep, SinkStep, OrderStep, LossStep, TypeStep DEF PipelineInv

THEOREM InvHolds == PipelineSpec => []PipelineInv
BY InvInit, InvStep, PTL DEF PipelineSpec

-----------------------------------------------------------------------------
\* Every variable keeps its type, with any number of values, copies and places.
THEOREM PipelineTypeCorrect == PipelineSpec => []PipelineTypeOK
<1>1. PipelineInv => PipelineTypeOK
  BY DEF PipelineInv
<1>. QED
  BY InvHolds, <1>1, PTL

\* The number that a copy reports is what its sink accepted (copy.hpp:28, 36, 43),
\* whatever the width of the count and whatever copies came before.
THEOREM CountRightHolds == PipelineSpec => []CountRight
<1>1. PipelineInv => CountRight
  BY DEF PipelineInv, CountInv
<1>. QED
  BY InvHolds, <1>1, PTL

\* Values stay in order from the producer to the loop, none twice, and none is gone
\* that no copy dropped.
THEOREM InOrderHolds == PipelineSpec => []InOrder
<1>1. PipelineInv => InOrder
  <2>. SUFFICES ASSUME OrderInv
                PROVE  InOrder
    BY DEF PipelineInv
  <2>1. /\ Stations[1] = seen /\ Stations[2] = <<sinkReceive>> /\ Stations[3] = sinkHeld
        /\ Stations[4] = <<srcReceive>> /\ Stations[5] = srcHeld
    BY DEF Stations
  <2>2. /\ Values(Stations[2]) = Val(sinkReceive) /\ Increasing(Stations[2])
        /\ Values(Stations[4]) = Val(srcReceive) /\ Increasing(Stations[4])
    BY <2>1, One
  <2>3. 1 .. 5 = {1, 2, 3, 4, 5}
    OBVIOUS
  <2>4. \A k \in 1 .. 5 : Increasing(Stations[k])
    BY <2>1, <2>2, <2>3 DEF OrderInv
  <2>5. Flow(Values(Stations[1]), Values(Stations[2]), Values(Stations[3]),
             Values(Stations[4]), Values(Stations[5]), lost, produced)
    BY <2>1, <2>2 DEF OrderInv
  <2>6. \A k, l \in 1 .. 5 : k < l => Below(Values(Stations[k]), Values(Stations[l]))
    BY <2>5 DEF Flow
  <2>7. \A k \in 1 .. 5 : Values(Stations[k]) \cap lost = {}
    BY <2>3, <2>5 DEF Flow
  <2>8. UNION {Values(Stations[k]) : k \in 1 .. 5} =
          Values(Stations[1]) \cup Values(Stations[2]) \cup Values(Stations[3])
            \cup Values(Stations[4]) \cup Values(Stations[5])
    BY <2>3
  <2>9. 1 .. produced = lost \cup UNION {Values(Stations[k]) : k \in 1 .. 5}
    BY <2>5, <2>8 DEF Flow
  <2>. QED
    BY <2>4, <2>6, <2>7, <2>9 DEF InOrder, Below
<1>. QED
  BY InvHolds, <1>1, PTL

\* A copy drops one value at most and then reports that it was aborted or that its
\* sink failed (copy.hpp:33-43).
THEOREM LossBoundedHolds == PipelineSpec => []LossBounded
<1>1. PipelineInv => LossBounded
  BY DEF PipelineInv
<1>. QED
  BY InvHolds, <1>1, PTL

\* The range destroys what it constructed; what it destroys and never constructed is
\* only the first value of a channel that never came (for.hpp:36-37, 51-55).
THEOREM ValueLifetimeHolds == PipelineSpec => []ValueLifetime
<1>1. PipelineInv => ValueLifetime
  <2>. SUFFICES ASSUME PipelineTypeOK, LoopInv, LoopOver
                PROVE  /\ constructed => destroyed
                       /\ destroyed /\ ~constructed =>
                            over = "channel" /\ seen = << >> /\ at \in {"threw", "dropped"}
    BY DEF PipelineInv, ValueLifetime
  <2>. QED
    BY DEF PipelineTypeOK, LoopInv, LoopOver
<1>. QED
  BY InvHolds, <1>1, PTL

\* A loop that ends by itself leaves a value behind only when it was cancelled, or
\* is over a channel that was closed (for.hpp:31).
THEOREM LeavesNothingHolds == PipelineSpec => LeavesNothing
<1>1. ASSUME PipelineInv, LoopHandles, LoopOver'
      PROVE  \/ Values(<<sinkReceive>>) \cup Values(sinkHeld) = {}
             \/ stopped
             \/ over = "channel" /\ ~sinkOpen
  <2>1. CASE LoopAsks
    <3>1. ~Ask(over = "channel" => sinkOpen)
      BY <1>1 DEF Ask, LoopOver
    <3>2. Stop(over = "channel" => sinkOpen)
      BY <2>1, <3>1 DEF LoopAsks
    <3>. QED
      BY <3>2 DEF Stop
  <2>2. CASE LoopReceived
    <3>1. sinkReceive.ec # "ok" /\ Sink!Posted
      BY <1>1, <2>2 DEF LoopReceived, Sink!Take, Received, LoopOver
    <3>2. sinkReceive \in {Source!Fault, Source!Closed, Source!Cancelled}
      <4>1. sinkReceive \in Receives /\ sinkReceive \notin {Source!Idle, Source!Waiting}
        BY <1>1, <3>1, SameReplies DEF PipelineInv, PipelineTypeOK, Sink!Posted
      <4>. QED
        BY <3>1, <4>1, MessageFacts DEF Receives
    <3>3. Values(<<sinkReceive>>) = {}
      BY <3>2, One, ValFacts
    <3>4. sinkReceive = Source!Cancelled => stopped
      BY <1>1 DEF PipelineInv, SinkInv
    <3>5. sinkReceive # Source!Cancelled => sinkHeld = << >>
      BY <1>1, <3>2 DEF PipelineInv, SinkInv
    <3>. QED
      BY <3>3, <3>4, <3>5, NoneHeld
  <2>. QED
    BY <1>1, <2>1, <2>2 DEF LoopHandles
<1>. QED
  BY InvHolds, <1>1, PTL DEF LeavesNothing

-----------------------------------------------------------------------------
(***************************************************************************)
(* The safety part of PipelineEnds: once the source is closed somebody can *)
(* go on until copy and loop are over.                                     *)
(***************************************************************************)
\* The copy receives in one phase only, and waits for a channel that is open only.
CopyCalls ==
  /\ phase = "source" <=> srcReceive # Source!Idle
  /\ srcReceive = Source!Waiting => srcOpen

\* So does the loop, as long as there is an executor.
LoopCalls ==
  /\ alive => (at = "receiving" <=> sinkReceive # Source!Idle)
  /\ sinkReceive = Source!Waiting => sinkOpen

\* The message that ends the loop is the last in the sink until the loop has it.
EndKept ==
  ended =>
    \/ LoopOver
    \/ sinkReceive = Source!Fault
    \/ sinkHeld # << >> /\ sinkHeld[Len(sinkHeld)] = Source!Fault

LEMMA CopyCallsStep ==
  ASSUME PipelineTypeOK, SourceInv, CopyCalls, [PipelineNext]_all
  PROVE  CopyCalls'
<1>1. /\ srcHeld \in Seq(Messages)
      /\ phase \in {"initial", "source", "sink", "done"}
      /\ srcOpen \in BOOLEAN
  BY DEF PipelineTypeOK, TypeOK
<1>2. CASE UNCHANGED <<phase, srcReceive, srcOpen>>
  BY <1>2 DEF CopyCalls
<1>3. ASSUME Source!Receive, phase' = "source"
      PROVE  CopyCalls'
  <2>1. CASE srcHeld # << >>
    BY <1>1, <1>3, <2>1, Taken, Replies DEF CopyCalls, Source!Receive
  <2>2. CASE srcHeld = << >>
    BY <1>3, <2>2, Replies DEF CopyCalls, Source!Receive
  <2>. QED
    BY <2>1, <2>2
<1>4. ASSUME UNCHANGED phase, NEW m \in Messages, Source!Send(m)
      PROVE  CopyCalls'
  BY <1>4, Replies DEF CopyCalls, Source!Send
<1>5. CASE Produce
  <2>1. UNCHANGED phase /\ \E m \in Messages : Source!Send(m)
    <3>1. \A n \in 0 .. MaxValues : n < MaxValues => Value(n + 1) \in Messages
      BY CopyAssumption, MessageFacts
    <3>. QED
      BY <1>5, <3>1, MessageFacts DEF Produce, PipelineTypeOK, copyVars, vars
  <2>. QED
    BY <1>4, <2>1
<1>6. CASE CloseSource
  BY <1>6, Replies DEF CopyCalls, CloseSource, Source!Close, copyVars, vars
<1>7. CASE CancelSource
  BY <1>7, Replies DEF CopyCalls, CancelSource, Source!Cancel, copyVars, vars
<1>8. CASE Again
  BY <1>8 DEF CopyCalls, Again, srcVars
<1>9. CASE CopyStart
  BY <1>3, <1>9 DEF CopyStart, Start
<1>10. CASE CopyReceived
  <2>1. /\ srcReceive' = Source!Idle /\ UNCHANGED srcOpen
        /\ phase' \in {"sink", "done"}
    BY <1>10 DEF CopyReceived, Source!Take, SourceGave, SourceFailed, End
  <2>. QED
    BY <2>1, Replies DEF CopyCalls
<1>11. CASE CopySent
  <2>1. CASE Source!Receive /\ phase' = "source"
    BY <1>3, <2>1
  <2>2. CASE UNCHANGED srcVars /\ phase = "sink" /\ phase' = "done"
    BY <2>2 DEF CopyCalls, srcVars
  <2>. QED
    BY <1>11, <2>1, <2>2 DEF CopySent, SinkAccepted, SinkFailed, End
<1>12. CASE CancelCopy
  BY <1>12, Replies DEF CopyCalls, CancelCopy, Cancel, Source!CancelReceive, srcVars
<1>13. CASE UNCHANGED copyVars /\ UNCHANGED <<srcVars, produced>>
  BY <1>2, <1>13 DEF copyVars, vars, srcVars
<1>. QED
  <2>1. \/ UNCHANGED copyVars
        \/ Again \/ CopyStart \/ CopyReceived \/ CopySent \/ CancelCopy
    BY Frames
  <2>2. \/ UNCHANGED <<srcVars, produced>>
        \/ Produce \/ CloseSource \/ CancelSource \/ CopyStart \/ CopyReceived
        \/ CopySent \/ CancelCopy
    BY Frames
  <2>. QED
    BY <2>1, <2>2, <1>5, <1>6, <1>7, <1>8, <1>9, <1>10, <1>11, <1>12, <1>13

\* The actions of the program and of the copy that leave the loop alone.
LEMMA LoopCallsStep ==
  ASSUME PipelineTypeOK, SinkInv, LoopCalls, [PipelineNext]_all
  PROVE  LoopCalls'
<1>1. /\ sinkHeld \in Seq(Messages) /\ sinkOpen \in BOOLEAN /\ alive \in BOOLEAN
      /\ at \in {"start", "receiving", "body", "left", "threw", "dropped"}
  BY DEF PipelineTypeOK
<1>2. CASE UNCHANGED <<at, sinkReceive, sinkOpen, alive>>
  BY <1>2 DEF LoopCalls
<1>3. ASSUME NEW m \in Messages, Sink!Send(m), UNCHANGED <<at, alive>>
      PROVE  LoopCalls'
  BY <1>3, SinkSend, Replies DEF LoopCalls
<1>4. CASE UNCHANGED all
  BY <1>2, <1>4 DEF all, loopVars, sinkVars
<1>5. CASE Shutdown
  BY <1>5 DEF LoopCalls, Shutdown, sinkVars
<1>6. ASSUME alive, UNCHANGED alive
      PROVE  Produce \/ CloseSource \/ CancelSource \/ Again \/ CopyStart \/ CopySent => LoopCalls'
  BY <1>2, <1>6
     DEF Produce, CloseSource, CancelSource, Again, CopyStart, CopySent, loopVars, sinkVars
<1>7. ASSUME UNCHANGED alive, CloseSink
      PROVE  LoopCalls'
  BY <1>7, Replies, SameReplies DEF LoopCalls, CloseSink, Sink!Close, loopVars
<1>8. ASSUME alive, UNCHANGED alive, Abandon
      PROVE  LoopCalls'
  <2>1. LoopOver /\ UNCHANGED <<at, sinkReceive>> /\ sinkReceive = Source!Idle
    BY <1>8 DEF Abandon, LoopCalls, LoopOver, loopVars
  <2>. QED
    BY <1>8, <2>1, Replies DEF LoopCalls, LoopOver
<1>9. ASSUME UNCHANGED alive, EndStream
      PROVE  LoopCalls'
  BY <1>3, <1>9, SameReplies, MessageFacts DEF EndStream, loopVars
<1>10. ASSUME UNCHANGED alive, CopyReceived
       PROVE  LoopCalls'
  <2>1. CASE UNCHANGED sinkVars
    BY <1>2, <1>10, <2>1 DEF CopyReceived, loopVars, sinkVars
  <2>2. CASE Sink!Send(srcReceive) /\ srcReceive.ec = "ok"
    BY <1>3, <1>10, <2>2, MessageFacts DEF CopyReceived, loopVars, PipelineTypeOK
  <2>. QED
    BY <1>10, <2>1, <2>2 DEF CopyReceived
<1>11. ASSUME UNCHANGED alive, CancelCopy
       PROVE  LoopCalls'
  BY <1>2, <1>11 DEF CancelCopy, Sink!CancelSend, loopVars, sinkVars
<1>12. ASSUME alive, UNCHANGED alive, LoopAsks
       PROVE  LoopCalls'
  <2>1. CASE Stop(over = "channel" => sinkOpen) /\ UNCHANGED sinkVars
    BY <1>12, <2>1 DEF LoopCalls, Stop, Leave, sinkVars
  <2>2. CASE Sink!Receive /\ at' = "receiving"
    <3>1. sinkReceive' # Source!Idle /\ UNCHANGED sinkOpen
      BY <1>1, <2>2, SinkReceive, Taken, Replies
    <3>2. sinkReceive' = Source!Waiting => sinkOpen
      BY <1>1, <2>2, SinkReceive, Taken, Replies
    <3>. QED
      BY <2>2, <3>1, <3>2 DEF LoopCalls
  <2>. QED
    BY <1>12, <2>1, <2>2 DEF LoopAsks, Ask
<1>13. ASSUME alive, UNCHANGED alive, LoopReceived
       PROVE  LoopCalls'
  <2>1. /\ sinkReceive' = Source!Idle
        /\ at' # "receiving"
    BY <1>13, SameReplies
       DEF LoopReceived, Sink!Take, Received, Failed, Exhausted, Leave
  <2>. QED
    BY <2>1, Replies DEF LoopCalls
<1>14. ASSUME alive, UNCHANGED alive, LoopBroken
       PROVE  LoopCalls'
  BY <1>14 DEF LoopCalls, LoopBroken, Break, Leave, sinkVars
<1>15. ASSUME UNCHANGED alive, LoopCancelled
       PROVE  LoopCalls'
  BY <1>15, Replies, SameReplies DEF LoopCalls, LoopCancelled, CancelLoop, Sink!CancelReceive
<1>. QED
  BY <1>4, <1>5, <1>6, <1>7, <1>8, <1>9, <1>10, <1>11, <1>12, <1>13, <1>14, <1>15
     DEF PipelineNext, CopyHandles, LoopHandles

LEMMA EndKeptStep ==
  ASSUME PipelineTypeOK, SinkInv, EndKept, [PipelineNext]_all
  PROVE  EndKept'
<1>1. sinkHeld \in Seq(Messages) /\ Len(sinkHeld) \in Nat /\ ended \in BOOLEAN
  BY DEF PipelineTypeOK
<1>2. ASSUME UNCHANGED <<sinkHeld, ended>>, sinkReceive = Source!Fault => sinkReceive' = Source!Fault,
             LoopOver => LoopOver'
      PROVE  EndKept'
  BY <1>2 DEF EndKept
<1>3. ASSUME LoopOver'
      PROVE  EndKept'
  BY <1>3 DEF EndKept
<1>4. ASSUME ~ended'
      PROVE  EndKept'
  BY <1>4 DEF EndKept
<1>5. ended => phase = "done"
  BY DEF SinkInv
<1>6. CASE UNCHANGED all \/ Produce \/ CloseSource \/ CancelSource \/ Again \/ CopyStart \/ CopySent
  BY <1>2, <1>6
     DEF all, Produce, CloseSource, CancelSource, Again, CopyStart, CopySent, loopVars, sinkVars,
         progVars, LoopOver
<1>7. CASE CloseSink
  BY <1>2, <1>7, Replies, SameReplies DEF CloseSink, Sink!Close, loopVars, progVars, LoopOver
<1>8. CASE Abandon
  BY <1>3, <1>8 DEF Abandon, LoopOver, loopVars
<1>9. CASE EndStream
  <2>1. Sink!Send(Source!Fault) /\ Source!Fault \in Messages
    BY <1>9, SameReplies, MessageFacts DEF EndStream
  <2>2. CASE sinkReceive' = Source!Fault
    BY <2>2 DEF EndKept
  <2>3. CASE sinkHeld' = Append(sinkHeld, Source!Fault)
    <3>1. /\ Len(sinkHeld') = Len(sinkHeld) + 1 /\ sinkHeld'[Len(sinkHeld) + 1] = Source!Fault
          /\ sinkHeld' # << >>
      BY <1>1, <2>1, <2>3
    <3>. QED
      BY <3>1 DEF EndKept
  <2>. QED
    BY <2>1, <2>2, <2>3, SinkSend
<1>10. CASE CopyReceived \/ CancelCopy
  <2>1. phase \in {"source", "sink"} /\ UNCHANGED ended
    BY <1>10 DEF CopyReceived, SourceGave, SourceFailed, CancelCopy, Cancel, progVars
  <2>. QED
    BY <1>4, <1>5, <2>1
<1>11. CASE LoopAsks
  <2>1. CASE Stop(over = "channel" => sinkOpen)
    BY <1>3, <2>1 DEF Stop, Leave, LoopOver
  <2>2. CASE Sink!Receive /\ at \in {"start", "body"} /\ UNCHANGED ended
    <3>1. sinkReceive = Source!Idle
      BY <2>2, SinkReceive
    <3>2. SUFFICES ASSUME ended
                   PROVE  EndKept'
      BY <1>4, <2>2
    <3>3. sinkHeld # << >> /\ sinkHeld[Len(sinkHeld)] = Source!Fault
      BY <2>2, <3>1, <3>2, Replies DEF EndKept, LoopOver
    <3>4. sinkReceive' = Head(sinkHeld) /\ sinkHeld' = Tail(sinkHeld)
      BY <2>2, <3>3, SinkReceive
    <3>5. /\ Len(sinkHeld') = Len(sinkHeld) - 1 /\ Head(sinkHeld) = sinkHeld[1]
          /\ Len(sinkHeld) >= 1 /\ sinkHeld' \in Seq(Messages)
          /\ \A i \in 1 .. Len(sinkHeld) - 1 : sinkHeld'[i] = sinkHeld[i + 1]
      BY <1>1, <3>3, <3>4
    <3>6. CASE Len(sinkHeld) = 1
      BY <3>3, <3>4, <3>5, <3>6 DEF EndKept
    <3>7. CASE Len(sinkHeld) > 1
      <4>1. Len(sinkHeld) - 1 \in 1 .. Len(sinkHeld) - 1 /\ (Len(sinkHeld) - 1) + 1 = Len(sinkHeld)
        BY <1>1, <3>7
      <4>2. sinkHeld'[Len(sinkHeld')] = Source!Fault
        BY <3>3, <3>5, <4>1
      <4>3. sinkHeld' # << >>
        BY <1>1, <3>5, <3>7
      <4>. QED
        BY <4>2, <4>3 DEF EndKept
    <3>. QED
      BY <1>1, <3>5, <3>6, <3>7
  <2>. QED
    BY <1>11, <2>1, <2>2 DEF LoopAsks, Ask, progVars
<1>12. CASE LoopReceived
  <2>1. CASE sinkReceive.ec = "ok"
    <3>1. sinkReceive # Source!Fault
      BY <2>1, MessageFacts
    <3>2. UNCHANGED <<sinkHeld, ended>> /\ ~LoopOver
      BY <1>12, <2>1 DEF LoopReceived, Sink!Take, Received, LoopOver, progVars
    <3>. QED
      BY <3>1, <3>2 DEF EndKept
  <2>2. CASE sinkReceive.ec # "ok"
    BY <1>3, <1>12, <2>2 DEF LoopReceived, Failed, Exhausted, Leave, LoopOver
  <2>. QED
    BY <2>1, <2>2
<1>13. CASE LoopBroken
  BY <1>3, <1>13 DEF LoopBroken, Break, Leave, LoopOver
<1>14. CASE LoopCancelled
  BY <1>2, <1>14, Replies, SameReplies
     DEF LoopCancelled, CancelLoop, Sink!CancelReceive, progVars, LoopOver
<1>15. CASE Shutdown
  <2>1. at' = at \/ at' = "dropped"
    BY <1>15 DEF Shutdown, Drop, Leave, loopVars
  <2>2. LoopOver => LoopOver'
    BY <2>1 DEF LoopOver
  <2>. QED
    BY <1>2, <1>15, <2>2 DEF Shutdown, sinkVars, progVars
<1>. QED
  BY <1>6, <1>7, <1>8, <1>9, <1>10, <1>11, <1>12, <1>13, <1>14, <1>15
     DEF PipelineNext, CopyHandles, LoopHandles

\* Who can go on.
CopyReady ==
  \/ phase = "initial" /\ srcReceive = Source!Idle
  \/ phase = "source" /\ Source!Posted
  \/ phase = "sink" /\ srcReceive = Source!Idle /\ (sending = "failed" \/ ~Sink!SendWaits)

LoopReady ==
  \/ at \in {"start", "body"} /\ sinkReceive = Sink!Idle
  \/ at = "receiving" /\ Sink!Posted

ProgramReady ==
  \/ phase = "done" /\ ~ended /\ sinkOpen
  \/ LoopOver /\ Sink!SendWaits

\* Copy and loop never wait for each other: once the source is closed a handler of
\* one of them can run, or the program can end the stream or give up its channel,
\* until both are over.  (copy.hpp:39 waits for room in the sink, for.hpp:33, 37 for a
\* message from it.)
THEOREM SomeoneGoesOn ==
  PipelineSpec => [](alive /\ ~srcOpen =>
                       (phase = "done" /\ LoopOver) \/ CopyReady \/ LoopReady \/ ProgramReady)
<1> DEFINE GoesOn ==
      alive /\ ~srcOpen =>
        (phase = "done" /\ LoopOver) \/ CopyReady \/ LoopReady \/ ProgramReady
<1>1. PipelineInit => CopyCalls /\ LoopCalls /\ EndKept
  BY SameReplies, Replies
     DEF PipelineInit, Init, LoopInit, Source!ChannelInit, Sink!ChannelInit,
         CopyCalls, LoopCalls, EndKept
<1>2. PipelineInv /\ (CopyCalls /\ LoopCalls /\ EndKept) /\ [PipelineNext]_all
        => (CopyCalls /\ LoopCalls /\ EndKept)'
  BY CopyCallsStep, LoopCallsStep, EndKeptStep DEF PipelineInv
<1>3. PipelineInv /\ CopyCalls /\ LoopCalls /\ EndKept => GoesOn
  <2>. SUFFICES ASSUME PipelineInv, CopyCalls, LoopCalls, EndKept, alive, ~srcOpen,
                       ~CopyReady, ~LoopReady, ~ProgramReady
                PROVE  phase = "done" /\ LoopOver
    OBVIOUS
  <2>1. /\ phase \in {"initial", "source", "sink", "done"}
        /\ at \in {"start", "receiving", "body", "left", "threw", "dropped"}
        /\ sending \in {"idle", "sent", "failed"} /\ (sending # "idle" <=> phase = "sink")
        /\ SinkCapacity \in Nat
    BY PipelineAssumption DEF PipelineInv, PipelineTypeOK, TypeOK
  <2>2. phase = "done" \/ Sink!SendWaits
    BY <2>1 DEF CopyCalls, CopyReady, Source!Posted
  <2>3. ~LoopOver => sinkReceive = Source!Waiting
    BY <2>1, SameReplies DEF LoopCalls, LoopReady, LoopOver, Sink!Posted
  <2>4. sinkReceive = Source!Waiting => sinkOpen /\ sinkHeld = << >> /\ ~Sink!SendWaits
    BY <2>1 DEF PipelineInv, SinkInv, LoopCalls, Sink!SendWaits
  <2>5. sinkReceive = Source!Waiting => LoopOver \/ ~ended
    BY <2>4, Replies DEF EndKept
  <2>. QED
    BY <2>2, <2>3, <2>4, <2>5 DEF ProgramReady
<1>. QED
  BY <1>1, <1>2, <1>3, InvHolds, PTL DEF PipelineSpec

-----------------------------------------------------------------------------
(***************************************************************************)
(* The safety part of CancelledCopyEnds.                                   *)
(***************************************************************************)
\* A copy that was cancelled waits neither for a value nor for room.
CancelHeard ==
  cancelled =>
    /\ phase # "initial"
    /\ srcReceive # Source!Waiting
    /\ phase = "sink" => sending = "failed" \/ ~Sink!SendWaits

LEMMA CancelHeardStep ==
  ASSUME PipelineTypeOK, SinkInv, CopyCalls, CancelHeard, [PipelineNext]_all
  PROVE  CancelHeard'
<1>1. /\ phase \in {"initial", "source", "sink", "done"}
      /\ sending \in {"idle", "sent", "failed"} /\ (sending # "idle" <=> phase = "sink")
      /\ cancelled \in BOOLEAN /\ sinkHeld \in Seq(Messages) /\ Len(sinkHeld) \in Nat
      /\ SinkCapacity \in Nat
  BY PipelineAssumption DEF PipelineTypeOK, TypeOK
<1>2. ASSUME UNCHANGED <<cancelled, phase, sending>>,
             srcReceive' = Source!Waiting => srcReceive = Source!Waiting,
             Sink!SendWaits' => Sink!SendWaits
      PROVE  CancelHeard'
  BY <1>2 DEF CancelHeard
<1>3. ASSUME ~cancelled'
      PROVE  CancelHeard'
  BY <1>3 DEF CancelHeard
<1>4. ASSUME phase' = "done", srcReceive' = Source!Idle
      PROVE  CancelHeard'
  BY <1>4, Replies DEF CancelHeard
<1>5. CASE UNCHANGED all
  BY <1>2, <1>5 DEF all, copyVars, vars, srcVars, sinkVars, Sink!SendWaits
<1>6. CASE Produce \/ CloseSource \/ CancelSource
  <2>1. srcReceive' = Source!Waiting => srcReceive = Source!Waiting
    BY <1>6, Replies
       DEF Produce, CloseSource, CancelSource, Source!Send, Source!Close, Source!Cancel
  <2>. QED
    BY <1>2, <1>6, <2>1
       DEF Produce, CloseSource, CancelSource, copyVars, vars, sinkVars, Sink!SendWaits
<1>7. CASE CloseSink \/ LoopReceived \/ LoopCancelled \/ LoopBroken \/ Shutdown
  BY <1>2, <1>7
     DEF CloseSink, LoopReceived, LoopCancelled, LoopBroken, Shutdown, Sink!Close, Sink!Take,
         Sink!CancelReceive, Sink!SendWaits, copyVars, vars, srcVars, sinkVars
<1>8. CASE Abandon
  <2>1. UNCHANGED <<cancelled, phase, srcReceive>>
    BY <1>8 DEF Abandon, copyVars, vars, srcVars
  <2>2. Sink!SendWaits' => Sink!SendWaits
    BY <1>1, <1>8 DEF Abandon, Sink!SendWaits
  <2>3. sending' = sending \/ sending' = "failed"
    BY <1>8 DEF Abandon, SendCancelled
  <2>. QED
    BY <2>1, <2>2, <2>3 DEF CancelHeard
<1>9. CASE Again
  BY <1>3, <1>9 DEF Again
<1>10. CASE EndStream
  <2>1. phase = "done" /\ UNCHANGED <<copyVars, srcVars>>
    BY <1>10 DEF EndStream
  <2>. QED
    BY <2>1 DEF CancelHeard, copyVars, vars, srcVars
<1>11. CASE CopyStart
  <2>1. ~cancelled /\ cancelled' = cancelled
    BY <1>11 DEF CopyStart, Start, CancelHeard
  <2>. QED
    BY <1>3, <2>1
<1>12. CASE CopyReceived
  <2>1. srcReceive' = Source!Idle /\ cancelled' = cancelled
    BY <1>12 DEF CopyReceived, Source!Take, SourceGave, SourceFailed
  <2>2. cancelled => phase' = "done"
    BY <1>12 DEF CopyReceived, SourceGave, SourceFailed, End
  <2>. QED
    BY <1>3, <1>4, <2>1, <2>2
<1>13. CASE CopySent
  <2>1. phase = "sink" /\ cancelled' = cancelled
    BY <1>13 DEF CopySent, SinkAccepted, SinkFailed
  <2>2. cancelled => phase' = "done" /\ UNCHANGED srcVars
    BY <1>13 DEF CopySent, SinkAccepted, SinkFailed, End
  <2>. QED
    BY <1>3, <1>4, <2>1, <2>2 DEF CopyCalls, srcVars
<1>14. CASE CancelCopy
  <2>1. UNCHANGED phase /\ phase \in {"source", "sink"}
    BY <1>14 DEF CancelCopy, Cancel
  <2>2. CASE phase = "source"
    <3>1. srcReceive' # Source!Waiting
      BY <1>14, <2>2, Replies DEF CancelCopy, Source!CancelReceive
    <3>. QED
      BY <2>1, <2>2, <3>1 DEF CancelHeard
  <2>3. CASE phase = "sink"
    <3>1. srcReceive' = Source!Idle
      BY <1>14, <2>3 DEF CancelCopy, CopyCalls, srcVars
    <3>2. sending \in {"sent", "failed"}
      BY <1>1, <2>3
    <3>3. CASE sending = "sent" /\ Sink!SendWaits
      BY <1>14, <2>1, <2>3, <3>1, <3>3, Replies DEF CancelCopy, SendCancelled, CancelHeard
    <3>4. CASE sending = "sent" /\ ~Sink!SendWaits
      <4>1. sinkHeld' = sinkHeld
        BY <1>14, <2>3, <3>4 DEF CancelCopy, Sink!CancelSend, sinkVars
      <4>. QED
        BY <2>1, <3>1, <3>4, <4>1, Replies DEF CancelHeard, Sink!SendWaits
    <3>5. CASE sending = "failed"
      BY <1>14, <2>1, <2>3, <3>1, <3>5, Replies DEF CancelCopy, SendCancelled, CancelHeard
    <3>. QED
      BY <3>2, <3>3, <3>4, <3>5
  <2>. QED
    BY <2>1, <2>2, <2>3
<1>15. CASE LoopAsks
  <2>1. Sink!SendWaits' => Sink!SendWaits
    <3>1. CASE UNCHANGED sinkVars
      BY <3>1 DEF Sink!SendWaits, sinkVars
    <3>2. CASE Sink!Receive
      BY <1>1, <3>2 DEF Sink!Receive, Sink!SendWaits
    <3>. QED
      BY <1>15, <3>1, <3>2 DEF LoopAsks
  <2>. QED
    BY <1>2, <1>15, <2>1 DEF LoopAsks, copyVars, vars, srcVars
<1>. QED
  BY <1>5, <1>6, <1>7, <1>8, <1>9, <1>10, <1>11, <1>12, <1>13, <1>14, <1>15
     DEF PipelineNext, CopyHandles, LoopHandles

\* A copy that was cancelled goes on by itself until it is over: a handler of it can
\* run, whichever of its two operations was under way, and it never asks the source
\* for a value no signal would call it back from (copy.hpp:37, 48).
THEOREM CancelledCopyGoesOn ==
  PipelineSpec => [](cancelled /\ phase # "done" => CopyReady)
<1> DEFINE Cancelled == cancelled /\ phase # "done" => CopyReady
<1>1. PipelineInit => CopyCalls /\ CancelHeard
  BY Replies DEF PipelineInit, Init, Source!ChannelInit, CopyCalls, CancelHeard
<1>2. PipelineInv /\ (CopyCalls /\ CancelHeard) /\ [PipelineNext]_all => (CopyCalls /\ CancelHeard)'
  BY CopyCallsStep, CancelHeardStep DEF PipelineInv
<1>3. PipelineInv /\ CopyCalls /\ CancelHeard => Cancelled
  BY DEF PipelineInv, PipelineTypeOK, TypeOK, CopyCalls, CancelHeard, CopyReady, Source!Posted
<1>. QED
  BY <1>1, <1>2, <1>3, InvHolds, PTL DEF PipelineSpec
=============================================================================
