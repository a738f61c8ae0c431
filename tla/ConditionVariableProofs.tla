----------------------- MODULE ConditionVariableProofs -----------------------
(***************************************************************************)
(* Proofs about ConditionVariable, for any number of operations, items and *)
(* notifications.                                                          *)
(***************************************************************************)
EXTENDS ConditionVariable, SemaphoreCoreProofs, FiniteSetTheorems

-----------------------------------------------------------------------------
(***************************************************************************)
(* The handlers in a queue that were posted without an error.              *)
(***************************************************************************)
OkSet(q) == {i \in DOMAIN q : q[i].ec = "ok"}

Oks(q) == Cardinality(OkSet(q))

LEMMA OksType ==
  ASSUME NEW q \in Seq(Handlers)
  PROVE  IsFiniteSet(OkSet(q)) /\ Oks(q) \in Nat
<1>1. Len(q) \in Int /\ 1 \in Int /\ OkSet(q) \in SUBSET (1 .. Len(q))
  BY LenProperties DEF OkSet
<1>2. IsFiniteSet(1 .. Len(q))
  BY <1>1, FS_Interval
<1>3. IsFiniteSet(OkSet(q))
  BY <1>1, <1>2, FS_Subset
<1>. QED
  BY <1>3, FS_CardinalityType DEF Oks

\* A queue that grew at its end has no fewer, and one more when the next is one.
LEMMA OksGrow ==
  ASSUME NEW q \in Seq(Handlers), NEW r \in Seq(Handlers), Len(q) <= Len(r),
         \A k \in 1 .. Len(q) : r[k] = q[k]
  PROVE  /\ Oks(q) <= Oks(r)
         /\ Len(q) < Len(r) /\ r[Len(q) + 1].ec = "ok" => Oks(q) + 1 <= Oks(r)
<1>1. /\ Len(q) \in Nat /\ Len(r) \in Nat
      /\ DOMAIN q = 1 .. Len(q) /\ DOMAIN r = 1 .. Len(r)
  BY LenProperties
<1>2. /\ IsFiniteSet(OkSet(q)) /\ IsFiniteSet(OkSet(r))
      /\ Oks(q) \in Nat /\ Oks(r) \in Nat
  BY OksType
<1>3. OkSet(q) \in SUBSET OkSet(r)
  BY <1>1 DEF OkSet
<1>4. Oks(q) <= Oks(r)
  BY <1>2, <1>3, FS_Subset DEF Oks
<1>5. ASSUME Len(q) < Len(r), r[Len(q) + 1].ec = "ok"
      PROVE  Oks(q) + 1 <= Oks(r)
  <2>. DEFINE n == Len(q) + 1
  <2>1. n \in OkSet(r) /\ n \notin OkSet(q)
    BY <1>1, <1>5 DEF OkSet
  <2>. HIDE DEF n
  <2>2. OkSet(q) \cup {n} \in SUBSET OkSet(r)
    BY <1>3, <2>1
  <2>3. Cardinality(OkSet(q) \cup {n}) = Oks(q) + 1
    BY <1>2, <2>1, FS_AddElement DEF Oks
  <2>4. Cardinality(OkSet(q) \cup {n}) <= Cardinality(OkSet(r))
    BY <1>2, <2>2, FS_Subset
  <2>. QED
    BY <2>3, <2>4 DEF Oks
<1>. QED
  BY <1>4, <1>5

\* Without its first handler a queue has one less at most, and no less when the
\* first one was aborted.
LEMMA OksTail ==
  ASSUME CoreTypeOK, ready # << >>
  PROVE  /\ Oks(ready) <= Oks(Tail(ready)) + 1
         /\ Head(ready).ec # "ok" => Oks(ready) <= Oks(Tail(ready))
<1>. DEFINE t == Tail(ready)
            S == OkSet(t)
            T == OkSet(ready) \ {1}
            f == [i \in S |-> i + 1]
<1>1. /\ Head(ready) = ready[1] /\ 1 \in DOMAIN ready /\ t \in Seq(Handlers)
      /\ \A k \in DOMAIN t : k + 1 \in DOMAIN ready /\ k + 1 # 1 /\ t[k] = ready[k + 1]
      /\ \A k \in DOMAIN ready : k = 1 \/ (k - 1 \in DOMAIN t /\ t[k - 1] = ready[k])
  BY TailEffect
<1>2. DOMAIN t \subseteq Int /\ DOMAIN ready \subseteq Int /\ ready \in Seq(Handlers)
  BY <1>1, LenProperties DEF CoreTypeOK, Handlers
<1>. HIDE DEF t
<1>3. IsFiniteSet(S) /\ Oks(t) \in Nat /\ IsFiniteSet(OkSet(ready)) /\ Oks(ready) \in Nat
  BY <1>1, <1>2, OksType
<1>4. f \in Surjection(S, T)
  <2>1. \A i \in S : i + 1 \in T
    BY <1>1 DEF OkSet
  <2>2. \A j \in T : j - 1 \in S /\ (j - 1) + 1 = j
    BY <1>1, <1>2 DEF OkSet
  <2>. QED
    BY <2>1, <2>2 DEF Surjection
<1>5. Cardinality(T) <= Oks(t)
  <2>. HIDE DEF f, S, T
  <2>1. Cardinality(T) <= Cardinality(S)
    BY <1>3, <1>4, FS_Surjection
  <2>. QED
    BY <2>1 DEF Oks, S
<1>6. Cardinality(T) = IF 1 \in OkSet(ready) THEN Oks(ready) - 1 ELSE Oks(ready)
  BY <1>3, FS_RemoveElement DEF Oks
<1>7. 1 \in OkSet(ready) <=> Head(ready).ec = "ok"
  BY <1>1 DEF OkSet
<1>. QED
  BY <1>3, <1>5, <1>6, <1>7 DEF t

\* The semaphore's own invariant, while the count has not wrapped.
CountedCore == CoreInv /\ count >= 0

\* Types of the semaphore's state, before and after a step.
LEMMA CoreTypes ==
  /\ CoreTypeOK =>
       ready \in Seq(Handlers) /\ count \in (-MaxInt - 1) .. MaxInt /\ Oks(ready) \in Nat
  /\ CountedCore' =>
       ready' \in Seq(Handlers) /\ count' \in Nat /\ Oks(ready') \in Nat
<1>1. CoreTypeOK => ready \in Seq(Handlers) /\ count \in (-MaxInt - 1) .. MaxInt
  BY DEF CoreTypeOK, Handlers
<1>2. CountedCore' => ready' \in Seq(Handlers)
  BY DEF CountedCore, CoreInv, CoreTypeOK, Handlers
<1>3. CountedCore' => count' \in Nat
  BY CoreAssumption DEF CountedCore, CoreInv, CoreTypeOK
<1>. QED
  BY <1>1, <1>2, <1>3, OksType

\* What the semaphore does to the handlers: it appends.
LEMMA CompletesAt ==
  ASSUME CoreTypeOK, NEW i \in DOMAIN waiters, NEW ec \in Code, CompleteAt(i, ec)
  PROVE  /\ Oks(ready) <= Oks(ready')
         /\ ec = "ok" => Oks(ready) + 1 <= Oks(ready')
<1>1. /\ ready \in Seq(Handlers) /\ ready' \in Seq(Handlers)
      /\ Len(ready) \in Nat /\ Len(ready') = Len(ready) + 1
      /\ \A k \in 1 .. Len(ready) : ready'[k] = ready[k]
      /\ ready'[Len(ready) + 1] = Completion(waiters[i], ec)
  BY CoreTypes, CompleteAtEffect, LenProperties
<1>2. /\ Len(ready) <= Len(ready') /\ Len(ready) < Len(ready')
      /\ ready'[Len(ready) + 1].ec = ec
  BY <1>1 DEF Completion
<1>. QED
  BY <1>1, <1>2, OksGrow

LEMMA CompletesAll ==
  ASSUME CoreTypeOK, NEW ec \in Code, CompleteAll(ec)
  PROVE  Oks(ready) <= Oks(ready')
<1>1. /\ ready \in Seq(Handlers) /\ ready' \in Seq(Handlers)
      /\ Len(ready) \in Nat /\ Len(waiters) \in Nat /\ Len(ready') = Len(ready) + Len(waiters)
      /\ \A k \in 1 .. Len(ready) : ready'[k] = ready[k]
  BY CoreTypes, CompleteAllEffect, LenProperties
<1>2. Len(ready) <= Len(ready')
  BY <1>1
<1>. QED
  BY <1>1, <1>2, OksGrow

LEMMA OneMore ==
  ASSUME NEW q \in Seq(Handlers), NEW o \in Ops
  PROVE  /\ Append(q, Completion(o, "ok")) \in Seq(Handlers)
         /\ Oks(q) + 1 <= Oks(Append(q, Completion(o, "ok")))
<1>. DEFINE r == Append(q, Completion(o, "ok"))
<1>1. /\ r \in Seq(Handlers) /\ Len(q) \in Nat /\ Len(r) = Len(q) + 1
      /\ \A k \in 1 .. Len(q) : r[k] = q[k]
      /\ r[Len(q) + 1] = Completion(o, "ok")
  BY CompletionType, AppendProperties, LenProperties DEF Code
<1>2. r[Len(q) + 1].ec = "ok" /\ Len(q) <= Len(r) /\ Len(q) < Len(r)
  BY <1>1 DEF Completion
<1>. HIDE DEF r
<1>3. Oks(q) + 1 <= Oks(r)
  BY <1>1, <1>2, OksGrow
<1>. QED
  BY <1>1, <1>3 DEF r

\* An acquire turns a permit into a handler, or finds no permit.
LEMMA Acquires ==
  ASSUME CountedCore, NEW o \in Ops, NEW q \in Seq(Handlers), AsyncAcquire(o, q)
  PROVE  /\ count + Oks(q) <= count' + Oks(ready')
         /\ count' <= count
<1>1. count \in Nat /\ Oks(q) \in Nat /\ count \in (-MaxInt - 1) .. MaxInt
  BY CoreAssumption, OksType DEF CountedCore, CoreInv, CoreTypeOK
<1>2. CASE count # 0 /\ count' = Decremented(count) /\ ready' = Append(q, Completion(o, "ok"))
  <2>1. count' = count - 1
    BY <1>1, <1>2, CountArithmetic
  <2>2. Oks(q) + 1 <= Oks(ready') /\ Oks(ready') \in Nat
    BY <1>2, OneMore, OksType
  <2>. QED
    BY <1>1, <2>1, <2>2
<1>3. CASE ready' = q /\ UNCHANGED count
  BY <1>1, <1>3
<1>. QED
  BY <1>2, <1>3 DEF AsyncAcquire

-----------------------------------------------------------------------------
(***************************************************************************)
(* The inductive invariant: every item has a permit or a handler on its    *)
(* way, whether operations wait or not; and the bounds on the              *)
(* notifications keep the count from its overflow.                         *)
(***************************************************************************)
IInv ==
  /\ TypeOK
  /\ CountedCore
  /\ items <= put
  /\ count <= put + excess
  /\ items <= count + Oks(ready)

LEMMA Bounds ==
  ASSUME TypeOK
  PROVE  /\ items \in Nat /\ put \in Nat /\ excess \in Nat /\ put <= MaxItems /\ excess <= MaxNotify
         /\ MaxItems \in Nat /\ MaxNotify \in Nat /\ MaxItems + MaxNotify < MaxInt /\ MaxInt \in Nat
         /\ count \in (-MaxInt - 1) .. MaxInt /\ ready \in Seq(Handlers)
         /\ Oks(ready) \in Nat
BY ConditionAssumption, CoreAssumption, CoreTypes DEF TypeOK

LEMMA InvInit == Init => IInv
<1>. SUFFICES ASSUME Init
              PROVE  IInv
  OBVIOUS
<1>1. CountedCore /\ count = 0 /\ ready = << >>
  BY InitCore, ConditionAssumption DEF Init, CoreInit, CountedCore
<1>2. TypeOK
  <2>1. 0 \in 0 .. MaxItems /\ 0 \in 0 .. MaxNotify
    BY ConditionAssumption
  <2>. QED
    BY <1>1, <2>1 DEF Init, TypeOK, State, CountedCore, CoreInv
<1>3. items = 0 /\ put = 0 /\ excess = 0
  BY DEF Init
<1>. QED
  BY <1>1, <1>2, <1>3, Bounds DEF IInv

\* A notification: a permit more, or a handler more.
LEMMA Notified ==
  ASSUME IInv, count < MaxInt, Release
  PROVE  /\ CountedCore' /\ count' <= count + 1
         /\ count + Oks(ready) + 1 <= count' + Oks(ready')
<1>1. /\ CountedCore /\ count \in Nat /\ count \in (-MaxInt - 1) .. MaxInt /\ Oks(ready) \in Nat
      /\ CoreTypeOK
  BY Bounds DEF IInv, CountedCore, CoreInv
<1>2. CountedCore'
  BY <1>1, ReleaseKeepsCore DEF CountedCore
<1>3. CASE waiters = << >>
  BY <1>1, <1>2, <1>3, CountArithmetic DEF Release
<1>4. CASE waiters # << >>
  <2>1. 1 \in DOMAIN waiters
    BY <1>1, <1>4, EmptySeq, LenProperties DEF CoreTypeOK
  <2>2. count' = count /\ CompleteAt(1, "ok")
    BY <1>1, <1>4, CountArithmetic DEF Release
  <2>3. Oks(ready) + 1 <= Oks(ready') /\ Oks(ready') \in Nat
    BY <1>1, <1>2, <2>1, <2>2, CompletesAt, CoreTypes DEF Code
  <2>. QED
    BY <1>1, <1>2, <2>2, <2>3
<1>. QED
  BY <1>3, <1>4

\* release_all, the destructor and a cancellation
LEMMA Woken ==
  ASSUME IInv, UNCHANGED count,
         \/ \E ec \in Code : CompleteAll(ec)
         \/ \E i \in DOMAIN waiters : CancelAt(i)
  PROVE  CountedCore' /\ Oks(ready) <= Oks(ready') /\ Oks(ready') \in Nat
<1>1. CountedCore /\ CoreTypeOK
  BY DEF IInv, CountedCore, CoreInv
<1>2. CountedCore'
  BY <1>1, CancelKeepsCore, CompleteAllKeepsCore DEF CountedCore
<1>3. Oks(ready) <= Oks(ready')
  BY <1>1, CompletesAll, CompletesAt DEF CancelAt, Code
<1>. QED
  BY <1>2, <1>3, CoreTypes

LEMMA InvStep == IInv /\ [Next]_vars => IInv'
<1>. SUFFICES ASSUME IInv, [Next]_vars
              PROVE  IInv'
  OBVIOUS
<1>1. /\ TypeOK /\ CountedCore /\ CoreTypeOK /\ items <= put /\ count <= put + excess
      /\ items <= count + Oks(ready) /\ count \in Nat /\ count < MaxInt
      /\ alive \in BOOLEAN /\ closed \in BOOLEAN /\ pc \in [Ops -> State]
  BY Bounds DEF IInv, CountedCore, CoreInv, TypeOK
<1>2. /\ items \in Nat /\ put \in Nat /\ excess \in Nat /\ put <= MaxItems /\ excess <= MaxNotify
      /\ MaxItems \in Nat /\ MaxNotify \in Nat /\ MaxItems + MaxNotify < MaxInt /\ MaxInt \in Nat
      /\ ready \in Seq(Handlers) /\ Oks(ready) \in Nat
  BY <1>1, Bounds
<1>2a. /\ items \in Nat /\ put \in Nat /\ excess \in Nat /\ count \in Nat
       /\ Oks(ready) \in Nat
       /\ count <= put + excess /\ items <= count + Oks(ready)
  BY <1>1, <1>2
<1>3. ASSUME CountedCore', pc' \in [Ops -> State], alive' \in BOOLEAN, closed' \in BOOLEAN,
             items' \in Nat, put' \in Nat, excess' \in Nat, put' <= MaxItems, excess' <= MaxNotify,
             items' <= put', count' <= put' + excess', items' <= count' + Oks(ready')
      PROVE  IInv'
  BY <1>2, <1>3 DEF IInv, TypeOK, CountedCore, CoreInv
<1>4. \A o \in Ops, s \in State : Goto(o, s) => pc' \in [Ops -> State]
  BY <1>1 DEF Goto
<1>5. ASSUME NEW o \in Ops, Wait(o)
      PROVE  IInv'
  <2>1. AsyncAcquire(o, ready) /\ UNCHANGED <<alive, items, closed, put, excess>>
    BY <1>5 DEF Wait, shared
  <2>2. CountedCore' /\ count + Oks(ready) <= count' + Oks(ready') /\ count' <= count
    BY <1>1, <1>2, <2>1, Acquires, AcquireKeepsCore DEF CountedCore
  <2>3. pc' \in [Ops -> State]
    BY <1>4, <1>5 DEF Wait, State
  <2>4. count' \in Int /\ Oks(ready') \in Nat
    BY <2>2, CoreTypes
  <2>. QED
    BY <1>1, <1>2, <1>3, <2>1, <2>2, <2>3, <2>4
<1>6. ASSUME NEW o \in Ops, WaitUntil(o)
      PROVE  IInv'
  <2>1. UNCHANGED <<alive, items, closed, put, excess>> /\ pc' \in [Ops -> State]
    BY <1>4, <1>6 DEF WaitUntil, State, shared
  <2>2. CASE AsyncAcquire(o, ready)
    <3>1. CountedCore' /\ count + Oks(ready) <= count' + Oks(ready') /\ count' <= count
      BY <1>1, <1>2, <2>2, Acquires, AcquireKeepsCore DEF CountedCore
    <3>2. count' \in Int /\ Oks(ready') \in Nat
      BY <3>1, CoreTypes
    <3>. QED
      BY <1>1, <1>2, <1>3, <2>1, <3>1, <3>2
  <2>3. CASE ready' = Append(ready, Completion(o, "ok")) /\ UNCHANGED <<count, waiters>>
    <3>1. ready' \in Seq(Handlers) /\ Oks(ready) + 1 <= Oks(ready') /\ Oks(ready') \in Nat
      BY <1>2, <2>3, OneMore, OksType
    <3>2. CountedCore'
      BY <1>1, <2>3, <3>1 DEF CountedCore, CoreInv, CoreTypeOK, Handlers
    <3>. QED
      BY <1>1, <1>2, <1>3, <2>1, <2>3, <3>1, <3>2
  <2>. QED
    BY <1>6, <2>2, <2>3 DEF WaitUntil
<1>7. CASE Run
  <2>. DEFINE o == Head(ready).op
  <2>1. /\ ready # << >> /\ (RunPassed(o) \/ RunAborted(o) \/ RunTrue(o) \/ RunFalse(o))
        /\ UNCHANGED <<alive, closed, put, excess>>
    BY <1>7 DEF Run
  <2>2. Head(ready) \in Handlers /\ Tail(ready) \in Seq(Handlers) /\ o \in Ops
    <3>1. Head(ready) \in Handlers /\ Tail(ready) \in Seq(Handlers)
      BY <1>2, <2>1, HeadTailProperties
    <3>. QED
      BY <3>1 DEF Handlers
  <2>3. /\ Oks(ready) <= Oks(Tail(ready)) + 1
        /\ Head(ready).ec # "ok" => Oks(ready) <= Oks(Tail(ready))
        /\ Oks(Tail(ready)) \in Nat
    BY <1>1, <2>1, <2>2, OksTail, OksType
  <2>. HIDE DEF o
  <2>4. ASSUME ready' = Tail(ready), UNCHANGED <<count, waiters>>
        PROVE  CountedCore'
    BY <1>1, <2>1, <2>4, PopKeepsCore DEF CountedCore
  <2>5. CASE RunPassed(o) \/ RunTrue(o)
    <3>1. /\ ready' = Tail(ready) /\ UNCHANGED <<count, waiters>>
          /\ items' = IF items > 0 THEN items - 1 ELSE items
          /\ pc' \in [Ops -> State]
      BY <1>4, <2>2, <2>5 DEF RunPassed, RunTrue, Served, State
    <3>2. items' <= count' + Oks(ready')
      BY <1>1, <1>2, <2>3, <3>1
    <3>. QED
      BY <1>1, <1>2, <1>3, <2>1, <2>4, <3>1, <3>2
  <2>6. CASE RunAborted(o)
    <3>1. /\ ready' = Tail(ready) /\ UNCHANGED <<count, waiters, items>> /\ Head(ready).ec # "ok"
          /\ pc' \in [Ops -> State]
      BY <1>4, <2>2, <2>6 DEF RunAborted, State
    <3>. QED
      BY <1>1, <1>2, <1>3, <2>1, <2>3, <2>4, <3>1
  <2>7. CASE RunFalse(o)
    <3>1. AsyncAcquire(o, Tail(ready)) /\ UNCHANGED <<pc, items>> /\ items = 0
      BY <1>2, <2>7 DEF RunFalse, Predicate
    <3>2. CountedCore' /\ count' <= count
      BY <1>1, <2>2, <3>1, Acquires, AcquireKeepsCore DEF CountedCore
    <3>3. count' \in Nat /\ Oks(ready') \in Nat
      BY <3>2, CoreTypes
    <3>. QED
      BY <1>1, <1>2, <1>3, <2>1, <3>1, <3>2, <3>3
  <2>. QED
    BY <2>1, <2>5, <2>6, <2>7
<1>8. ASSUME NotifyOne, UNCHANGED <<alive, pc, closed>>,
             \/ put < MaxItems /\ put' = put + 1 /\ items' = items + 1 /\ UNCHANGED excess
             \/ excess < MaxNotify /\ excess' = excess + 1 /\ UNCHANGED <<put, items>>
      PROVE  IInv'
  <2>1. CountedCore' /\ count' <= count + 1 /\ count + Oks(ready) + 1 <= count' + Oks(ready')
    BY <1>1, <1>8, Notified DEF NotifyOne
  <2>2. count' \in Int /\ Oks(ready') \in Nat
    BY <2>1, CoreTypes
  <2>3. /\ alive' \in BOOLEAN /\ closed' \in BOOLEAN /\ pc' \in [Ops -> State]
        /\ items' <= count' + Oks(ready')
    BY <1>1, <1>2, <1>8, <2>1, <2>2
  <2>4. /\ items' \in Nat /\ put' \in Nat /\ excess' \in Nat /\ put' <= MaxItems
        /\ excess' <= MaxNotify /\ items' <= put' /\ put' + excess' = put + excess + 1
    BY <1>1, <1>2, <1>8
  <2>5. count' <= put' + excess'
    <3>1. count' \in Int /\ count' <= count + 1 /\ put' \in Nat /\ excess' \in Nat
      BY <2>1, <2>2, <2>4
    <3>2. put' + excess' = put + excess + 1
      BY <2>4
    <3>. QED
      <4>1. count <= put + excess /\ count \in Nat /\ put \in Nat /\ excess \in Nat
        BY <1>2a
      <4>2. count' <= put + excess + 1
        BY <3>1, <4>1
      <4>3. put + excess + 1 = put' + excess'
        BY <3>2
      <4>. QED
        BY <4>2, <4>3
  <2>. QED
    BY <1>3, <2>1, <2>3, <2>4, <2>5
<1>9. ASSUME UNCHANGED <<count, pc, items, put>>, alive' \in BOOLEAN, closed' \in BOOLEAN,
             excess' \in Nat, excess <= excess', excess' <= MaxNotify,
             \/ \E ec \in Code : CompleteAll(ec)
             \/ \E i \in DOMAIN waiters : CancelAt(i)
      PROVE  IInv'
  <2>1. CountedCore' /\ Oks(ready) <= Oks(ready') /\ Oks(ready') \in Nat
    BY <1>9, Woken
  <2>2. pc' \in [Ops -> State] /\ items' \in Nat /\ put' \in Nat /\ put' <= MaxItems /\ items' <= put'
    BY <1>1, <1>2, <1>9
  <2>3. /\ count' = count /\ items' = items /\ put' = put /\ excess' \in Nat /\ excess <= excess'
    BY <1>9
  <2>4. count' <= put' + excess'
    <3>1. count <= put + excess /\ put \in Nat /\ excess \in Nat /\ count \in Nat
      BY <1>2a
    <3>2. excess <= excess' /\ excess' \in Nat
      BY <2>3
    <3>3. \A c, p, e, f \in Nat : c <= p + e /\ e <= f => c <= p + f
      OBVIOUS
    <3>4. count <= put + excess'
      BY <3>1, <3>2, <3>3, Zenon
    <3>. QED
      BY <2>3, <3>4, Zenon
  <2>5. items' <= count' + Oks(ready')
    <3>1. items <= count + Oks(ready) /\ items \in Nat /\ count \in Nat /\ Oks(ready) \in Nat
      BY <1>2a
    <3>2. count + Oks(ready) <= count + Oks(ready')
      BY <2>1, <3>1
    <3>. QED
      BY <2>1, <2>3, <3>1, <3>2
  <2>. QED
    BY <1>3, <1>9, <2>1, <2>2, <2>4, <2>5
<1>10. CASE Put
  BY <1>8, <1>10 DEF Put
<1>11. CASE Close
  BY <1>2, <1>9, <1>11 DEF Close, NotifyAll, ReleaseAll, Code
<1>12. CASE Excess
  <2>1. /\ excess < MaxNotify /\ excess' = excess + 1 /\ UNCHANGED <<alive, pc, items, closed, put>>
        /\ (NotifyOne \/ NotifyAll)
    BY <1>12 DEF Excess
  <2>2. excess' \in Nat /\ excess <= excess' /\ excess' <= MaxNotify
    BY <1>2, <2>1
  <2>. QED
    BY <1>1, <1>8, <1>9, <2>1, <2>2 DEF NotifyAll, ReleaseAll, Code
<1>13. ASSUME NEW i \in DOMAIN waiters, Cancel(i)
       PROVE  IInv'
  BY <1>1, <1>2, <1>9, <1>13 DEF Cancel, CancelAt, shared
<1>14. CASE Destroy
  <2>1. /\ CompleteAll("aborted") /\ "aborted" \in Code /\ alive' = FALSE
        /\ UNCHANGED <<count, pc, items, closed, put, excess>>
    BY <1>14 DEF Destroy, Destruct, Code, shared
  <2>2. alive' \in BOOLEAN /\ closed' \in BOOLEAN
    BY <1>1, <2>1
  <2>3. excess <= excess' /\ excess' \in Nat /\ excess' <= MaxNotify
    BY <1>2, <2>1
  <2>. QED
    BY <1>9, <2>1, <2>2, <2>3
<1>15. CASE UNCHANGED vars
  BY <1>15 DEF vars, IInv, TypeOK, CountedCore, CoreInv, CoreTypeOK
<1>. QED
  BY <1>5, <1>6, <1>7, <1>10, <1>11, <1>12, <1>13, <1>14, <1>15 DEF Next

-----------------------------------------------------------------------------
\* Every variable keeps its type; count_ among them, short of the overflow as long
\* as there are fewer notifications than INT_MAX.
THEOREM TypeCorrect == Spec => []TypeOK
<1>1. IInv => TypeOK
  BY DEF IInv
<1>. QED
  BY InvInit, InvStep, <1>1, PTL DEF Spec

\* While operations wait every item has a handler on its way (notify_one of
\* basic_condition_variable.hpp): no notification is lost, with any number of
\* operations, with and without a predicate, cancelled, overtaken or served already.
THEOREM ItemsSpokenForHolds == Spec => []ItemsSpokenFor
<1>1. IInv => ItemsSpokenFor
  <2>. SUFFICES ASSUME IInv, waiters # << >>
                PROVE  items <= Oks(ready)
    BY DEF ItemsSpokenFor, Oks, OkSet
  <2>1. count = 0
    BY CoreAssumption DEF IInv, CountedCore, CoreInv, CoreTypeOK
  <2>. QED
    BY <2>1, Bounds DEF IInv
<1>. QED
  BY InvInit, InvStep, <1>1, PTL DEF Spec

-----------------------------------------------------------------------------
(***************************************************************************)
(* The safety part of CloseReleasesAll: every operation is in one place,   *)
(* and once the queue is closed that is never the list.                    *)
(***************************************************************************)
OneOperation ==
  /\ LinkedOnce
  /\ PostedOnce
  /\ \A o \in Ops :
       /\ Linked(o) => pc[o] = "suspended" /\ ~Posted(o)
       /\ Posted(o) => pc[o] \in {"suspended", "passed"}
       /\ pc[o] = "suspended" => Linked(o) \/ Posted(o)
       /\ pc[o] = "passed" => Posted(o)

ClosedWakes == closed => \A o \in Ops \ Plain : ~Linked(o)

PlaceInv == IInv /\ OneOperation /\ ClosedWakes

LEMMA QueueOnce ==
  ASSUME IInv, OneOperation
  PROVE  /\ CoreTypeOK /\ LinkedOnce /\ PostedOnce
         /\ \A o \in Ops : Linked(o) => ~Posted(o)
         /\ ready \in Seq(Handlers) /\ Once(ready)
         /\ \A o \in Ops : InQueue(ready, o) <=> Posted(o)
BY DEF IInv, TypeOK, CoreTypeOK, Handlers, OneOperation, Once, InQueue, PostedOnce, Posted

LEMMA WaitPlaces ==
  ASSUME PlaceInv, NEW o \in Ops, Wait(o) \/ WaitUntil(o)
  PROVE  OneOperation' /\ ClosedWakes'
<1>1. /\ pc \in [Ops -> State] /\ pc[o] = "idle" /\ closed' = closed
      /\ OneOperation /\ ClosedWakes /\ IInv
  BY DEF PlaceInv, IInv, TypeOK, Wait, WaitUntil, shared
<1>2. ~Linked(o) /\ ~Posted(o)
  BY <1>1 DEF OneOperation
<1>3. CASE AsyncAcquire(o, ready) /\ Goto(o, "suspended") /\ (closed => o \in Plain)
  <2>1. \A p \in Ops : pc'[p] = IF p = o THEN "suspended" ELSE pc[p]
    BY <1>1, <1>3 DEF Goto
  <2>2. /\ LinkedOnce' /\ PostedOnce'
        /\ \/ \A p \in Ops : /\ Linked(p)' <=> Linked(p)
                             /\ Posted(p)' <=> Posted(p) \/ p = o
           \/ \A p \in Ops : /\ Linked(p)' <=> Linked(p) \/ p = o
                             /\ Posted(p)' <=> Posted(p)
    BY <1>1, <1>2, <1>3, QueueOnce, AcquireMoves
  <2>3. OneOperation'
    BY <1>1, <1>2, <2>1, <2>2 DEF OneOperation
  <2>4. ClosedWakes'
    BY <1>1, <1>3, <2>2 DEF ClosedWakes
  <2>. QED
    BY <2>3, <2>4
<1>4. CASE /\ ready' = Append(ready, Completion(o, "ok")) /\ waiters' = waiters
           /\ Goto(o, "passed")
  <2>1. \A p \in Ops : pc'[p] = IF p = o THEN "passed" ELSE pc[p]
    BY <1>1, <1>4 DEF Goto
  <2>2. PostedOnce' /\ \A p \in Ops : Posted(p)' <=> Posted(p) \/ p = o
    <3>. DEFINE m == Len(ready)
                h == Completion(o, "ok")
    <3>1. /\ m \in Nat /\ DOMAIN ready = 1 .. m /\ ready \in Seq(Handlers) /\ PostedOnce
          /\ h \in Handlers /\ h.op = o
      BY <1>1, QueueOnce, LenProperties, CompletionType DEF Code, Completion
    <3>. HIDE DEF h
    <3>2. /\ DOMAIN ready' = 1 .. m + 1
          /\ \A k \in 1 .. m : ready'[k] = ready[k]
          /\ ready'[m + 1] = h
      BY <1>4, <3>1, AppendProperties, LenProperties DEF h
    <3>3. \A k \in 1 .. m + 1 : k \in 1 .. m \/ k = m + 1
      BY <3>1
    <3>4. m + 1 \in 1 .. m + 1 /\ \A k \in 1 .. m : k \in 1 .. m + 1
      BY <3>1
    <3>5. \A k \in 1 .. m : ready'[k] = ready[k] /\ ready[k].op # o
      BY <1>2, <3>1, <3>2 DEF Posted
    <3>. HIDE DEF m
    <3>6. PostedOnce'
      BY <3>1, <3>2, <3>3, <3>5 DEF PostedOnce
    <3>7. \A p \in Ops : Posted(p)' <=> Posted(p) \/ p = o
      BY <3>1, <3>2, <3>3, <3>4, <3>5 DEF Posted
    <3>. QED
      BY <3>6, <3>7
  <2>3. LinkedOnce' /\ \A p \in Ops : Linked(p)' <=> Linked(p)
    BY <1>1, <1>4 DEF OneOperation, LinkedOnce, Linked
  <2>. QED
    BY <1>1, <1>2, <2>1, <2>2, <2>3 DEF OneOperation, ClosedWakes
<1>. QED
  BY <1>3, <1>4 DEF Wait, WaitUntil, Predicate

LEMMA RunPlaces ==
  ASSUME PlaceInv, Run
  PROVE  OneOperation' /\ ClosedWakes'
<1>. DEFINE o == Head(ready).op
<1>1. /\ pc \in [Ops -> State] /\ closed' = closed /\ ready # << >>
      /\ OneOperation /\ ClosedWakes /\ IInv
      /\ RunPassed(o) \/ RunAborted(o) \/ RunTrue(o) \/ RunFalse(o)
  BY DEF PlaceInv, IInv, TypeOK, Run
<1>2. /\ Head(ready) \in Handlers /\ Posted(o) /\ Once(Tail(ready))
      /\ \A p \in Ops : InQueue(Tail(ready), p) <=> Posted(p) /\ p # o
  BY <1>1, QueueOnce, TailMoves
<1>3. o \in Ops
  BY <1>2 DEF Handlers
<1>4. ~Linked(o)
  BY <1>1, <1>2, <1>3 DEF OneOperation
<1>5. ASSUME ready' = Tail(ready), waiters' = waiters, Goto(o, "idle")
      PROVE  OneOperation' /\ ClosedWakes'
  <2>1. \A p \in Ops : pc'[p] = IF p = o THEN "idle" ELSE pc[p]
    BY <1>1, <1>5 DEF Goto
  <2>2. PostedOnce' /\ \A p \in Ops : Posted(p)' <=> Posted(p) /\ p # o
    BY <1>1, <1>5, QueueOnce, DeliverMoves
  <2>3. LinkedOnce' /\ \A p \in Ops : Linked(p)' <=> Linked(p)
    BY <1>1, <1>5 DEF OneOperation, LinkedOnce, Linked
  <2>. HIDE DEF o
  <2>. QED
    BY <1>1, <1>3, <1>4, <2>1, <2>2, <2>3 DEF OneOperation, ClosedWakes
<1>6. ASSUME RunFalse(o)
      PROVE  OneOperation' /\ ClosedWakes'
  <2>1. /\ AsyncAcquire(o, Tail(ready)) /\ pc' = pc /\ pc[o] = "suspended" /\ ~closed
    BY <1>6 DEF RunFalse, Predicate
  <2>2. Tail(ready) \in Seq(Handlers)
    BY <1>1, QueueOnce, TailEffect
  <2>. HIDE DEF o
  <2>3. /\ LinkedOnce' /\ PostedOnce'
        /\ \/ \A p \in Ops : /\ Linked(p)' <=> Linked(p)
                             /\ Posted(p)' <=> (Posted(p) /\ p # o) \/ p = o
           \/ \A p \in Ops : /\ Linked(p)' <=> Linked(p) \/ p = o
                             /\ Posted(p)' <=> Posted(p) /\ p # o
    BY <1>1, <1>2, <1>3, <1>4, <2>1, <2>2, QueueOnce, AcquireMoves
  <2>4. OneOperation'
    BY <1>1, <1>3, <1>4, <2>1, <2>3 DEF OneOperation
  <2>. QED
    BY <1>1, <2>1, <2>4 DEF ClosedWakes
<1>. QED
  BY <1>1, <1>5, <1>6 DEF RunPassed, RunAborted, RunTrue, Served

LEMMA PlaceStep == PlaceInv /\ [Next]_vars => PlaceInv'
<1>. SUFFICES ASSUME PlaceInv, [Next]_vars
              PROVE  OneOperation' /\ ClosedWakes'
  BY InvStep DEF PlaceInv
<1>1. IInv /\ OneOperation /\ ClosedWakes
  BY DEF PlaceInv
<1>2. ASSUME UNCHANGED <<waiters, ready, pc, closed>>
      PROVE  OneOperation' /\ ClosedWakes'
  BY <1>1, <1>2 DEF OneOperation, ClosedWakes, LinkedOnce, PostedOnce, Linked, Posted
<1>3. ASSUME NEW i \in DOMAIN waiters, NEW ec \in Code, CompleteAt(i, ec), UNCHANGED <<pc, closed>>
      PROVE  OneOperation' /\ ClosedWakes'
  <2>1. Linked(waiters[i])
    BY <1>1, Places, QueueOnce
  <2>2. /\ LinkedOnce' /\ PostedOnce'
        /\ \A o \in Ops : /\ Linked(o)' <=> Linked(o) /\ o # waiters[i]
                          /\ Posted(o)' <=> Posted(o) \/ o = waiters[i]
    BY <1>1, <1>3, QueueOnce, CompleteAtMoves
  <2>. QED
    BY <1>1, <1>3, <2>1, <2>2 DEF OneOperation, ClosedWakes
<1>4. ASSUME NEW ec \in Code, CompleteAll(ec), pc' = pc
      PROVE  OneOperation' /\ ClosedWakes'
  <2>1. /\ LinkedOnce' /\ PostedOnce'
        /\ \A o \in Ops : /\ ~Linked(o)'
                          /\ Posted(o)' <=> Posted(o) \/ Linked(o)
    BY <1>1, <1>4, QueueOnce, CompleteAllMoves
  <2>. QED
    BY <1>1, <1>4, <2>1 DEF OneOperation, ClosedWakes
<1>5. ASSUME Release, UNCHANGED <<pc, closed>>
      PROVE  OneOperation' /\ ClosedWakes'
  <2>1. CASE waiters = << >> /\ UNCHANGED <<waiters, ready>>
    BY <1>2, <1>5, <2>1
  <2>2. CASE waiters # << >> /\ CompleteAt(1, "ok")
    <3>1. 1 \in DOMAIN waiters /\ "ok" \in Code
      BY <1>1, <2>2, QueueOnce, Places, EmptySeq DEF Code, CoreTypeOK
    <3>. QED
      BY <1>3, <1>5, <2>2, <3>1
  <2>. QED
    BY <1>5, <2>1, <2>2 DEF Release
<1>6. CASE Put
  BY <1>5, <1>6 DEF Put, NotifyOne
<1>7. CASE Close
  BY <1>4, <1>7 DEF Close, NotifyAll, ReleaseAll, Code
<1>8. CASE Excess
  BY <1>4, <1>5, <1>8 DEF Excess, NotifyOne, NotifyAll, ReleaseAll, Code
<1>9. ASSUME NEW i \in DOMAIN waiters, Cancel(i)
      PROVE  OneOperation' /\ ClosedWakes'
  BY <1>3, <1>9 DEF Cancel, CancelAt, shared, Code
<1>10. CASE Destroy
  BY <1>4, <1>10 DEF Destroy, Destruct, shared, Code
<1>11. CASE UNCHANGED vars
  BY <1>2, <1>11 DEF vars
<1>. QED
  BY <1>6, <1>7, <1>8, <1>9, <1>10, <1>11, WaitPlaces, RunPlaces DEF Next

LEMMA PlaceInit == Init => PlaceInv
<1>. SUFFICES ASSUME Init
              PROVE  OneOperation /\ ClosedWakes
  BY InvInit DEF PlaceInv
<1>. QED
  BY DEF Init, CoreInit, OneOperation, ClosedWakes, LinkedOnce, PostedOnce, Linked, Posted

\* An operation is in one place: it is linked, or its handler is queued, or it is
\* over.  A handler that waits again is never completed a second time for the
\* notification that it used up (condition_variable.hpp:63-67).
THEOREM OneOperationHolds == Spec => []OneOperation
<1>1. PlaceInv => OneOperation
  BY DEF PlaceInv
<1>. QED
  BY PlaceInit, PlaceStep, <1>1, PTL DEF Spec

\* No operation with a predicate is left behind by notify_all (line 83): once the queue is
\* closed, one that is not over has a handler queued, and when no handler is queued
\* all are over.
THEOREM ClosedLeavesNone ==
  Spec => [](closed => \A o \in Ops \ Plain : pc[o] # "idle" => Posted(o))
<1>1. PlaceInv => (closed => \A o \in Ops \ Plain : pc[o] # "idle" => Posted(o))
  BY DEF PlaceInv, IInv, TypeOK, State, OneOperation, ClosedWakes
<1>. QED
  BY PlaceInit, PlaceStep, <1>1, PTL DEF Spec

-----------------------------------------------------------------------------
(***************************************************************************)
(* CloseReleasesAll itself, from what it needs of the executor: a handler  *)
(* is not queued for ever without being run.                               *)
(***************************************************************************)
RunOf(o) == Run /\ Head(ready).op = o

Handled(o) == []<>~Posted(o) \/ []<><<RunOf(o)>>_vars

\* Closing releases every wait with a predicate (notify_all, line 83), one that was woken
\* before included, if the executor runs the handlers that are queued.
THEOREM CloseReleasesAllHolds ==
  Spec /\ (\A o \in Ops \ Plain : Handled(o)) => CloseReleasesAll
<1>1. ASSUME NEW o \in Ops \ Plain
      PROVE  Spec /\ Handled(o) => ((closed /\ pc[o] # "idle") ~> (pc[o] = "idle"))
  <2>1. PlaceInv /\ [Next]_vars => PlaceInv'
    BY PlaceStep
  <2>2. PlaceInv /\ closed /\ pc[o] # "idle" => Posted(o)
    BY DEF PlaceInv, IInv, TypeOK, State, OneOperation, ClosedWakes
  <2>3. closed /\ [Next]_vars => closed'
    BY DEF Next, vars, shared, Wait, WaitUntil, Run, Put, Close, Excess, Cancel, Destroy
  <2>4. PlaceInv /\ closed /\ <<RunOf(o)>>_vars => (pc[o] = "idle")'
    <3> SUFFICES ASSUME PlaceInv, closed, RunOf(o)
                 PROVE  pc'[o] = "idle"
      OBVIOUS
    <3>1. Predicate /\ pc \in [Ops -> State]
      BY DEF Predicate, PlaceInv, IInv, TypeOK
    <3>2. RunPassed(o) \/ RunAborted(o) \/ RunTrue(o)
      BY <3>1 DEF RunOf, Run, RunFalse
    <3>3. Goto(o, "idle")
      BY <3>2 DEF RunPassed, RunAborted, RunTrue, Served
    <3>4. QED
      BY <3>1, <3>3 DEF Goto
  <2>5. pc[o] # "idle" \/ pc[o] = "idle"
    OBVIOUS
  <2>6. QED
    BY <2>1, <2>2, <2>3, <2>4, <2>5, PlaceInit, PTL DEF Spec, Handled
<1>2. QED
  BY <1>1 DEF CloseReleasesAll
=============================================================================
