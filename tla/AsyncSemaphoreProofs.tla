------------------------ MODULE AsyncSemaphoreProofs ------------------------
(***************************************************************************)
(* Proofs about AsyncSemaphore, for every set of operations, initial count *)
(* and INT_MAX.                                                            *)
(***************************************************************************)
EXTENDS AsyncSemaphore, SemaphoreCoreProofs

-----------------------------------------------------------------------------
(***************************************************************************)
(* The inductive invariant: types, one place for every operation and the   *)
(* slots.  No operation waits while a permit is free, and how the count    *)
(* becomes negative.                                                       *)
(***************************************************************************)
TypeInv == TypeOK /\ CoreInv

\* A slot holds the handler of an operation exactly while it is linked.
SlotsExact == \A o \in Ops : o \in armed <=> Linked(o)

Inv == TypeInv /\ OnePlace /\ SlotsExact

LEMMA InitInv == Init => Inv
<1>1. Init => TypeInv
  BY InitCore DEF Init, TypeInv, TypeOK, CoreInv, Code, None
<1>2. Init => OnePlace
  BY DEF Init, CoreInit, OnePlace, LinkedOnce, PostedOnce, Linked, Posted, Invoked, None
<1>3. Init => SlotsExact
  BY DEF Init, CoreInit, SlotsExact, Linked
<1>4. QED
  BY <1>1, <1>2, <1>3 DEF Inv

\* A cancellation finds the operation linked, at one position, and completes it there.
LEMMA CancelIs ==
  ASSUME Inv, NEW o \in Ops, Cancel(o)
  PROVE  /\ \E i \in DOMAIN waiters : waiters[i] = o /\ CancelAt(i)
         /\ armed' = armed \ {o}
         /\ UNCHANGED <<alive, outcome, ticket, issued>>
<1>1. /\ waiters \in Seq(Ops) /\ Len(waiters) \in Nat /\ DOMAIN waiters = 1 .. Len(waiters)
      /\ Linked(o) /\ LinkedOnce
  BY Places DEF Inv, TypeInv, TypeOK, CoreTypeOK, OnePlace, SlotsExact, Cancel
<1>2. PICK i \in 1 .. Len(waiters) : waiters[i] = o
  BY <1>1 DEF Linked
<1> DEFINE I == {j \in 1 .. Len(waiters) : waiters[j] = o}
<1>3. I = {i}
  BY <1>1, <1>2 DEF LinkedOnce
<1>4. RemoveFirst(waiters, o) = RemoveAt(waiters, IF I # {} THEN Min(I) ELSE 0)
  BY <1>2 DEF RemoveFirst, SelectInSeq
<1>5. Min({i}) = i
  BY <1>1 DEF Min
<1> HIDE DEF I
<1>6. RemoveFirst(waiters, o) = RemoveAt(waiters, i)
  BY <1>3, <1>4, <1>5
<1>7. CancelAt(i)
  BY <1>2, <1>6 DEF Cancel, CancelAt, CompleteAt
<1>8. QED
  BY <1>1, <1>2, <1>7 DEF Cancel, ClearSlots, history

\* One step per action; the semaphore's own state is left to the Core lemmas.
LEMMA NextType == Inv /\ [Next]_vars => TypeInv'
<1> SUFFICES ASSUME Inv, [Next]_vars
             PROVE  TypeInv'
  OBVIOUS
<1>1. TypeInv /\ ready \in Seq(Handlers)
  BY DEF Inv, TypeInv, TypeOK, CoreTypeOK, Handlers
<1>2. ASSUME NEW o \in Ops, Acquire(o)
      PROVE  TypeInv'
  <2>1. CoreInv'
    BY <1>1, <1>2, AcquireKeepsCore DEF Acquire, TypeInv
  <2>2. QED
    BY <1>1, <1>2, <2>1 DEF Acquire, TypeInv, TypeOK, CoreInv
<1>3. CASE Take
  BY <1>1, <1>3, TakeKeepsCore DEF Take, TypeInv, TypeOK, CoreInv, history
<1>4. CASE ReleaseOne
  BY <1>1, <1>4, ReleaseKeepsCore DEF ReleaseOne, ClearSlots, TypeInv, TypeOK, CoreInv, history
<1>5. CASE Flush
  <2>1. CoreInv'
    BY <1>1, <1>5, CompleteAllKeepsCore DEF Flush, ReleaseAll, TypeInv, Code
  <2>2. QED
    BY <1>1, <1>5, <2>1 DEF Flush, ClearSlots, TypeInv, TypeOK, CoreInv, history
<1>6. ASSUME NEW o \in Ops, Cancel(o)
      PROVE  TypeInv'
  <2>1. CoreInv'
    BY <1>1, <1>6, CancelIs, CancelKeepsCore DEF TypeInv
  <2>2. QED
    BY <1>1, <1>6, <2>1, CancelIs DEF TypeInv, TypeOK, CoreInv
<1>7. CASE Destroy
  <2>1. CoreInv'
    BY <1>1, <1>7, CompleteAllKeepsCore DEF Destroy, Destruct, TypeInv, Code
  <2>2. QED
    BY <1>1, <1>7, <2>1 DEF Destroy, ClearSlots, TypeInv, TypeOK, CoreInv, history
<1>8. CASE Deliver
  <2>1. CoreInv'
    BY <1>1, <1>8, PopKeepsCore DEF Deliver, TypeInv
  <2>2. Head(ready) \in Handlers
    BY <1>1, <1>8, HeadTailProperties DEF Deliver
  <2>3. outcome' \in [Ops -> Code \cup {None}]
    BY <1>1, <1>8, <2>2 DEF Deliver, TypeInv, TypeOK, Handlers
  <2>4. QED
    BY <1>1, <1>8, <2>1, <2>3 DEF Deliver, TypeInv, TypeOK, CoreInv, history
<1>9. CASE UNCHANGED vars
  BY <1>1, <1>9 DEF vars, TypeInv, TypeOK, CoreInv, CoreTypeOK
<1>10. QED
  BY <1>2, <1>3, <1>4, <1>5, <1>6, <1>7, <1>8, <1>9 DEF Next

\* An initiated operation stays in exactly one place, and its slot with it.
LEMMA NextPlaces == Inv /\ TypeInv' /\ [Next]_vars => OnePlace' /\ SlotsExact'
<1> SUFFICES ASSUME Inv, TypeInv', [Next]_vars
             PROVE  OnePlace' /\ SlotsExact'
  OBVIOUS
<1>1. /\ TypeInv /\ OnePlace /\ SlotsExact /\ LinkedOnce /\ PostedOnce
      /\ \A o \in Ops : Linked(o) => ~Posted(o)
  BY DEF Inv, OnePlace
<1>2. ASSUME NEW o \in Ops, Acquire(o)
      PROVE  OnePlace' /\ SlotsExact'
  <2>1. ~Linked(o) /\ ~Posted(o) /\ ~Invoked(o)
    BY <1>1, <1>2 DEF OnePlace, Acquire
  <2>2. \A p \in Ops : Invoked(p)' <=> Invoked(p)
    BY <1>2 DEF Acquire, Invoked
  <2>3. \A p \in Ops : ticket'[p] # 0 <=> ticket[p] # 0 \/ p = o
    BY <1>1, <1>2 DEF Acquire, TypeInv, TypeOK
  <2>4. AsyncAcquire(o, ready) /\ armed' = IF count = 0 THEN armed \cup {o} ELSE armed
    BY <1>2 DEF Acquire
  <2>5. /\ ready \in Seq(Handlers)
        /\ Once(ready) /\ \A p \in Ops : InQueue(ready, p) <=> Posted(p)
    BY <1>1 DEF TypeInv, TypeOK, CoreTypeOK, Handlers, Once, InQueue, PostedOnce, Posted
  <2>6. /\ LinkedOnce' /\ PostedOnce'
        /\ \/ /\ count # 0
              /\ \A p \in Ops : /\ Linked(p)' <=> Linked(p)
                                /\ Posted(p)' <=> Posted(p) \/ p = o
           \/ /\ count = 0
              /\ \A p \in Ops : /\ Linked(p)' <=> Linked(p) \/ p = o
                                /\ Posted(p)' <=> Posted(p)
    BY <1>1, <2>1, <2>4, <2>5, AcquireMoves DEF TypeInv, TypeOK
  <2>7. OnePlace'
    BY <1>1, <2>1, <2>2, <2>3, <2>6 DEF OnePlace
  <2>8. SlotsExact'
    BY <1>1, <2>4, <2>6 DEF SlotsExact
  <2>9. QED
    BY <2>7, <2>8
<1>3. ASSUME NEW i \in DOMAIN waiters, NEW ec \in Code, CompleteAt(i, ec),
             armed' = armed \ {waiters[i]}, UNCHANGED <<outcome, ticket>>
      PROVE  OnePlace' /\ SlotsExact'
  <2>1. Linked(waiters[i]) /\ CoreTypeOK
    BY <1>1, Places DEF TypeInv, TypeOK
  <2>2. /\ LinkedOnce' /\ PostedOnce'
        /\ \A o \in Ops : /\ Linked(o)' <=> Linked(o) /\ o # waiters[i]
                          /\ Posted(o)' <=> Posted(o) \/ o = waiters[i]
    BY <1>1, <1>3, <2>1, CompleteAtMoves
  <2>3. QED
    BY <1>1, <1>3, <2>1, <2>2 DEF OnePlace, SlotsExact, Invoked
<1>4. ASSUME NEW ec \in Code, CompleteAll(ec), armed' = armed \ LinkedOps,
             UNCHANGED <<outcome, ticket>>
      PROVE  OnePlace' /\ SlotsExact'
  <2>1. /\ LinkedOnce' /\ PostedOnce'
        /\ \A o \in Ops : /\ ~Linked(o)'
                          /\ Posted(o)' <=> Posted(o) \/ Linked(o)
    BY <1>1, <1>4, CompleteAllMoves DEF TypeInv, TypeOK
  <2>2. OnePlace'
    BY <1>1, <1>4, <2>1 DEF OnePlace, Invoked
  <2>3. \A o \in Ops : o \notin armed'
    BY <1>1, <1>4 DEF SlotsExact, LinkedOps, Linked
  <2>4. QED
    BY <2>1, <2>2, <2>3 DEF SlotsExact
<1>5. ASSUME UNCHANGED <<waiters, ready, armed, outcome, ticket>>
      PROVE  OnePlace' /\ SlotsExact'
  BY <1>1, <1>5 DEF OnePlace, SlotsExact, LinkedOnce, PostedOnce, Linked, Posted, Invoked
<1>6. CASE Take
  BY <1>5, <1>6 DEF Take, TryAcquire, history
<1>7. CASE ReleaseOne
  <2>1. CASE waiters = << >>
    <3>1. armed' = armed
      BY <1>7, <2>1 DEF ReleaseOne, ClearSlots
    <3>2. QED
      BY <1>5, <1>7, <2>1, <3>1 DEF ReleaseOne, Release, history
  <2>2. CASE waiters # << >>
    <3>1. 1 \in DOMAIN waiters /\ "ok" \in Code /\ Head(waiters) = waiters[1]
      BY <1>1, <2>2, EmptySeq, Places DEF TypeInv, CoreInv, CoreTypeOK, Code, TypeOK
    <3>2. /\ CompleteAt(1, "ok") /\ UNCHANGED <<outcome, ticket>>
          /\ armed' = armed \ {waiters[1]}
      BY <1>7, <2>2, <3>1 DEF ReleaseOne, Release, ClearSlots, history
    <3>3. QED
      BY <1>3, <3>1, <3>2
  <2>3. QED
    BY <2>1, <2>2
<1>8. CASE Flush
  BY <1>4, <1>8 DEF Flush, ReleaseAll, ClearSlots, history, Code
<1>9. ASSUME NEW o \in Ops, Cancel(o)
      PROVE  OnePlace' /\ SlotsExact'
  BY <1>3, <1>9, CancelIs DEF CancelAt, Code
<1>10. CASE Destroy
  BY <1>4, <1>10 DEF Destroy, Destruct, ClearSlots, history, Code
<1>11. CASE Deliver
  <2> DEFINE h == Head(ready)
  <2>1. ready # << >> /\ ready' = Tail(ready) /\ outcome' = [outcome EXCEPT ![h.op] = h.ec]
    BY <1>11 DEF Deliver
  <2>2. /\ h \in Handlers /\ Posted(h.op)
        /\ PostedOnce'
        /\ \A o \in Ops : Posted(o)' <=> Posted(o) /\ o # h.op
    BY <1>1, <2>1, DeliverMoves DEF TypeInv, TypeOK
  <2>3. h.op \in Ops /\ h.ec # None
    BY <2>2 DEF Handlers, Code, None
  <2>4. \A o \in Ops : Invoked(o)' <=> Invoked(o) \/ o = h.op
    BY <1>1, <2>1, <2>3 DEF Invoked, TypeInv, TypeOK
  <2>5. LinkedOnce' /\ \A o \in Ops : Linked(o)' <=> Linked(o)
    BY <1>1, <1>11 DEF Deliver, LinkedOnce, Linked
  <2>6. ticket' = ticket /\ armed' = armed
    BY <1>11 DEF Deliver, history
  <2> HIDE DEF h
  <2>7. OnePlace'
    BY <1>1, <2>2, <2>3, <2>4, <2>5, <2>6 DEF OnePlace
  <2>8. QED
    BY <1>1, <2>5, <2>6, <2>7 DEF SlotsExact
<1>12. CASE UNCHANGED vars
  BY <1>5, <1>12 DEF vars
<1>13. QED
  BY <1>2, <1>6, <1>7, <1>8, <1>9, <1>10, <1>11, <1>12 DEF Next

LEMMA NextInv == Inv /\ [Next]_vars => Inv'
BY NextType, NextPlaces DEF Inv

LEMMA InvHolds == Spec => []Inv
BY InitInv, NextInv, PTL DEF Spec

\* No operation waits while a permit is free, for any number of operations, also
\* when the count has wrapped.
THEOREM NoWaitWithPermitHolds == Spec => []NoWaitWithPermit
<1>1. Inv => NoWaitWithPermit
  BY CoreAssumption DEF Inv, TypeInv, CoreInv, CoreTypeOK, NoWaitWithPermit
<1>2. QED
  BY <1>1, InvHolds, PTL

\* No handler is lost, none is invoked twice and no waiter is completed twice, not
\* even by a cancellation that comes after the completion.
THEOREM OnePlaceHolds == Spec => []OnePlace
<1>1. Inv => OnePlace
  BY DEF Inv
<1>2. QED
  BY <1>1, InvHolds, PTL

\* The steps that take the count below zero.
LEMMA OnlyByOverflow ==
  ASSUME Inv, [Next]_vars, count >= 0, ~(count' >= 0)
  PROVE  count = MaxInt /\ count' < 0 /\ waiters = << >> /\ ReleaseOne
<1>1. CoreInv /\ ready \in Seq(Handlers)
  BY DEF Inv, TypeInv, CoreInv, CoreTypeOK, Handlers
<1>2. ASSUME NEW o \in Ops, Acquire(o)
      PROVE  FALSE
  BY <1>1, <1>2, AcquireKeepsCore DEF Acquire
<1>3. ~Take
  BY <1>1, TakeKeepsCore DEF Take
<1>4. ~UNCHANGED count
  OBVIOUS
<1>5. ASSUME NEW o \in Ops, Cancel(o)
      PROVE  FALSE
  BY <1>4, <1>5 DEF Cancel
<1>6. ReleaseOne
  BY <1>2, <1>3, <1>4, <1>5 DEF Next, Flush, ReleaseAll, Destroy, Destruct, Deliver, vars
<1>7. count' \in Int
  BY NextType, CoreAssumption DEF TypeInv, CoreInv, CoreTypeOK, Inv
<1>8. QED
  BY <1>1, <1>6, <1>7, ReleaseKeepsCore DEF ReleaseOne

\* ASIO_ASSERT(count_ > 0) of decrement (async_semaphore_base.hpp:96): no step, of
\* whatever operation, takes a permit that is not there.  A count that is not negative
\* becomes so in one way only, the overflow of a release at INT_MAX with no waiter.
THEOREM NegativeOnlyByOverflow ==
  Spec => [][count >= 0 /\ count' < 0 => count = MaxInt /\ waiters = << >> /\ ReleaseOne]_vars
<1>1. Inv /\ [Next]_vars
        => [count >= 0 /\ count' < 0 => count = MaxInt /\ waiters = << >> /\ ReleaseOne]_vars
  <2>1. \A n \in Int : n < 0 => ~(n >= 0)
    OBVIOUS
  <2>2. Inv /\ [Next]_vars => count' \in Int
    BY NextType, CoreAssumption DEF TypeInv, CoreInv, CoreTypeOK, Inv
  <2>3. QED
    BY <2>1, <2>2, OnlyByOverflow
<1>2. QED
  BY <1>1, InvHolds, PTL DEF Spec

-----------------------------------------------------------------------------
(***************************************************************************)
(* Completion in the order of initiation.  A granted handler is behind     *)
(* none that was initiated later: not among the waiters, not in the        *)
(* executor's queue, and not among those invoked with success.             *)
(***************************************************************************)
FifoInv ==
  /\ \A o \in Ops : ticket[o] <= issued
  /\ \A i, j \in DOMAIN waiters : i < j => ticket[waiters[i]] < ticket[waiters[j]]
  /\ \A i, j \in DOMAIN ready :
       i < j /\ ready[i].ec = "ok" => ticket[ready[i].op] < ticket[ready[j].op]
  /\ \A i \in DOMAIN ready, j \in DOMAIN waiters :
       ready[i].ec = "ok" => ticket[ready[i].op] < ticket[waiters[j]]
  /\ \A o \in Ops : outcome[o] = "ok" =>
       /\ \A i \in DOMAIN ready : ticket[o] < ticket[ready[i].op]
       /\ \A i \in DOMAIN waiters : ticket[o] < ticket[waiters[i]]

LEMMA InitFifo == Init => FifoInv
BY DEF Init, CoreInit, FifoInv, None

\* A new operation comes after all others.
LEMMA AcquireFifo ==
  ASSUME TypeInv, TypeInv', OnePlace, FifoInv, NEW o \in Ops, Acquire(o)
  PROVE  FifoInv'
<1> DEFINE n == Len(waiters)
           m == Len(ready)
<1>1. /\ n \in Nat /\ DOMAIN waiters = 1 .. n
      /\ m \in Nat /\ DOMAIN ready = 1 .. m
      /\ \A i \in 1 .. n : waiters[i] \in Ops /\ waiters[i] # o
      /\ \A i \in 1 .. m : ready[i].op \in Ops /\ ready[i].op # o
      /\ outcome[o] = None
  <2>1. ~Linked(o) /\ ~Posted(o) /\ ~Invoked(o)
    BY DEF OnePlace, Acquire
  <2>2. QED
    BY <2>1, Places DEF Linked, Posted, Invoked, Handlers, TypeInv, TypeOK
<1>2. /\ ticket'[o] = issued + 1 /\ issued' = issued + 1
      /\ \A p \in Ops : p # o => ticket'[p] = ticket[p]
      /\ \A p \in Ops : ticket[p] \in Nat /\ ticket[p] < issued + 1
      /\ outcome' = outcome /\ issued \in Nat
  BY DEF Acquire, TypeInv, TypeOK, FifoInv
<1>3. waiters \in Seq(Ops) /\ ready \in Seq(Handlers) /\ Completion(o, "ok") \in Handlers
  BY CompletionType DEF TypeInv, CoreInv, CoreTypeOK, Handlers, Code
<1>4. \A p \in Ops : ticket'[p] <= issued'
  <2>1. \A p \in Ops : ticket'[p] = issued + 1 \/ ticket'[p] = ticket[p]
    BY <1>2
  <2>2. QED
    BY <1>2, <2>1
<1>5. \A p \in Ops : outcome[p] = "ok" => p # o
  BY <1>1 DEF None
<1>6. CASE count # 0
  <2>1. waiters' = waiters /\ n = 0 /\ ready' = Append(ready, Completion(o, "ok"))
    <3>1. waiters = << >>
      BY <1>6 DEF TypeInv, CoreInv, CoreTypeOK
    <3>2. QED
      BY <1>6, <3>1 DEF Acquire, AsyncAcquire
  <2>2. /\ DOMAIN ready' = 1 .. m + 1
        /\ \A k \in 1 .. m : ready'[k] = ready[k]
        /\ ready'[m + 1].op = o
    BY <1>1, <1>3, <2>1, AppendProperties, LenProperties DEF Completion
  <2>3. \A k \in 1 .. m + 1 : k \in 1 .. m \/ k = m + 1
    BY <1>1
  <2>4. DOMAIN waiters' = {}
    BY <1>1, <2>1
  <2> HIDE DEF n, m
  <2>5. \A i, j \in 1 .. m + 1 :
          i < j /\ ready'[i].ec = "ok" => ticket'[ready'[i].op] < ticket'[ready'[j].op]
    <3> SUFFICES ASSUME NEW i \in 1 .. m + 1, NEW j \in 1 .. m + 1, i < j, ready'[i].ec = "ok"
                 PROVE  ticket'[ready'[i].op] < ticket'[ready'[j].op]
      OBVIOUS
    <3>1. i \in 1 .. m /\ ready'[i] = ready[i] /\ ticket'[ready[i].op] = ticket[ready[i].op]
      BY <1>1, <1>2, <2>2
    <3>2. CASE j = m + 1
      BY <1>1, <1>2, <2>2, <3>1, <3>2
    <3>3. CASE j \in 1 .. m
      BY <1>1, <1>2, <2>2, <3>1, <3>3 DEF FifoInv
    <3>4. QED
      BY <2>3, <3>2, <3>3
  <2>6. ASSUME NEW p \in Ops, outcome[p] = "ok", NEW i \in 1 .. m + 1
        PROVE  ticket'[p] < ticket'[ready'[i].op]
    <3>1. ticket'[p] = ticket[p]
      BY <1>2, <1>5, <2>6
    <3>2. CASE i = m + 1
      BY <1>2, <2>2, <3>1, <3>2
    <3>3. CASE i \in 1 .. m
      BY <1>1, <1>2, <2>2, <2>6, <3>1, <3>3 DEF FifoInv
    <3>4. QED
      BY <2>3, <3>2, <3>3
  <2>7. QED
    BY <1>2, <1>4, <2>2, <2>4, <2>5, <2>6 DEF FifoInv
<1>7. CASE count = 0
  <2>1. waiters' = Append(waiters, o) /\ ready' = ready
    BY <1>7 DEF Acquire, AsyncAcquire
  <2>2. /\ DOMAIN waiters' = 1 .. n + 1
        /\ \A k \in 1 .. n : waiters'[k] = waiters[k]
        /\ waiters'[n + 1] = o
    BY <1>1, <1>3, <2>1, AppendProperties, LenProperties
  <2>3. \A k \in 1 .. n + 1 : k \in 1 .. n \/ k = n + 1
    BY <1>1
  <2> HIDE DEF n, m
  <2>4. \A i, j \in 1 .. n + 1 : i < j => ticket'[waiters'[i]] < ticket'[waiters'[j]]
    <3> SUFFICES ASSUME NEW i \in 1 .. n + 1, NEW j \in 1 .. n + 1, i < j
                 PROVE  ticket'[waiters'[i]] < ticket'[waiters'[j]]
      OBVIOUS
    <3>1. i \in 1 .. n /\ waiters'[i] = waiters[i] /\ ticket'[waiters[i]] = ticket[waiters[i]]
      BY <1>1, <1>2, <2>2
    <3>2. CASE j = n + 1
      BY <1>1, <1>2, <2>2, <3>1, <3>2
    <3>3. CASE j \in 1 .. n
      BY <1>1, <1>2, <2>2, <3>1, <3>3 DEF FifoInv
    <3>4. QED
      BY <2>3, <3>2, <3>3
  <2>5. \A i, j \in 1 .. m :
          i < j /\ ready[i].ec = "ok" => ticket'[ready[i].op] < ticket'[ready[j].op]
    BY <1>1, <1>2 DEF FifoInv
  <2>6. \A i \in 1 .. m, j \in 1 .. n + 1 :
          ready[i].ec = "ok" => ticket'[ready[i].op] < ticket'[waiters'[j]]
    <3> SUFFICES ASSUME NEW i \in 1 .. m, NEW j \in 1 .. n + 1, ready[i].ec = "ok"
                 PROVE  ticket'[ready[i].op] < ticket'[waiters'[j]]
      OBVIOUS
    <3>1. CASE j = n + 1
      BY <1>1, <1>2, <2>2, <3>1
    <3>2. CASE j \in 1 .. n
      BY <1>1, <1>2, <2>2, <3>2 DEF FifoInv
    <3>3. QED
      BY <2>3, <3>1, <3>2
  <2>7. ASSUME NEW p \in Ops, outcome[p] = "ok"
        PROVE  /\ \A i \in 1 .. m : ticket'[p] < ticket'[ready[i].op]
               /\ \A i \in 1 .. n + 1 : ticket'[p] < ticket'[waiters'[i]]
    <3>1. ticket'[p] = ticket[p]
      BY <1>2, <1>5, <2>7
    <3>2. \A i \in 1 .. m : ticket'[p] < ticket'[ready[i].op]
      BY <1>1, <1>2, <2>7, <3>1 DEF FifoInv
    <3>3. \A i \in 1 .. n : ticket'[p] < ticket'[waiters'[i]]
      BY <1>1, <1>2, <2>2, <2>7, <3>1 DEF FifoInv
    <3>4. ticket'[p] < ticket'[waiters'[n + 1]]
      BY <1>2, <2>2, <3>1
    <3>5. QED
      BY <2>3, <3>2, <3>3, <3>4
  <2>8. QED
    BY <1>1, <1>2, <1>4, <2>1, <2>2, <2>4, <2>5, <2>6, <2>7 DEF FifoInv
<1>8. QED
  BY <1>6, <1>7

\* Only the first waiter is granted a permit; any waiter may be aborted.
LEMMA CompleteAtFifo ==
  ASSUME TypeInv, TypeInv', FifoInv, UNCHANGED <<outcome, ticket, issued>>,
         NEW i \in DOMAIN waiters, NEW ec \in Code, CompleteAt(i, ec), ec = "ok" => i = 1
  PROVE  FifoInv'
<1> DEFINE n == Len(waiters)
           m == Len(ready)
           w == waiters[i]
<1>1. /\ n \in Nat /\ DOMAIN waiters = 1 .. n
      /\ m \in Nat /\ DOMAIN ready = 1 .. m
      /\ i \in 1 .. n
      /\ \A k \in 1 .. n : waiters[k] \in Ops
      /\ \A k \in 1 .. m : ready[k].op \in Ops
      /\ \A p \in Ops : ticket[p] \in Nat
  BY Places DEF Handlers, TypeInv, TypeOK
<1>2. /\ DOMAIN waiters' = 1 .. n - 1
      /\ DOMAIN ready' = 1 .. m + 1
      /\ \A k \in 1 .. n - 1 : waiters'[k] = IF k < i THEN waiters[k] ELSE waiters[k + 1]
      /\ \A k \in 1 .. m : ready'[k] = ready[k]
      /\ ready'[m + 1] = Completion(w, ec)
  BY CompleteAtEffect, LenProperties DEF TypeInv, TypeOK
<1>3. ready'[m + 1].op = w /\ ready'[m + 1].ec = ec
  BY <1>2 DEF Completion
<1> DEFINE old(k) == IF k < i THEN k ELSE k + 1
<1>4. \A k \in 1 .. n - 1 : /\ old(k) \in 1 .. n
                            /\ (i = 1 => i < old(k))
                            /\ waiters'[k] = waiters[old(k)]
  BY <1>1, <1>2
<1>5. \A j, k \in 1 .. n - 1 : j < k => old(j) < old(k)
  BY <1>1
<1>6. \A k \in 1 .. m + 1 : k \in 1 .. m \/ k = m + 1
  BY <1>1
<1>7. \A j, k \in 1 .. m + 1 : j < k => j \in 1 .. m
  BY <1>1
<1> HIDE DEF old, n, m
<1>8. \A j, k \in 1 .. n - 1 : j < k => ticket[waiters'[j]] < ticket[waiters'[k]]
  BY <1>1, <1>4, <1>5 DEF FifoInv
<1>9. ASSUME NEW j \in 1 .. m + 1, NEW k \in 1 .. m + 1, j < k, ready'[j].ec = "ok"
      PROVE  ticket[ready'[j].op] < ticket[ready'[k].op]
  <2>1. j \in 1 .. m /\ ready'[j] = ready[j] /\ ready[j].ec = "ok"
    BY <1>2, <1>7, <1>9
  <2>2. CASE k \in 1 .. m
    BY <1>1, <1>2, <1>9, <2>1, <2>2 DEF FifoInv
  <2>3. CASE k = m + 1
    BY <1>1, <1>3, <2>1, <2>3 DEF FifoInv
  <2>4. QED
    BY <1>6, <2>2, <2>3
<1>10. ASSUME NEW j \in 1 .. m + 1, NEW k \in 1 .. n - 1, ready'[j].ec = "ok"
       PROVE  ticket[ready'[j].op] < ticket[waiters'[k]]
  <2>1. CASE j \in 1 .. m
    BY <1>1, <1>2, <1>4, <1>10, <2>1 DEF FifoInv
  <2>2. CASE j = m + 1
    <3>1. ec = "ok" /\ i = 1 /\ ready'[j].op = waiters[i]
      BY <1>3, <1>10, <2>2
    <3>2. old(k) \in 1 .. n /\ i < old(k) /\ waiters'[k] = waiters[old(k)]
      BY <1>4, <3>1
    <3>3. QED
      BY <1>1, <3>1, <3>2 DEF FifoInv
  <2>3. QED
    BY <1>6, <2>1, <2>2
<1>11. ASSUME NEW p \in Ops, outcome[p] = "ok"
       PROVE  /\ \A k \in 1 .. m + 1 : ticket[p] < ticket[ready'[k].op]
              /\ \A k \in 1 .. n - 1 : ticket[p] < ticket[waiters'[k]]
  <2>1. \A k \in 1 .. m : ticket[p] < ticket[ready'[k].op]
    BY <1>1, <1>2, <1>11 DEF FifoInv
  <2>2. ticket[p] < ticket[ready'[m + 1].op]
    BY <1>1, <1>3, <1>11 DEF FifoInv
  <2>3. \A k \in 1 .. n - 1 : ticket[p] < ticket[waiters'[k]]
    BY <1>1, <1>4, <1>11 DEF FifoInv
  <2>4. QED
    BY <1>6, <2>1, <2>2, <2>3
<1>12. QED
  BY <1>2, <1>8, <1>9, <1>10, <1>11 DEF FifoInv

\* Completing all the waiters queues them in their order.
LEMMA CompleteAllFifo ==
  ASSUME TypeInv, TypeInv', FifoInv, UNCHANGED <<outcome, ticket, issued>>,
         NEW ec \in Code, CompleteAll(ec)
  PROVE  FifoInv'
<1> DEFINE n == Len(waiters)
           m == Len(ready)
<1>1. /\ n \in Nat /\ DOMAIN waiters = 1 .. n
      /\ m \in Nat /\ DOMAIN ready = 1 .. m
      /\ \A k \in 1 .. n : waiters[k] \in Ops
      /\ \A k \in 1 .. m : ready[k].op \in Ops
  BY Places DEF Handlers, TypeInv, TypeOK
<1>2. /\ waiters' = << >>
      /\ DOMAIN ready' = 1 .. m + n
      /\ \A k \in 1 .. m : ready'[k] = ready[k]
      /\ \A k \in 1 .. n : ready'[m + k] = Completion(waiters[k], ec)
  BY CompleteAllEffect, LenProperties DEF TypeInv, TypeOK
<1>3. /\ DOMAIN waiters' = {}
      /\ \A k \in 1 .. n : ready'[m + k].op = waiters[k]
  <2>1. \A k \in 1 .. n : Completion(waiters[k], ec).op = waiters[k]
    BY DEF Completion
  <2>2. DOMAIN waiters' = {}
    BY <1>2
  <2> HIDE DEF n, m
  <2>3. QED
    BY <1>2, <2>1, <2>2
<1>4. \A k \in 1 .. m + n : k \in 1 .. m \/ (k - m \in 1 .. n /\ k = m + (k - m))
  BY <1>1
<1>5. \A j, k \in 1 .. m + n :
        /\ j < k /\ k \in 1 .. m => j \in 1 .. m
        /\ j < k => j - m < k - m
  BY <1>1
<1> HIDE DEF n, m
<1>6. ASSUME NEW k \in 1 .. m + n, k \notin 1 .. m
      PROVE  k - m \in 1 .. n /\ ready'[k].op = waiters[k - m]
  BY <1>3, <1>4, <1>6
<1>7. ASSUME NEW j \in 1 .. m + n, NEW k \in 1 .. m + n, j < k, ready'[j].ec = "ok"
      PROVE  ticket[ready'[j].op] < ticket[ready'[k].op]
  <2>1. CASE j \in 1 .. m /\ k \in 1 .. m
    BY <1>1, <1>2, <1>7, <2>1 DEF FifoInv
  <2>2. CASE j \in 1 .. m /\ k \notin 1 .. m
    <3>1. ready'[j] = ready[j] /\ ready[j].ec = "ok"
      BY <1>2, <1>7, <2>2
    <3>2. k - m \in 1 .. n /\ ready'[k].op = waiters[k - m]
      BY <1>6, <2>2
    <3>3. ticket[ready[j].op] < ticket[waiters[k - m]]
      BY <1>1, <2>2, <3>1, <3>2 DEF FifoInv
    <3>4. QED
      BY <3>1, <3>2, <3>3
  <2>3. CASE j \notin 1 .. m
    <3>1. k \notin 1 .. m /\ j - m < k - m
      BY <1>5, <1>7, <2>3
    <3>2. QED
      BY <1>1, <1>6, <2>3, <3>1 DEF FifoInv
  <2>4. QED
    BY <2>1, <2>2, <2>3
<1>8. ASSUME NEW p \in Ops, outcome[p] = "ok", NEW k \in 1 .. m + n
      PROVE  ticket[p] < ticket[ready'[k].op]
  <2>1. CASE k \in 1 .. m
    BY <1>1, <1>2, <1>8, <2>1 DEF FifoInv
  <2>2. CASE k \notin 1 .. m
    BY <1>1, <1>6, <1>8, <2>2 DEF FifoInv
  <2>3. QED
    BY <2>1, <2>2
<1>9. QED
  BY <1>2, <1>3, <1>7, <1>8 DEF FifoInv

\* The handler invoked is ahead of all that are still queued.
LEMMA DeliverFifo ==
  ASSUME TypeInv, FifoInv, Deliver
  PROVE  FifoInv'
<1> DEFINE m == Len(ready)
           h == Head(ready)
<1>1. ready \in Seq(Handlers) /\ m \in Nat \ {0} /\ DOMAIN ready = 1 .. m
  BY EmptySeq, LenProperties DEF Deliver, TypeInv, CoreInv, CoreTypeOK, Handlers
<1>2. h = ready[1] /\ 1 \in 1 .. m /\ h \in Handlers /\ h.op \in Ops
  <2>1. h = ready[1] /\ 1 \in 1 .. m
    BY <1>1
  <2>2. h \in Handlers
    BY <1>1, HeadTailProperties DEF Deliver
  <2> HIDE DEF h, m
  <2>3. QED
    BY <2>1, <2>2 DEF Handlers
<1>3. /\ DOMAIN ready' = 1 .. m - 1
      /\ \A k \in 1 .. m - 1 : ready'[k] = ready[k + 1]
  BY <1>1, HeadTailProperties, LenProperties DEF Deliver
<1>4. \A k \in 1 .. m - 1 : k + 1 \in 1 .. m /\ 1 < k + 1
  BY <1>1
<1>5. \A j, k \in 1 .. m - 1 : j < k => j + 1 < k + 1
  BY <1>1
<1>6. /\ UNCHANGED <<waiters, ticket, issued>>
      /\ \A p \in Ops : outcome'[p] = IF p = h.op THEN h.ec ELSE outcome[p]
  BY <1>2 DEF Deliver, TypeInv, TypeOK, history
<1> HIDE DEF m, h
<1>7. \A j, k \in 1 .. m - 1 :
        j < k /\ ready'[j].ec = "ok" => ticket[ready'[j].op] < ticket[ready'[k].op]
  BY <1>1, <1>3, <1>4, <1>5 DEF FifoInv
<1>8. \A j \in 1 .. m - 1, k \in DOMAIN waiters :
        ready'[j].ec = "ok" => ticket[ready'[j].op] < ticket[waiters[k]]
  BY <1>1, <1>3, <1>4 DEF FifoInv
<1>9. ASSUME NEW p \in Ops, outcome'[p] = "ok"
      PROVE  /\ \A k \in 1 .. m - 1 : ticket[p] < ticket[ready'[k].op]
             /\ \A k \in DOMAIN waiters : ticket[p] < ticket[waiters[k]]
  <2>1. CASE p = h.op
    <3>1. ready[1].op = p /\ ready[1].ec = "ok"
      BY <1>2, <1>6, <1>9, <2>1
    <3>2. QED
      BY <1>1, <1>2, <1>3, <1>4, <3>1 DEF FifoInv
  <2>2. CASE p # h.op
    BY <1>1, <1>3, <1>4, <1>6, <1>9, <2>2 DEF FifoInv
  <2>3. QED
    BY <2>1, <2>2
<1>10. \A p \in Ops : ticket[p] <= issued
  BY DEF FifoInv
<1>11. QED
  BY <1>3, <1>6, <1>7, <1>8, <1>9, <1>10 DEF FifoInv

LEMMA NextFifo ==
  Inv /\ TypeInv' /\ FifoInv /\ [Next]_vars => FifoInv'
<1> SUFFICES ASSUME Inv, TypeInv, TypeInv', OnePlace, FifoInv, [Next]_vars
             PROVE  FifoInv'
  BY DEF Inv
<1>1. ASSUME UNCHANGED <<waiters, ready, outcome, ticket, issued>>
      PROVE  FifoInv'
  BY <1>1 DEF FifoInv
<1>2. CASE \E o \in Ops : Acquire(o)
  BY <1>2, AcquireFifo
<1>3. CASE Take
  BY <1>1, <1>3 DEF Take, TryAcquire, history
<1>4. CASE ReleaseOne
  <2>1. CASE waiters = << >>
    BY <1>1, <1>4, <2>1 DEF ReleaseOne, Release, history
  <2>2. CASE waiters # << >>
    <3>1. 1 \in DOMAIN waiters /\ "ok" \in Code
      BY <2>2, EmptySeq, Places DEF TypeInv, CoreInv, CoreTypeOK, Code, TypeOK
    <3>2. CompleteAt(1, "ok") /\ UNCHANGED <<outcome, ticket, issued>>
      BY <1>4, <2>2 DEF ReleaseOne, Release, history
    <3>3. QED
      BY <3>1, <3>2, CompleteAtFifo
  <2>3. QED
    BY <2>1, <2>2
<1>5. CASE Flush
  BY <1>5, CompleteAllFifo DEF Flush, ReleaseAll, history, Code
<1>6. CASE \E o \in Ops : Cancel(o)
  BY <1>6, CancelIs, CompleteAtFifo DEF CancelAt, Code
<1>7. CASE Destroy
  BY <1>7, CompleteAllFifo DEF Destroy, Destruct, history, Code
<1>8. CASE Deliver
  BY <1>8, DeliverFifo
<1>9. CASE UNCHANGED vars
  BY <1>1, <1>9 DEF vars
<1>10. QED
  BY <1>2, <1>3, <1>4, <1>5, <1>6, <1>7, <1>8, <1>9 DEF Next

\* Operations complete in the order they were initiated, cancelled ones apart.
THEOREM FifoCompletionHolds == Spec => []FifoCompletion
<1>1. TypeInv /\ OnePlace /\ FifoInv => FifoCompletion
  <2> SUFFICES ASSUME TypeInv, OnePlace, FifoInv, NEW a \in Ops, NEW b \in Ops,
                      0 < ticket[a], ticket[a] < ticket[b], outcome[b] = "ok"
               PROVE  outcome[a] # None
    BY DEF FifoCompletion
  <2>1. ticket[a] \in Nat /\ ticket[b] \in Nat
    BY DEF TypeInv, TypeOK
  <2>2. ~Linked(a) /\ ~Posted(a)
    BY <2>1 DEF FifoInv, Linked, Posted
  <2>3. QED
    BY <2>1, <2>2 DEF OnePlace, Invoked
<1>2. Inv /\ FifoInv /\ [Next]_vars => Inv' /\ FifoInv'
  BY NextInv, NextFifo DEF Inv
<1>3. Inv /\ FifoInv => FifoCompletion
  BY <1>1 DEF Inv
<1>4. QED
  BY <1>2, <1>3, InitInv, InitFifo, PTL DEF Spec

-----------------------------------------------------------------------------
(***************************************************************************)
(* The semaphore implements the counting semaphore.  The abstract sets of  *)
(* acquired and aborted operations are those whose completion is decided,  *)
(* queued or invoked; delivering a handler is a stutter.                   *)
(***************************************************************************)
\* Membership in Decided and in the abstract queue.
LEMMA DecidedMember ==
  ASSUME NEW ec, NEW o \in Ops
  PROVE  o \in Decided(ec) <=>
           \/ outcome[o] = ec
           \/ \E i \in DOMAIN ready : ready[i].op = o /\ ready[i] = Completion(o, ec)
BY DEF Decided, Completion

\* A handler appended to the queue decides its operation.
LEMMA AppendDecides ==
  ASSUME TypeInv, NEW w \in Ops, NEW ec \in Code, NEW d \in Code,
         ready' = Append(ready, Completion(w, ec)), outcome' = outcome
  PROVE  Decided(d)' = IF d = ec THEN Decided(d) \cup {w} ELSE Decided(d)
<1> DEFINE m == Len(ready)
<1>1. ready \in Seq(Handlers) /\ m \in Nat /\ DOMAIN ready = 1 .. m
  BY Places DEF TypeInv, CoreInv, CoreTypeOK, Handlers, TypeOK
<1>2. Completion(w, ec) \in Handlers
  BY CompletionType
<1>3. /\ DOMAIN ready' = 1 .. m + 1
      /\ \A k \in 1 .. m : ready'[k] = ready[k]
      /\ ready'[m + 1] = Completion(w, ec)
  BY <1>1, <1>2, AppendProperties, LenProperties
<1>4. \A k \in 1 .. m + 1 : k \in 1 .. m \/ k = m + 1
  BY <1>1
<1>5. \A k \in 1 .. m : k \in 1 .. m + 1
  BY <1>1
<1>6. m + 1 \in 1 .. m + 1
  BY <1>1
<1> HIDE DEF m
<1>7. \A o \in Ops : (\E i \in 1 .. m + 1 : ready'[i] = Completion(o, d))
                       <=> \/ \E i \in 1 .. m : ready[i] = Completion(o, d)
                           \/ Completion(w, ec) = Completion(o, d)
  BY <1>3, <1>4, <1>5, <1>6
<1>8. \A o \in Ops : Completion(w, ec) = Completion(o, d) <=> o = w /\ d = ec
  BY DEF Completion
<1>9. QED
  BY <1>1, <1>3, <1>7, <1>8 DEF Decided

\* Completing every waiter decides them all.
LEMMA CompleteAllDecides ==
  ASSUME TypeInv, NEW ec \in Code, NEW d \in Code, CompleteAll(ec), outcome' = outcome
  PROVE  Decided(d)' = IF d = ec THEN Decided(d) \cup Abstract!Queued ELSE Decided(d)
<1> DEFINE n == Len(waiters)
           m == Len(ready)
<1>1. /\ n \in Nat /\ DOMAIN waiters = 1 .. n
      /\ m \in Nat /\ DOMAIN ready = 1 .. m
      /\ \A k \in 1 .. n : waiters[k] \in Ops
  BY Places DEF TypeInv, TypeOK
<1>2. /\ DOMAIN ready' = 1 .. m + n
      /\ \A k \in 1 .. m : ready'[k] = ready[k]
      /\ \A k \in 1 .. n : ready'[m + k] = Completion(waiters[k], ec)
  BY CompleteAllEffect, LenProperties DEF TypeInv, TypeOK
<1>3. \A k \in 1 .. m + n : k \in 1 .. m \/ (k - m \in 1 .. n /\ k = m + (k - m))
  BY <1>1
<1>4. \A k \in 1 .. m : k \in 1 .. m + n
  BY <1>1
<1>5. \A k \in 1 .. n : m + k \in 1 .. m + n
  BY <1>1
<1> HIDE DEF n, m
<1>6. ASSUME NEW o \in Ops
      PROVE  (\E i \in 1 .. m + n : ready'[i] = Completion(o, d))
               <=> \/ \E i \in 1 .. m : ready[i] = Completion(o, d)
                   \/ \E k \in 1 .. n : Completion(waiters[k], ec) = Completion(o, d)
  <2>1. ASSUME NEW i \in 1 .. m + n, ready'[i] = Completion(o, d)
        PROVE  \/ \E j \in 1 .. m : ready[j] = Completion(o, d)
               \/ \E k \in 1 .. n : Completion(waiters[k], ec) = Completion(o, d)
    <3>1. CASE i \in 1 .. m
      BY <1>2, <2>1, <3>1
    <3>2. CASE i - m \in 1 .. n /\ i = m + (i - m)
      BY <1>2, <2>1, <3>2
    <3>3. QED
      BY <1>3, <3>1, <3>2
  <2>2. QED
    BY <1>2, <1>4, <1>5, <2>1
<1>7. \A o \in Ops, k \in 1 .. n :
        Completion(waiters[k], ec) = Completion(o, d) <=> o = waiters[k] /\ d = ec
  BY DEF Completion
<1>8. Abstract!Queued = {waiters[k] : k \in 1 .. n}
  BY <1>1 DEF Abstract!Queued
<1>9. ASSUME NEW o \in Ops
      PROVE  o \in Decided(d)' <=> o \in Decided(d) \/ (d = ec /\ o \in Abstract!Queued)
  <2>1. o \in Decided(d)' <=> outcome[o] = d \/ \E i \in 1 .. m + n : ready'[i] = Completion(o, d)
    BY <1>2 DEF Decided
  <2>2. o \in Decided(d) <=> outcome[o] = d \/ \E i \in 1 .. m : ready[i] = Completion(o, d)
    BY <1>1 DEF Decided
  <2>3. (d = ec /\ o \in Abstract!Queued)
          <=> \E k \in 1 .. n : Completion(waiters[k], ec) = Completion(o, d)
    BY <1>7, <1>8
  <2>4. QED
    BY <1>6, <1>9, <2>1, <2>2, <2>3
<1>10. Decided(d) \subseteq Ops /\ Decided(d)' \subseteq Ops /\ Abstract!Queued \subseteq Ops
  BY <1>1, <1>8 DEF Decided
<1>11. QED
  BY <1>9, <1>10

\* Invoking a handler decides nothing new.
LEMMA DeliverDecides ==
  ASSUME TypeInv, TypeInv', OnePlace, Deliver, NEW d \in Code
  PROVE  Decided(d)' = Decided(d)
<1> DEFINE m == Len(ready)
           h == Head(ready)
<1>1. ready \in Seq(Handlers) /\ m \in Nat \ {0} /\ DOMAIN ready = 1 .. m
  BY EmptySeq, LenProperties DEF Deliver, TypeInv, CoreInv, CoreTypeOK, Handlers
<1>2. h = ready[1] /\ 1 \in 1 .. m
  BY <1>1
<1>3. h \in Handlers /\ Posted(h.op)
  BY <1>1, DeliverMoves DEF Deliver, OnePlace, TypeInv, TypeOK
<1>4. /\ DOMAIN ready' = 1 .. m - 1
      /\ \A k \in 1 .. m - 1 : ready'[k] = ready[k + 1]
  BY <1>1, HeadTailProperties, LenProperties DEF Deliver
<1>5. \A k \in 1 .. m : k = 1 \/ (k - 1 \in 1 .. m - 1 /\ (k - 1) + 1 = k)
  BY <1>1
<1>6. \A k \in 1 .. m - 1 : k + 1 \in 1 .. m
  BY <1>1
<1> HIDE DEF m, h
<1>7. h.op \in Ops /\ h = Completion(h.op, h.ec) /\ outcome[h.op] = None
  <2>1. h.op \in Ops /\ h = [op |-> h.op, ec |-> h.ec]
    BY <1>3 DEF Handlers
  <2>2. outcome[h.op] = None
    BY <1>3, <2>1 DEF OnePlace, Invoked
  <2>3. QED
    BY <2>1, <2>2 DEF Completion
<1>8. \A p \in Ops : outcome'[p] = IF p = h.op THEN h.ec ELSE outcome[p]
  BY <1>7 DEF Deliver, h, TypeInv, TypeOK
<1>9. \A p \in Ops : h = Completion(p, d) <=> p = h.op /\ d = h.ec
  <2>1. \A p \in Ops : Completion(h.op, h.ec) = Completion(p, d) <=> p = h.op /\ d = h.ec
    BY DEF Completion
  <2>2. QED
    BY <1>7, <2>1
<1>10. ASSUME NEW p \in Ops
       PROVE  (\E i \in 1 .. m : ready[i] = Completion(p, d))
                <=> \/ \E i \in 1 .. m - 1 : ready'[i] = Completion(p, d)
                    \/ h = Completion(p, d)
  <2>1. ASSUME NEW i \in 1 .. m, ready[i] = Completion(p, d), i # 1
        PROVE  \E k \in 1 .. m - 1 : ready'[k] = Completion(p, d)
    <3>1. i - 1 \in 1 .. m - 1 /\ (i - 1) + 1 = i
      BY <1>5, <2>1
    <3>2. ready'[i - 1] = ready[i]
      BY <1>4, <3>1
    <3>3. QED
      BY <2>1, <3>1, <3>2
  <2>2. QED
    BY <1>2, <1>4, <1>6, <2>1
<1>11. None # d
  BY DEF Code, None
<1>12. ASSUME NEW p \in Ops
       PROVE  p \in Decided(d)' <=> p \in Decided(d)
  <2>1. CASE p = h.op
    BY <1>1, <1>4, <1>7, <1>8, <1>9, <1>10, <1>11, <2>1 DEF Decided
  <2>2. CASE p # h.op
    BY <1>1, <1>4, <1>8, <1>9, <1>10, <2>2 DEF Decided
  <2>3. QED
    BY <2>1, <2>2
<1>13. Decided(d) \subseteq Ops /\ Decided(d)' \subseteq Ops
  BY DEF Decided
<1>14. QED
  BY <1>12, <1>13

LEMMA InitRefines == Init => Abstract!Init
<1> SUFFICES ASSUME Init PROVE Abstract!Init
  OBVIOUS
<1>1. Value = InitialCount
  BY CoreAssumption, EmptySeq DEF Init, CoreInit, Value
<1>2. Decided("ok") = {} /\ Decided("aborted") = {}
  BY DEF Init, CoreInit, Decided, None
<1>3. QED
  BY <1>1, <1>2 DEF Abstract!Init, Init, CoreInit

\* A step that completes the i-th waiter raises the value by what it adds to
\* the count, and by the claim of that waiter.
LEMMA CompleteAtValue ==
  ASSUME TypeInv, NEW i \in DOMAIN waiters, NEW ec \in Code, CompleteAt(i, ec),
         count' = count
  PROVE  Value' = Value + 1 /\ Value < 0
<1>1. /\ waiters \in Seq(Ops) /\ Len(waiters) \in Nat /\ i \in 1 .. Len(waiters)
      /\ count \in Int
      /\ (count # 0 => waiters = << >>)
  BY Places, CoreAssumption DEF TypeInv, CoreInv, CoreTypeOK, TypeOK
<1>2. Len(waiters') = Len(waiters) - 1
  BY CompleteAtEffect DEF TypeInv, TypeOK
<1>3. Len(waiters) > 0 /\ count = 0
  BY <1>1, EmptySeq
<1>4. QED
  BY <1>1, <1>2, <1>3 DEF Value

LEMMA NextRefines ==
  Inv /\ TypeInv' /\ count >= 0 /\ [Next /\ count' >= 0]_vars
    => [Abstract!Next]_(Abstract!vars)
<1> SUFFICES ASSUME Inv, TypeInv, TypeInv', OnePlace, count >= 0, [Next /\ count' >= 0]_vars
             PROVE  Abstract!Next \/ UNCHANGED Abstract!vars
  BY DEF Inv
<1>1. /\ waiters \in Seq(Ops) /\ Len(waiters) \in Nat /\ DOMAIN waiters = 1 .. Len(waiters)
      /\ count \in 0 .. MaxInt /\ MaxInt \in Nat \ {0} /\ count' \in Int
      /\ (count > 0 => waiters = << >>)
      /\ (waiters = << >> => Len(waiters) = 0)
  BY Places, EmptySeq, CoreAssumption DEF TypeInv, CoreInv, CoreTypeOK, TypeOK
<1>2. ASSUME UNCHANGED <<waiters, count, ready, outcome>>
      PROVE  UNCHANGED Abstract!vars
  BY <1>2 DEF Abstract!vars, Value, Decided
<1>3. ASSUME NEW o \in Ops, Acquire(o)
      PROVE  Abstract!Next
  <2>1. Abstract!Fresh(o)
    <3>1. ~Linked(o) /\ ~Posted(o) /\ ~Invoked(o)
      BY <1>3 DEF OnePlace, Acquire
    <3>2. o \notin Decided("ok") /\ o \notin Decided("aborted")
      BY <3>1, DecidedMember DEF Posted, Invoked, None
    <3>3. QED
      BY <3>1, <3>2 DEF Abstract!Fresh, Abstract!Queued, Linked
  <2>2. outcome' = outcome
    BY <1>3 DEF Acquire
  <2>3. CASE count # 0
    <3>1. ready' = Append(ready, Completion(o, "ok")) /\ waiters' = waiters /\ count' = count - 1
      <4>1. count > 0 /\ Decremented(count) = count - 1
        BY <1>1, <2>3, CountArithmetic DEF TypeInv, TypeOK, CoreTypeOK
      <4>2. QED
        BY <1>3, <2>3, <4>1 DEF Acquire, AsyncAcquire
    <3>2. Decided("ok")' = Decided("ok") \cup {o} /\ Decided("aborted")' = Decided("aborted")
      BY <2>2, <3>1, AppendDecides DEF Code
    <3>3. Value > 0 /\ Value' = Value - 1
      BY <1>1, <2>3, <3>1 DEF Value
    <3>4. Abstract!Acquire(o)
      BY <2>1, <3>1, <3>2, <3>3 DEF Abstract!Acquire
    <3>5. QED
      BY <3>4 DEF Abstract!Next
  <2>4. CASE count = 0
    <3>1. ready' = ready /\ waiters' = Append(waiters, o) /\ count' = count
      BY <1>3, <2>4 DEF Acquire, AsyncAcquire
    <3>2. Decided("ok")' = Decided("ok") /\ Decided("aborted")' = Decided("aborted")
      BY <2>2, <3>1 DEF Decided
    <3>3. Len(waiters') = Len(waiters) + 1
      BY <1>1, <3>1, AppendProperties
    <3>4. Value <= 0 /\ Value' = Value - 1
      BY <1>1, <2>4, <3>1, <3>3 DEF Value
    <3>5. Abstract!Acquire(o)
      BY <2>1, <3>1, <3>2, <3>4 DEF Abstract!Acquire
    <3>6. QED
      BY <3>5 DEF Abstract!Next
  <2>5. QED
    BY <2>3, <2>4
<1>4. CASE Take
  <2>1. /\ count > 0 /\ count' = count - 1
        /\ UNCHANGED <<waiters, ready, outcome>>
    BY <1>4 DEF Take, TryAcquire
  <2>2. Value > 0 /\ Value' = Value - 1
    BY <1>1, <2>1 DEF Value
  <2>3. UNCHANGED <<Decided("ok"), Decided("aborted")>>
    BY <2>1 DEF Decided
  <2>4. QED
    BY <2>1, <2>2, <2>3 DEF Abstract!Next, Abstract!Take
<1>5. CASE ReleaseOne /\ count' >= 0
  <2>1. outcome' = outcome
    BY <1>5 DEF ReleaseOne
  <2>2. CASE waiters = << >>
    <3>1. count' = count + 1 /\ UNCHANGED <<waiters, ready>>
      BY <1>1, <1>5, <2>2 DEF ReleaseOne, Release, Incremented
    <3>2. Value >= 0 /\ Value' = Value + 1
      BY <1>1, <2>2, <3>1 DEF Value
    <3>3. UNCHANGED <<Decided("ok"), Decided("aborted")>>
      BY <2>1, <3>1 DEF Decided
    <3>4. QED
      BY <3>1, <3>2, <3>3 DEF Abstract!Next, Abstract!Release
  <2>3. CASE waiters # << >>
    <3>1. count' = count /\ CompleteAt(1, "ok")
      BY <1>5, <2>3, CountArithmetic DEF ReleaseOne, Release, TypeInv, TypeOK, CoreTypeOK
    <3>2. 1 \in DOMAIN waiters /\ waiters[1] \in Ops
      BY <1>1, <2>3, EmptySeq, Places DEF TypeInv, TypeOK
    <3>3. Value' = Value + 1 /\ Value < 0
      BY <3>1, <3>2, CompleteAtValue DEF Code
    <3>4. ready' = Append(ready, Completion(waiters[1], "ok")) /\ waiters' = RemoveAt(waiters, 1)
      BY <3>1 DEF CompleteAt
    <3>5. /\ Decided("ok")' = Decided("ok") \cup {waiters[1]}
          /\ Decided("aborted")' = Decided("aborted")
      BY <2>1, <3>2, <3>4, AppendDecides DEF Code
    <3>6. waiters' = Tail(waiters) /\ waiters[1] = Head(waiters)
      BY <1>1, <2>3, <3>4, RemoveHead
    <3>7. QED
      BY <3>3, <3>5, <3>6 DEF Abstract!Next, Abstract!Release
  <2>4. QED
    BY <2>2, <2>3
<1>6. ASSUME NEW ec \in Code, CompleteAll(ec), count' = count, outcome' = outcome
      PROVE  /\ Value' = Value + Len(waiters)
             /\ waiters' = << >>
             /\ \A d \in Code :
                  Decided(d)' = IF d = ec THEN Decided(d) \cup Abstract!Queued ELSE Decided(d)
  <2>1. waiters' = << >> /\ Len(waiters') = 0
    BY <1>6, EmptySeq, CompleteAllIs DEF TypeInv, TypeOK
  <2>2. Value' = Value + Len(waiters)
    BY <1>1, <1>6, <2>1 DEF Value
  <2>3. QED
    BY <1>6, <2>1, <2>2, CompleteAllDecides
<1>7. CASE Flush
  <2>1. CompleteAll("ok") /\ count' = count /\ outcome' = outcome
    BY <1>7 DEF Flush, ReleaseAll
  <2>2. QED
    BY <1>6, <2>1 DEF Code, Abstract!Next, Abstract!Flush
<1>8. ASSUME NEW o \in Ops, Cancel(o)
      PROVE  Abstract!Next
  <2> PICK i \in DOMAIN waiters : CancelAt(i) /\ outcome' = outcome
    BY <1>8, CancelIs
  <2>1. CompleteAt(i, "aborted") /\ count' = count /\ outcome' = outcome
    BY DEF CancelAt
  <2>2. Value' = Value + 1
    BY <2>1, CompleteAtValue DEF Code
  <2>3. ready' = Append(ready, Completion(waiters[i], "aborted")) /\ waiters' = RemoveAt(waiters, i)
    BY <2>1 DEF CompleteAt
  <2>4. /\ Decided("aborted")' = Decided("aborted") \cup {waiters[i]}
        /\ Decided("ok")' = Decided("ok")
    BY <2>1, <2>3, Places, AppendDecides DEF Code, TypeInv, TypeOK
  <2>5. Abstract!Abandon(i)
    BY <2>2, <2>3, <2>4 DEF Abstract!Abandon, Abstract!RemoveAt, RemoveAt
  <2>6. QED
    BY <2>5 DEF Abstract!Next
<1>9. CASE Destroy
  <2>1. CompleteAll("aborted") /\ count' = count /\ outcome' = outcome
    BY <1>9 DEF Destroy, Destruct
  <2>2. QED
    BY <1>6, <2>1 DEF Code, Abstract!Next, Abstract!Close
<1>10. CASE Deliver
  <2>1. UNCHANGED <<Decided("ok"), Decided("aborted")>>
    BY <1>10, DeliverDecides DEF Code
  <2>2. UNCHANGED <<waiters, Value>>
    BY <1>10 DEF Deliver, Value
  <2>3. QED
    BY <2>1, <2>2 DEF Abstract!vars
<1>11. CASE UNCHANGED vars
  BY <1>2, <1>11 DEF vars
<1>12. QED
  BY <1>3, <1>4, <1>5, <1>7, <1>8, <1>9, <1>10, <1>11 DEF Next

\* The implementation behaves, at every step, as Dijkstra's semaphore does
\* with the value that value() returns, in a program that does not release at INT_MAX.
THEOREM SemaphoreRefinement == SpecBelowLimit => ImplementsCountingSemaphore
<1> DEFINE Below == count >= 0
           Step == Next /\ ~Overflows
           I == Inv /\ Below
<1>1. I /\ [Step]_vars => I' /\ [Abstract!Next]_(Abstract!vars)
  <2>1. [Step]_vars => [Next]_vars
    OBVIOUS
  <2>2. I /\ [Step]_vars => Below'
    BY OnlyByOverflow DEF Overflows, vars
  <2>3. Inv /\ [Step]_vars => Inv' /\ TypeInv'
    BY <2>1, NextInv, NextType
  <2>4. Below /\ Below' /\ [Step]_vars => [Next /\ count' >= 0]_vars
    OBVIOUS
  <2>5. QED
    BY <2>2, <2>3, <2>4, NextRefines
<1>2. Init => I
  BY InitInv, CoreAssumption DEF Init, CoreInit
<1>3. SpecBelowLimit <=> Init /\ [][Step]_vars
  BY DEF SpecBelowLimit
<1> HIDE DEF I, Step
<1>4. QED
  BY <1>1, <1>2, <1>3, InitRefines, PTL DEF ImplementsCountingSemaphore, Abstract!Spec

-----------------------------------------------------------------------------
(***************************************************************************)
(* The safety part of NoOrphan: once the semaphore is destroyed only       *)
(* queued handlers keep an operation from its end, and every step invokes  *)
(* one of them.  Fairness of the executor is what liveness adds.           *)
(***************************************************************************)
NoneLinked == ~alive => waiters = << >>

LEMMA NextNoneLinked == Inv /\ NoneLinked /\ [Next]_vars => NoneLinked'
<1> SUFFICES ASSUME Inv, NoneLinked, [Next]_vars
             PROVE  NoneLinked'
  OBVIOUS
<1>1. ASSUME NEW o \in Ops, Acquire(o)
      PROVE  NoneLinked'
  BY <1>1 DEF Acquire, NoneLinked
<1>2. CASE Take \/ ReleaseOne \/ Flush
  BY <1>2 DEF Take, ReleaseOne, Flush, NoneLinked
<1>3. ASSUME NEW o \in Ops, Cancel(o)
      PROVE  NoneLinked'
  <2>1. waiters # << >>
    BY <1>3, CancelIs
  <2>2. alive' = alive
    BY <1>3 DEF Cancel
  <2>3. QED
    BY <2>1, <2>2 DEF NoneLinked
<1>4. CASE Destroy
  BY <1>4, CompleteAllIs DEF Destroy, Destruct, NoneLinked, Inv, TypeInv, TypeOK, Code
<1>5. CASE Deliver \/ UNCHANGED vars
  BY <1>5 DEF Deliver, vars, NoneLinked
<1>6. QED
  BY <1>1, <1>2, <1>3, <1>4, <1>5 DEF Next

\* The loop of the destructor completes every waiter although complete() shortens the
\* list it walks (async_semaphore_base.hpp:26-31): when the semaphore is gone and the
\* executor's queue is empty, the handler of every operation was invoked.
THEOREM NoneLeftBehind ==
  Spec => [](~alive /\ ready = << >> => \A o \in Ops : ticket[o] # 0 => Invoked(o))
<1>1. Inv /\ NoneLinked /\ [Next]_vars => Inv' /\ NoneLinked'
  BY NextInv, NextNoneLinked
<1>2. Init => NoneLinked
  BY DEF Init, NoneLinked
<1>3. Inv /\ NoneLinked
        => (~alive /\ ready = << >> => \A o \in Ops : ticket[o] # 0 => Invoked(o))
  BY DEF Inv, OnePlace, NoneLinked, Linked, Posted
<1>4. QED
  BY <1>1, <1>2, <1>3, InitInv, PTL DEF Spec

\* Once the semaphore is destroyed every step is the invocation of a queued handler:
\* nothing is queued or linked any more, and so the queue runs empty.
THEOREM DestroyedRunsOut ==
  Spec => [][~alive => ready # << >> /\ ready' = Tail(ready) /\ UNCHANGED <<waiters, alive>>]_vars
<1>1. Inv /\ NoneLinked /\ [Next]_vars => Inv' /\ NoneLinked'
  BY NextInv, NextNoneLinked
<1>2. Init => NoneLinked
  BY DEF Init, NoneLinked
<1>3. Inv /\ NoneLinked /\ [Next]_vars
        => [~alive => ready # << >> /\ ready' = Tail(ready) /\ UNCHANGED <<waiters, alive>>]_vars
  <2> SUFFICES ASSUME Inv, NoneLinked, Next, ~alive
               PROVE  ready # << >> /\ ready' = Tail(ready) /\ UNCHANGED <<waiters, alive>>
    OBVIOUS
  <2>1. \A o \in Ops : ~Cancel(o)
    BY CancelIs DEF NoneLinked
  <2>2. Deliver
    BY <2>1 DEF Next, Acquire, Take, ReleaseOne, Flush, Destroy
  <2>3. QED
    BY <2>2 DEF Deliver
<1>4. QED
  BY <1>1, <1>2, <1>3, InitInv, PTL DEF Spec

-----------------------------------------------------------------------------
(***************************************************************************)
(* NoOrphan itself, from what it needs of the executor: a handler is not   *)
(* queued for ever without being invoked.  (That is weak fairness, with    *)
(* "queued" in the place of ENABLED, for each handler of a queue that      *)
(* nobody overtakes.)                                                      *)
(***************************************************************************)
Handled(o) == []<>~Posted(o) \/ []<><<Deliver /\ Head(ready).op = o>>_vars

\* The destruction leaves no operation behind (async_semaphore.hpp:104-106): its handler
\* is invoked, if the executor invokes those that are queued.
THEOREM NoOrphanHolds ==
  Spec /\ (\A o \in Ops : Handled(o)) => NoOrphan
<1>1. ASSUME NEW o \in Ops
      PROVE  Spec /\ Handled(o) => ((~alive /\ ticket[o] # 0) ~> (outcome[o] # None))
  <2> DEFINE I == Inv /\ NoneLinked
             Waits == ~alive /\ ticket[o] # 0
             Over == outcome[o] # None
  <2>1. Spec => []I
    <3>1. I /\ [Next]_vars => I'
      BY NextInv, NextNoneLinked
    <3>2. Init => I
      BY InitInv DEF Init, NoneLinked
    <3>3. QED
      BY <3>1, <3>2, PTL DEF Spec
  <2>2. I /\ Waits => Posted(o) \/ Over
    BY DEF Inv, OnePlace, NoneLinked, Linked, Posted, Invoked
  \* The semaphore does not come back, and no operation is called twice.
  <2>3. I /\ Waits /\ [Next]_vars => Waits'
    <3> SUFFICES ASSUME I, Waits, [Next]_vars
                 PROVE  ~alive' /\ ticket'[o] = ticket[o]
      OBVIOUS
    <3>1. ~Take /\ ~ReleaseOne /\ ~Flush /\ ~Destroy /\ \A p \in Ops : ~Acquire(p)
      BY DEF Take, ReleaseOne, Flush, Destroy, Acquire
    <3>2. CASE \E p \in Ops : Cancel(p)
      BY <3>2 DEF Cancel, history
    <3>3. CASE Deliver \/ UNCHANGED vars
      BY <3>3 DEF Deliver, vars, history
    <3>4. QED
      BY <3>1, <3>2, <3>3 DEF Next
  <2>4. I /\ <<Deliver /\ Head(ready).op = o>>_vars => Over'
    <3> SUFFICES ASSUME I, Deliver, Head(ready).op = o
                 PROVE  outcome'[o] # None
      OBVIOUS
    <3>1. Head(ready).ec \in Code /\ outcome'[o] = Head(ready).ec
      BY TailMoves DEF Inv, OnePlace, TypeInv, TypeOK, CoreInv, Deliver, Handlers
    <3>2. QED
      BY <3>1 DEF Code, None
  <2>5. QED
    BY <2>1, <2>2, <2>3, <2>4, PTL DEF Spec, Handled
<1>2. QED
  BY <1>1 DEF NoOrphan
=============================================================================
