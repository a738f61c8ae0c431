------------------------ MODULE SemaphoreCoreProofs ------------------------
(***************************************************************************)
(* Facts about the operators of SemaphoreCore, for the proofs about the    *)
(* modules of its clients: what removing a waiter leaves, and that every   *)
(* operation of the semaphore keeps its state well typed.                  *)
(***************************************************************************)
EXTENDS SemaphoreCore, SequenceTheorems, WellFoundedInduction, TLAPS

\* Unlinking the i-th element keeps the others in order.
LEMMA RemoveAtProperties ==
  ASSUME NEW S, NEW s \in Seq(S), NEW i \in 1 .. Len(s)
  PROVE  /\ RemoveAt(s, i) \in Seq(S)
         /\ Len(RemoveAt(s, i)) = Len(s) - 1
         /\ \A k \in 1 .. Len(s) - 1 :
              RemoveAt(s, i)[k] = IF k < i THEN s[k] ELSE s[k + 1]
<1> DEFINE a == SubSeq(s, 1, i - 1)
           b == SubSeq(s, i + 1, Len(s))
<1>1. Len(s) \in Nat /\ i \in Int /\ \A k \in 1 .. Len(s) : s[k] \in S
  BY LenProperties, ElementOfSeq
<1>2. /\ a \in Seq(S)
      /\ Len(a) = i - 1
      /\ \A k \in 1 .. i - 1 : a[k] = s[k]
  <2>1. \A k \in 1 .. i - 1 : s[k] \in S
    BY <1>1
  <2>2. /\ a \in Seq(S)
        /\ Len(a) = IF 1 <= i - 1 THEN i - 1 - 1 + 1 ELSE 0
        /\ \A k \in 1 .. i - 1 - 1 + 1 : a[k] = s[1 + k - 1]
    BY <1>1, <2>1, SubSeqProperties
  <2>3. QED
    BY <1>1, <2>2
<1>3. /\ b \in Seq(S)
      /\ Len(b) = Len(s) - i
      /\ \A k \in 1 .. Len(s) - i : b[k] = s[i + k]
  <2>1. \A k \in i + 1 .. Len(s) : s[k] \in S
    BY <1>1
  <2>2. /\ b \in Seq(S)
        /\ Len(b) = IF i + 1 <= Len(s) THEN Len(s) - (i + 1) + 1 ELSE 0
        /\ \A k \in 1 .. Len(s) - (i + 1) + 1 : b[k] = s[i + 1 + k - 1]
    BY <1>1, <2>1, SubSeqProperties
  <2>3. QED
    BY <1>1, <2>2
<1> HIDE DEF a, b
<1>4. /\ a \o b \in Seq(S)
      /\ Len(a \o b) = Len(a) + Len(b)
      /\ \A k \in 1 .. Len(a) + Len(b) :
           (a \o b)[k] = IF k <= Len(a) THEN a[k] ELSE b[k - Len(a)]
  BY <1>2, <1>3, ConcatProperties
<1>5. RemoveAt(s, i) = a \o b
  BY DEF RemoveAt, a, b
<1>6. Len(a \o b) = Len(s) - 1
  BY <1>1, <1>2, <1>3, <1>4
<1>7. ASSUME NEW k \in 1 .. Len(s) - 1
      PROVE  (a \o b)[k] = IF k < i THEN s[k] ELSE s[k + 1]
  <2>1. (a \o b)[k] = IF k <= i - 1 THEN a[k] ELSE b[k - (i - 1)]
    BY <1>1, <1>2, <1>3, <1>4
  <2>2. CASE k < i
    BY <1>1, <1>2, <2>1, <2>2
  <2>3. CASE ~(k < i)
    <3>1. k - (i - 1) \in 1 .. Len(s) - i
      BY <1>1, <2>3
    <3>2. i + (k - (i - 1)) = k + 1 /\ ~(k < i) /\ ~(k <= i - 1)
      BY <1>1, <2>3
    <3>3. QED
      BY <1>3, <2>1, <3>1, <3>2
  <2>4. QED
    BY <2>2, <2>3
<1>8. QED
  BY <1>4, <1>5, <1>6, <1>7

\* Removing the first element leaves the tail.
LEMMA RemoveHead ==
  ASSUME NEW S, NEW s \in Seq(S), s # << >>
  PROVE  RemoveAt(s, 1) = Tail(s)
<1>1. Len(s) \in Nat \ {0} /\ 1 \in 1 .. Len(s)
  BY EmptySeq, LenProperties
<1>2. /\ Tail(s) \in Seq(S)
      /\ Len(Tail(s)) = Len(s) - 1
      /\ \A k \in 1 .. Len(Tail(s)) : Tail(s)[k] = s[k + 1]
  BY HeadTailProperties
<1>3. /\ RemoveAt(s, 1) \in Seq(S)
      /\ Len(RemoveAt(s, 1)) = Len(s) - 1
      /\ \A k \in 1 .. Len(s) - 1 : RemoveAt(s, 1)[k] = IF k < 1 THEN s[k] ELSE s[k + 1]
  BY <1>1, RemoveAtProperties
<1> DEFINE r == RemoveAt(s, 1)
           t == Tail(s)
<1>4. r \in Seq(S) /\ t \in Seq(S) /\ Len(r) = Len(t)
  BY <1>2, <1>3
<1>5. \A k \in 1 .. Len(r) : r[k] = t[k]
  BY <1>1, <1>2, <1>3
<1> HIDE DEF r, t
<1>6. r = t
  BY <1>4, <1>5, SeqEqual
<1>7. QED
  BY <1>6 DEF r, t

\* A set of numbers has a least element, where two solutions of a recursive
\* definition would first differ.
LEMMA Least ==
  ASSUME NEW T \in SUBSET Nat, T # {}
  PROVE  \E m \in T : \A k \in T : m <= k
<1> DEFINE R == OpToRel(<, Nat)
<1>1. IsWellFoundedOn(R, Nat)
  BY NatLessThanWellFounded, Zenon
<1>2. \A x, y \in Nat : y < x => <<y, x>> \in R
  BY Zenon DEF OpToRel
<1> HIDE DEF R
<1>3. PICK m \in T : \A y \in T : ~ (<<y, m>> \in R)
  BY <1>1, WFMin, Zenon
<1>4. \A y \in T : ~ (y < m)
  BY <1>2, <1>3
<1>5. QED
  BY <1>4

-----------------------------------------------------------------------------
(***************************************************************************)
(* The inductive invariant of the semaphore's own state: operations wait   *)
(* only while the count is zero.  It survives the overflow of ++count_,    *)
(* which happens when nobody waits and makes the count negative.           *)
(***************************************************************************)
Handlers == [op : Ops, ec : Code]

CoreInv ==
  /\ CoreTypeOK
  /\ count # 0 => waiters = << >>

\* A handler bound to a code is a handler.
LEMMA CompletionType ==
  ASSUME NEW o \in Ops, NEW ec \in Code
  PROVE  Completion(o, ec) \in Handlers
BY DEF Completion, Handlers

\* What completing one waiter does to the two queues.
LEMMA CompleteAtEffect ==
  ASSUME CoreTypeOK, NEW i \in DOMAIN waiters, NEW ec \in Code, CompleteAt(i, ec)
  PROVE  /\ waiters[i] \in Ops
         /\ waiters' \in Seq(Ops)
         /\ Len(waiters') = Len(waiters) - 1
         /\ \A k \in 1 .. Len(waiters) - 1 :
              waiters'[k] = IF k < i THEN waiters[k] ELSE waiters[k + 1]
         /\ ready' \in Seq(Handlers)
         /\ Len(ready') = Len(ready) + 1
         /\ \A k \in 1 .. Len(ready) : ready'[k] = ready[k]
         /\ ready'[Len(ready) + 1] = Completion(waiters[i], ec)
<1>1. waiters \in Seq(Ops) /\ ready \in Seq(Handlers) /\ i \in 1 .. Len(waiters)
  BY LenProperties DEF CoreTypeOK, Handlers
<1>2. waiters[i] \in Ops
  BY <1>1, ElementOfSeq
<1>3. Completion(waiters[i], ec) \in Handlers
  BY <1>2, CompletionType
<1>4. /\ waiters' \in Seq(Ops)
      /\ Len(waiters') = Len(waiters) - 1
      /\ \A k \in 1 .. Len(waiters) - 1 :
           waiters'[k] = IF k < i THEN waiters[k] ELSE waiters[k + 1]
  BY <1>1, RemoveAtProperties DEF CompleteAt
<1>5. ready' = Append(ready, Completion(waiters[i], ec))
  BY DEF CompleteAt
<1>6. QED
  BY <1>1, <1>2, <1>3, <1>4, <1>5, AppendProperties, LenProperties

\* The front of what is left of a sequence without its first k - 1 elements.
LEMMA Shortened ==
  ASSUME NEW S, NEW s \in Seq(S), NEW k \in 1 .. Len(s)
  PROVE  /\ SubSeq(s, k, Len(s)) # << >>
         /\ SubSeq(s, k, Len(s))[1] = s[k]
         /\ RemoveAt(SubSeq(s, k, Len(s)), 1) = SubSeq(s, k + 1, Len(s))
<1> DEFINE rest == SubSeq(s, k, Len(s))
<1>1. Len(s) \in Nat /\ k \in Int /\ Len(s) \in k .. Len(s) /\ \A i \in k .. Len(s) : s[i] \in S
  BY LenProperties, ElementOfSeq
<1>2. rest \in Seq(S) /\ Len(rest) = Len(s) - k + 1
  BY <1>1, SubSeqProperties
<1>3. Head(rest) = s[k] /\ Tail(rest) = SubSeq(s, k + 1, Len(s))
  BY <1>1, HeadTailOfSubSeq
<1> HIDE DEF rest
<1>4. rest # << >>
  BY <1>1, <1>2, EmptySeq
<1>5. rest[1] = Head(rest) /\ RemoveAt(rest, 1) = Tail(rest)
  BY <1>2, <1>4, RemoveHead
<1>6. QED
  BY <1>3, <1>4, <1>5 DEF rest

\* A handler more of a batch behind those of the queue.
LEMMA Lengthened ==
  ASSUME NEW S, NEW q \in Seq(S), NEW batch \in Seq(S), NEW k \in 1 .. Len(batch)
  PROVE  Append(q \o SubSeq(batch, 1, k - 1), batch[k]) = q \o SubSeq(batch, 1, k)
<1> DEFINE old == SubSeq(batch, 1, k - 1)
<1>1. Len(batch) \in Nat /\ k \in Int /\ 1 \in 1 .. Len(batch) /\ k \in 1 .. Len(batch)
      /\ \A i \in 1 .. k - 1 : batch[i] \in S
  BY LenProperties, ElementOfSeq
<1>2. old \in Seq(S) /\ batch[k] \in S
  BY <1>1, SubSeqProperties, ElementOfSeq
<1>3. SubSeq(batch, 1, k) = old \o <<batch[k]>>
  BY <1>1, SubSeqRecursiveSecond
<1> HIDE DEF old
<1>4. q \o old \in Seq(S) /\ <<batch[k]>> \in Seq(S)
  BY <1>2, ConcatProperties
<1>5. Append(q \o old, batch[k]) = (q \o old) \o <<batch[k]>>
  BY <1>2, <1>4, AppendIsConcat
<1>6. (q \o old) \o <<batch[k]>> = q \o (old \o <<batch[k]>>)
  BY <1>2, <1>4, ConcatAssociative
<1>7. QED
  BY <1>3, <1>5, <1>6 DEF old

\* The loop over the shrinking list, in closed form: it completes every waiter, none
\* twice, in the order of the list.  After k rounds the first k are completed; no
\* other function satisfies the equation of the loop, or there would be a first
\* round where the two differ.
LEMMA CompleteAllIs ==
  ASSUME CoreTypeOK, NEW ec \in Code, CompleteAll(ec)
  PROVE  /\ waiters' = << >>
         /\ ready' = ready \o [i \in DOMAIN waiters |-> Completion(waiters[i], ec)]
<1> DEFINE n == Len(waiters)
           batch == [i \in DOMAIN waiters |-> Completion(waiters[i], ec)]
           Rounds(f) == [k \in 0 .. n |->
                           IF k = 0 THEN [waiters |-> waiters, ready |-> ready]
                           ELSE IF f[k - 1].waiters = << >> THEN f[k - 1]
                           ELSE Completed(f[k - 1], 1, ec)]
           done == [k \in 0 .. n |-> [waiters |-> SubSeq(waiters, k + 1, n),
                                      ready |-> ready \o SubSeq(batch, 1, k)]]
           after == CHOOSE f : f = Rounds(f)
<1>1. /\ waiters \in Seq(Ops) /\ ready \in Seq(Handlers)
      /\ n \in Nat /\ DOMAIN waiters = 1 .. n
  BY LenProperties DEF CoreTypeOK, Handlers
<1>2. batch \in Seq(Handlers) /\ Len(batch) = n
  <2>1. \A k \in 1 .. n : waiters[k] \in Ops /\ batch[k] \in Handlers
    BY <1>1, ElementOfSeq, CompletionType
  <2>2. batch \in [1 .. n -> Handlers]
    BY <1>1, <2>1
  <2>3. batch \in Seq(Handlers)
    BY <1>1, <2>2, SeqDef
  <2>4. QED
    BY <1>1, <2>2, <2>3, LenProperties
<1>3. \A k \in 1 .. n : batch[k] = Completion(waiters[k], ec)
  BY <1>1
<1>4. waiters' = after[n].waiters /\ ready' = after[n].ready
  BY DEF CompleteAll
<1> HIDE DEF batch
<1>5. done[0] = [waiters |-> waiters, ready |-> ready]
  <2>1. SubSeq(waiters, 1, n) = waiters
    BY <1>1, SubSeqFull
  <2>2. SubSeq(batch, 1, 0) = << >> /\ ready \o << >> = ready
    BY <1>1, SubSeqEmpty, ConcatEmptySeq
  <2>3. 0 \in 0 .. n /\ 0 + 1 = 1
    BY <1>1
  <2>4. QED
    BY <2>1, <2>2, <2>3
<1>6. ASSUME NEW k \in 1 .. n
      PROVE  done[k - 1].waiters # << >> /\ done[k] = Completed(done[k - 1], 1, ec)
  <2> DEFINE rest == SubSeq(waiters, k, n)
             q == ready \o SubSeq(batch, 1, k - 1)
  <2>1. k - 1 \in 0 .. n /\ k \in 0 .. n /\ (k - 1) + 1 = k
    BY <1>1
  <2>2. done[k - 1] = [waiters |-> rest, ready |-> q]
    BY <2>1
  <2>3. rest # << >> /\ rest[1] = waiters[k] /\ RemoveAt(rest, 1) = SubSeq(waiters, k + 1, n)
    BY <1>1, Shortened
  <2>4. Append(q, batch[k]) = ready \o SubSeq(batch, 1, k)
    BY <1>1, <1>2, Lengthened
  <2>5. done[k] = [waiters |-> SubSeq(waiters, k + 1, n), ready |-> ready \o SubSeq(batch, 1, k)]
    BY <2>1
  <2>6. batch[k] = Completion(rest[1], ec)
    BY <1>3, <2>3
  <2> HIDE DEF rest, q, done
  <2>7. Completed(done[k - 1], 1, ec)
          = [waiters |-> RemoveAt(rest, 1), ready |-> Append(q, Completion(rest[1], ec))]
    BY <2>2 DEF Completed
  <2>8. done[k] = [waiters |-> RemoveAt(rest, 1), ready |-> Append(q, Completion(rest[1], ec))]
    BY <2>3, <2>4, <2>5, <2>6, Zenon
  <2>9. done[k - 1].waiters = rest
    BY <2>2
  <2>10. QED
    BY <2>3, <2>7, <2>8, <2>9, Zenon
<1>7. done = Rounds(done)
  <2> DEFINE r == Rounds(done)
  <2>1. ASSUME NEW k \in 0 .. n
        PROVE  r[k] = done[k]
    <3>1. CASE k = 0
      BY <1>5, <3>1
    <3>2. CASE k # 0
      <4>1. k \in 1 .. n
        BY <1>1, <3>2
      <4> HIDE DEF done
      <4>2. QED
        BY <1>6, <3>2, <4>1
    <3>3. QED
      BY <3>1, <3>2
  <2>2. r = [k \in 0 .. n |-> r[k]] /\ done = [k \in 0 .. n |-> done[k]]
    OBVIOUS
  <2> HIDE DEF r, done
  <2>3. r = done
    BY <2>1, <2>2, Zenon
  <2>4. QED
    BY <2>3 DEF r
<1> HIDE DEF done
<1>8. after = Rounds(after)
  BY <1>7, Zenon
<1> HIDE DEF after
<1>9. /\ after[0] = [waiters |-> waiters, ready |-> ready]
      /\ \A k \in 1 .. n : after[k] = IF after[k - 1].waiters = << >> THEN after[k - 1]
                                      ELSE Completed(after[k - 1], 1, ec)
  <2>1. \A k \in 0 .. n : after[k] = IF k = 0 THEN [waiters |-> waiters, ready |-> ready]
                                     ELSE IF after[k - 1].waiters = << >> THEN after[k - 1]
                                     ELSE Completed(after[k - 1], 1, ec)
    BY <1>8, Zenon
  <2>2. 0 \in 0 .. n /\ \A k \in 1 .. n : k \in 0 .. n /\ k # 0
    BY <1>1
  <2>3. QED
    BY <2>1, <2>2, Zenon
<1>10. ASSUME NEW k \in 0 .. n, after[k] # done[k]
       PROVE  FALSE
  <2> DEFINE T == {i \in 0 .. n : after[i] # done[i]}
  <2>1. T \in SUBSET Nat /\ T # {}
    BY <1>1, <1>10
  <2>2. PICK m \in T : \A i \in T : m <= i
    BY <2>1, Least, Zenon
  <2>3. m \in 1 .. n /\ after[m] # done[m]
    BY <1>1, <1>5, <1>9, <2>2
  <2>4. m - 1 \in 0 .. n /\ m - 1 \notin T
    BY <1>1, <2>2, <2>3
  <2>5. after[m - 1] = done[m - 1]
    BY <2>4
  <2>6. QED
    BY <1>6, <1>9, <2>3, <2>5
<1>11. after[n] = done[n]
  BY <1>1, <1>10
<1>12. done[n] = [waiters |-> << >>, ready |-> ready \o batch]
  <2>1. SubSeq(waiters, n + 1, n) = << >>
    BY <1>1, SubSeqEmpty
  <2>2. SubSeq(batch, 1, n) = batch
    BY <1>2, SubSeqFull
  <2>3. n \in 0 .. n
    BY <1>1
  <2>4. done[n] = [waiters |-> SubSeq(waiters, n + 1, n), ready |-> ready \o SubSeq(batch, 1, n)]
    BY <2>3, Zenon DEF done
  <2>5. QED
    BY <2>1, <2>2, <2>4, Zenon
<1>13. QED
  BY <1>4, <1>11, <1>12 DEF batch

\* What completing every waiter does to them.
LEMMA CompleteAllEffect ==
  ASSUME CoreTypeOK, NEW ec \in Code, CompleteAll(ec)
  PROVE  /\ waiters' = << >>
         /\ ready' \in Seq(Handlers)
         /\ Len(ready') = Len(ready) + Len(waiters)
         /\ \A k \in 1 .. Len(ready) : ready'[k] = ready[k]
         /\ \A k \in 1 .. Len(waiters) :
              /\ ready'[Len(ready) + k] = Completion(waiters[k], ec)
              /\ waiters[k] \in Ops
<1> DEFINE batch == [k \in DOMAIN waiters |-> Completion(waiters[k], ec)]
<1>1. /\ waiters \in Seq(Ops)
      /\ ready \in Seq(Handlers)
      /\ Len(waiters) \in Nat
      /\ Len(ready) \in Nat
      /\ DOMAIN waiters = 1 .. Len(waiters)
  BY LenProperties DEF CoreTypeOK, Handlers
<1>2. \A k \in 1 .. Len(waiters) : waiters[k] \in Ops /\ batch[k] \in Handlers
  BY <1>1, ElementOfSeq, CompletionType
<1>3. batch \in Seq(Handlers) /\ Len(batch) = Len(waiters)
  <2>1. batch \in [1 .. Len(waiters) -> Handlers]
    BY <1>1, <1>2
  <2>2. batch \in Seq(Handlers)
    BY <1>1, <2>1, SeqDef
  <2>3. QED
    BY <1>1, <2>1, <2>2, LenProperties
<1>4. \A k \in 1 .. Len(waiters) : batch[k] = Completion(waiters[k], ec)
  BY <1>1
<1>5. ready' = ready \o batch /\ waiters' = << >>
  BY CompleteAllIs
<1> HIDE DEF batch
<1>6. /\ ready' \in Seq(Handlers)
      /\ Len(ready') = Len(ready) + Len(batch)
      /\ \A k \in 1 .. Len(ready) + Len(batch) :
           ready'[k] = IF k <= Len(ready) THEN ready[k] ELSE batch[k - Len(ready)]
  BY <1>1, <1>3, <1>5, ConcatProperties
<1>7. \A k \in 1 .. Len(ready) : ready'[k] = ready[k]
  BY <1>1, <1>3, <1>6
<1>8. ASSUME NEW k \in 1 .. Len(waiters)
      PROVE  ready'[Len(ready) + k] = batch[k]
  <2>1. Len(ready) + k \in 1 .. Len(ready) + Len(batch)
    BY <1>1, <1>3
  <2>2. ~(Len(ready) + k <= Len(ready)) /\ (Len(ready) + k) - Len(ready) = k
    BY <1>1
  <2>3. QED
    BY <1>6, <2>1, <2>2
<1>9. QED
  BY <1>2, <1>3, <1>4, <1>5, <1>6, <1>7, <1>8

-----------------------------------------------------------------------------
(***************************************************************************)
(* Every operation of the semaphore keeps CoreInv.                         *)
(***************************************************************************)
\* Arithmetic of the count: a decrement undoes an increment even when it wrapped.
LEMMA CountArithmetic ==
  ASSUME count \in (-MaxInt - 1) .. MaxInt
  PROVE  /\ Incremented(count) \in (-MaxInt - 1) .. MaxInt
         /\ Decremented(count) \in (-MaxInt - 1) .. MaxInt
         /\ Decremented(Incremented(count)) = count
         /\ count < MaxInt => Incremented(count) = count + 1
         /\ count > 0 => Decremented(count) = count - 1
BY CoreAssumption DEF Incremented, Decremented

LEMMA InitCore == CoreInit => CoreInv
BY CoreAssumption, EmptySeq DEF CoreInit, CoreInv, CoreTypeOK

\* async_acquire, whatever handlers are queued when it is called.
LEMMA AcquireKeepsCore ==
  ASSUME CoreInv, NEW o \in Ops, NEW q \in Seq(Handlers), AsyncAcquire(o, q)
  PROVE  CoreInv' /\ (count >= 0 => count' >= 0)
<1>1. Completion(o, "ok") \in Handlers
  BY CompletionType DEF Code
<1>2. Append(q, Completion(o, "ok")) \in Seq(Handlers)
  BY <1>1, AppendProperties
<1>3. Append(waiters, o) \in Seq(Ops)
  BY AppendProperties DEF CoreInv, CoreTypeOK
<1>4. CASE count # 0
  <2>1. count \in (-MaxInt - 1) .. MaxInt /\ waiters = << >>
    BY <1>4 DEF CoreInv, CoreTypeOK
  <2>2. /\ count' = Decremented(count)
        /\ waiters' = waiters
        /\ ready' = Append(q, Completion(o, "ok"))
    BY <1>4 DEF AsyncAcquire
  <2>3. count' \in (-MaxInt - 1) .. MaxInt /\ (count >= 0 => count' >= 0)
    BY <1>4, <2>1, <2>2, CountArithmetic, CoreAssumption
  <2>4. QED
    BY <1>2, <2>1, <2>2, <2>3 DEF CoreInv, CoreTypeOK, Handlers
<1>5. CASE count = 0
  <2>1. count' = 0 /\ waiters' = Append(waiters, o) /\ ready' = q
    BY <1>5 DEF AsyncAcquire
  <2>2. QED
    BY <1>3, <1>5, <2>1 DEF CoreInv, CoreTypeOK, Handlers
<1>6. QED
  BY <1>4, <1>5

\* try_acquire
LEMMA TakeKeepsCore ==
  ASSUME CoreInv, TryAcquire
  PROVE  CoreInv' /\ count' >= 0
BY CoreAssumption DEF CoreInv, CoreTypeOK, TryAcquire

\* release, which makes the count negative by the overflow alone
LEMMA ReleaseKeepsCore ==
  ASSUME CoreInv, Release
  PROVE  CoreInv' /\ (count >= 0 => count' >= 0 \/ (count = MaxInt /\ waiters = << >>))
<1>1. count \in (-MaxInt - 1) .. MaxInt
  BY DEF CoreInv, CoreTypeOK
<1>2. CASE waiters = << >>
  <2>1. count' = Incremented(count) /\ count' \in (-MaxInt - 1) .. MaxInt
    BY <1>1, <1>2, CountArithmetic DEF Release
  <2>2. waiters' = << >> /\ ready' = ready
    BY <1>2 DEF Release
  <2>3. count >= 0 => count' >= 0 \/ count = MaxInt
    BY <1>1, <2>1, CountArithmetic, CoreAssumption
  <2>4. QED
    BY <1>2, <2>1, <2>2, <2>3 DEF CoreInv, CoreTypeOK
<1>3. CASE waiters # << >>
  <2>1. 1 \in DOMAIN waiters /\ "ok" \in Code
    BY <1>3, EmptySeq, LenProperties DEF CoreInv, CoreTypeOK, Code
  <2>2. count' = count /\ CompleteAt(1, "ok")
    BY <1>1, <1>3, CountArithmetic DEF Release
  <2>3. waiters' \in Seq(Ops) /\ ready' \in Seq(Handlers)
    BY <2>1, <2>2, CompleteAtEffect DEF CoreInv
  <2>4. count = 0
    BY <1>3 DEF CoreInv
  <2>5. QED
    BY <1>1, <2>2, <2>3, <2>4 DEF CoreInv, CoreTypeOK, Handlers
<1>4. QED
  BY <1>2, <1>3

\* The cancellation of a waiter
LEMMA CancelKeepsCore ==
  ASSUME CoreInv, NEW i \in DOMAIN waiters, CancelAt(i)
  PROVE  CoreInv'
<1>1. waiters' \in Seq(Ops) /\ ready' \in Seq(Handlers)
  BY CompleteAtEffect DEF CoreInv, CancelAt, Code
<1>2. count' = count /\ count = 0
  <2>1. waiters # << >>
    BY EmptySeq, LenProperties DEF CoreInv, CoreTypeOK
  <2>2. QED
    BY <2>1, CoreAssumption DEF CoreInv, CoreTypeOK, CancelAt
<1>3. QED
  BY <1>1, <1>2 DEF CoreInv, CoreTypeOK, Handlers

\* release_all and the destructor
LEMMA CompleteAllKeepsCore ==
  ASSUME CoreInv, NEW ec \in Code, CompleteAll(ec), UNCHANGED count
  PROVE  CoreInv'
<1>1. waiters' = << >> /\ ready' \in Seq(Handlers)
  BY CompleteAllEffect DEF CoreInv
<1>2. QED
  BY <1>1, EmptySeq DEF CoreInv, CoreTypeOK, Handlers

\* The executor takes the handler at the front of its queue.
LEMMA PopKeepsCore ==
  ASSUME CoreInv, ready # << >>, ready' = Tail(ready), UNCHANGED <<count, waiters>>
  PROVE  CoreInv'
<1>1. ready \in Seq(Handlers) => Tail(ready) \in Seq(Handlers)
  BY HeadTailProperties
<1>2. QED
  BY <1>1 DEF CoreInv, CoreTypeOK, Handlers

-----------------------------------------------------------------------------
(***************************************************************************)
(* Where an operation is: how each step moves operations between the       *)
(* waiters and the queued handlers.                                        *)
(***************************************************************************)
\* Linked and Posted in terms of positions.
LEMMA Places ==
  ASSUME CoreTypeOK
  PROVE  /\ Len(waiters) \in Nat /\ DOMAIN waiters = 1 .. Len(waiters)
         /\ Len(ready) \in Nat /\ DOMAIN ready = 1 .. Len(ready)
         /\ \A i \in DOMAIN waiters : waiters[i] \in Ops /\ Linked(waiters[i])
         /\ \A i \in DOMAIN ready : ready[i] \in Handlers /\ Posted(ready[i].op)
<1>1. waiters \in Seq(Ops) /\ ready \in Seq(Handlers)
  BY DEF CoreTypeOK, Handlers
<1>2. QED
  BY <1>1, LenProperties, ElementOfSeq DEF Linked, Posted

\* Completing a waiter moves it from one queue to the other.
LEMMA CompleteAtMoves ==
  ASSUME CoreTypeOK, LinkedOnce, PostedOnce,
         \A o \in Ops : Linked(o) => ~Posted(o),
         NEW i \in DOMAIN waiters, NEW ec \in Code, CompleteAt(i, ec)
  PROVE  /\ LinkedOnce' /\ PostedOnce'
         /\ \A o \in Ops : /\ Linked(o)' <=> Linked(o) /\ o # waiters[i]
                           /\ Posted(o)' <=> Posted(o) \/ o = waiters[i]
<1> DEFINE w == waiters[i]
           n == Len(waiters)
           m == Len(ready)
<1>1. /\ n \in Nat /\ DOMAIN waiters = 1 .. n
      /\ m \in Nat /\ DOMAIN ready = 1 .. m
      /\ w \in Ops /\ Linked(w) /\ ~Posted(w)
  BY Places
<1>2. /\ Len(waiters') = n - 1 /\ DOMAIN waiters' = 1 .. n - 1
      /\ Len(ready') = m + 1 /\ DOMAIN ready' = 1 .. m + 1
      /\ \A k \in 1 .. n - 1 : waiters'[k] = IF k < i THEN waiters[k] ELSE waiters[k + 1]
      /\ \A k \in 1 .. m : ready'[k] = ready[k]
      /\ ready'[m + 1] = Completion(w, ec)
  <2>1. waiters' \in Seq(Ops) /\ ready' \in Seq(Handlers)
    BY CompleteAtEffect
  <2>2. DOMAIN waiters' = 1 .. Len(waiters') /\ DOMAIN ready' = 1 .. Len(ready')
    BY <2>1, LenProperties
  <2>3. QED
    BY <2>2, CompleteAtEffect
<1>3. ready'[m + 1].op = w
  BY <1>2 DEF Completion
<1> DEFINE old(k) == IF k < i THEN k ELSE k + 1
<1>4. \A k \in 1 .. n - 1 : /\ old(k) \in 1 .. n
                            /\ old(k) # i
                            /\ waiters'[k] = waiters[old(k)]
  BY <1>1, <1>2
<1>5. \A k \in 1 .. n : k # i => \E j \in 1 .. n - 1 : old(j) = k
  <2> SUFFICES ASSUME NEW k \in 1 .. n, k # i
               PROVE  \E j \in 1 .. n - 1 : old(j) = k
    OBVIOUS
  <2>1. CASE k < i
    <3>1. k \in 1 .. n - 1 /\ old(k) = k
      BY <1>1, <2>1
    <3>2. QED
      BY <3>1
  <2>2. CASE ~(k < i)
    <3>1. k - 1 \in 1 .. n - 1 /\ old(k - 1) = k
      BY <1>1, <2>2
    <3>2. QED
      BY <3>1
  <2>3. QED
    BY <2>1, <2>2
<1>6. \A j, k \in 1 .. n - 1 : old(j) = old(k) => j = k
  BY <1>1
<1> HIDE DEF old, n, m
<1>7. LinkedOnce'
  <2> SUFFICES ASSUME NEW j \in 1 .. n - 1, NEW k \in 1 .. n - 1, waiters'[j] = waiters'[k]
               PROVE  j = k
    BY <1>2 DEF LinkedOnce
  <2>1. waiters[old(j)] = waiters[old(k)]
    BY <1>4
  <2>2. old(j) = old(k)
    BY <1>1, <1>4, <2>1 DEF LinkedOnce
  <2>3. QED
    BY <1>6, <2>2
<1>8. PostedOnce'
  <2> SUFFICES ASSUME NEW j \in 1 .. m + 1, NEW k \in 1 .. m + 1, ready'[j].op = ready'[k].op
               PROVE  j = k
    BY <1>2 DEF PostedOnce
  <2>1. \A l \in 1 .. m : ready[l].op # w
    BY <1>1 DEF Posted
  <2>2. CASE j \in 1 .. m /\ k \in 1 .. m
    BY <1>1, <1>2, <2>2 DEF PostedOnce
  <2>3. CASE j = m + 1 \/ k = m + 1
    BY <1>1, <1>2, <1>3, <2>1, <2>3
  <2>4. QED
    BY <1>1, <2>2, <2>3
<1>9. ASSUME NEW o \in Ops
      PROVE  Linked(o)' <=> Linked(o) /\ o # w
  <2>1. ASSUME NEW k \in 1 .. n - 1, waiters'[k] = o
        PROVE  Linked(o) /\ o # w
    <3>1. old(k) \in 1 .. n /\ old(k) # i /\ waiters[old(k)] = o
      BY <1>4, <2>1
    <3>2. QED
      BY <1>1, <3>1 DEF Linked, LinkedOnce
  <2>2. ASSUME NEW k \in 1 .. n, waiters[k] = o, o # w
        PROVE  Linked(o)'
    <3>1. PICK j \in 1 .. n - 1 : old(j) = k
      BY <1>5, <2>2
    <3>2. waiters'[j] = o
      BY <1>4, <2>2, <3>1
    <3>3. QED
      BY <1>2, <3>2 DEF Linked
  <2>3. QED
    BY <1>1, <1>2, <2>1, <2>2 DEF Linked
<1>10. ASSUME NEW o \in Ops
       PROVE  Posted(o)' <=> Posted(o) \/ o = w
  <2>1. Posted(o) => Posted(o)'
    BY <1>1, <1>2 DEF Posted
  <2>2. o = w => Posted(o)'
    BY <1>1, <1>2, <1>3 DEF Posted
  <2>3. ASSUME NEW k \in 1 .. m + 1, ready'[k].op = o, k # m + 1
        PROVE  Posted(o)
    <3>1. k \in 1 .. m
      BY <1>1, <2>3
    <3>2. ready[k].op = o
      BY <1>2, <2>3, <3>1
    <3>3. QED
      BY <1>1, <3>1, <3>2 DEF Posted
  <2>4. QED
    BY <1>1, <1>2, <1>3, <2>1, <2>2, <2>3 DEF Posted
<1>11. QED
  BY <1>7, <1>8, <1>9, <1>10

\* Completing every waiter queues the handler of each.
LEMMA CompleteAllMoves ==
  ASSUME CoreTypeOK, LinkedOnce, PostedOnce,
         \A o \in Ops : Linked(o) => ~Posted(o),
         NEW ec \in Code, CompleteAll(ec)
  PROVE  /\ LinkedOnce' /\ PostedOnce'
         /\ \A o \in Ops : /\ ~Linked(o)'
                           /\ Posted(o)' <=> Posted(o) \/ Linked(o)
<1> DEFINE n == Len(waiters)
           m == Len(ready)
<1>1. /\ n \in Nat /\ DOMAIN waiters = 1 .. n
      /\ m \in Nat /\ DOMAIN ready = 1 .. m
      /\ \A k \in 1 .. n : waiters[k] \in Ops /\ Linked(waiters[k])
  BY Places
<1>2. /\ waiters' = << >> /\ DOMAIN waiters' = {}
      /\ DOMAIN ready' = 1 .. m + n
      /\ \A k \in 1 .. m : ready'[k] = ready[k]
      /\ \A k \in 1 .. n : ready'[m + k].op = waiters[k]
  <2>1. /\ waiters' = << >>
        /\ ready' \in Seq(Handlers)
        /\ Len(ready') = m + n
        /\ \A k \in 1 .. m : ready'[k] = ready[k]
        /\ \A k \in 1 .. n : ready'[m + k] = Completion(waiters[k], ec)
    BY CompleteAllEffect
  <2>2. DOMAIN ready' = 1 .. m + n
    BY <2>1, LenProperties
  <2>3. \A k \in 1 .. n : Completion(waiters[k], ec).op = waiters[k]
    BY DEF Completion
  <2>4. DOMAIN waiters' = {}
    BY <2>1
  <2> HIDE DEF n, m
  <2>5. QED
    BY <2>1, <2>2, <2>3, <2>4
<1>3. \A k \in 1 .. m + n : k \in 1 .. m \/ (k - m \in 1 .. n /\ k = m + (k - m))
  BY <1>1
<1> HIDE DEF n, m
<1>4. LinkedOnce'
  BY <1>2 DEF LinkedOnce
<1>5. PostedOnce'
  <2> SUFFICES ASSUME NEW j \in 1 .. m + n, NEW k \in 1 .. m + n, ready'[j].op = ready'[k].op
               PROVE  j = k
    BY <1>2 DEF PostedOnce
  <2>1. \A l \in 1 .. m, q \in 1 .. n : ready[l].op # waiters[q]
    BY <1>1 DEF Posted
  <2>2. CASE j \in 1 .. m /\ k \in 1 .. m
    BY <1>1, <1>2, <2>2 DEF PostedOnce
  <2>3. CASE j \in 1 .. m /\ k \notin 1 .. m
    BY <1>2, <1>3, <2>1, <2>3
  <2>4. CASE j \notin 1 .. m /\ k \in 1 .. m
    BY <1>2, <1>3, <2>1, <2>4
  <2>5. CASE j \notin 1 .. m /\ k \notin 1 .. m
    <3>1. j - m \in 1 .. n /\ k - m \in 1 .. n /\ j = m + (j - m) /\ k = m + (k - m)
      BY <1>3, <2>5
    <3>2. waiters[j - m] = waiters[k - m]
      BY <1>2, <3>1
    <3>3. QED
      BY <1>1, <3>1, <3>2 DEF LinkedOnce
  <2>6. QED
    BY <2>2, <2>3, <2>4, <2>5
<1>6. ASSUME NEW o \in Ops
      PROVE  ~Linked(o)'
  BY <1>2 DEF Linked
<1>7. ASSUME NEW o \in Ops
      PROVE  Posted(o)' <=> Posted(o) \/ Linked(o)
  <2>1. Posted(o) => Posted(o)'
    BY <1>1, <1>2 DEF Posted
  <2>2. ASSUME NEW k \in 1 .. n, waiters[k] = o
        PROVE  Posted(o)'
    <3>1. m + k \in 1 .. m + n
      BY <1>1
    <3>2. QED
      BY <1>2, <2>2, <3>1 DEF Posted
  <2>3. ASSUME NEW k \in 1 .. m + n, ready'[k].op = o
        PROVE  Posted(o) \/ Linked(o)
    <3>1. CASE k \in 1 .. m
      BY <1>1, <1>2, <2>3, <3>1 DEF Posted
    <3>2. CASE k - m \in 1 .. n /\ k = m + (k - m)
      <4>1. waiters[k - m] = o
        BY <1>2, <2>3, <3>2
      <4>2. QED
        BY <1>1, <3>2, <4>1 DEF Linked
    <3>3. QED
      BY <1>3, <3>1, <3>2
  <2>4. QED
    BY <1>1, <1>2, <2>1, <2>2, <2>3 DEF Posted, Linked
<1>8. QED
  BY <1>4, <1>5, <1>6, <1>7

\* The queue of handlers without its first one.
LEMMA TailEffect ==
  ASSUME CoreTypeOK, ready # << >>
  PROVE  /\ Head(ready) = ready[1] /\ 1 \in DOMAIN ready
         /\ Tail(ready) \in Seq(Handlers)
         /\ \A k \in DOMAIN Tail(ready) :
              k + 1 \in DOMAIN ready /\ k + 1 # 1 /\ Tail(ready)[k] = ready[k + 1]
         /\ \A k \in DOMAIN ready :
              k = 1 \/ (k - 1 \in DOMAIN Tail(ready) /\ Tail(ready)[k - 1] = ready[k])
<1> DEFINE m == Len(ready)
<1>1. ready \in Seq(Handlers) /\ m \in Nat \ {0} /\ DOMAIN ready = 1 .. m
  BY EmptySeq, LenProperties DEF CoreTypeOK, Handlers
<1>2. /\ Tail(ready) \in Seq(Handlers)
      /\ DOMAIN Tail(ready) = 1 .. m - 1
      /\ \A k \in 1 .. m - 1 : Tail(ready)[k] = ready[k + 1]
  BY <1>1, HeadTailProperties, LenProperties
<1>3. Head(ready) = ready[1] /\ 1 \in 1 .. m
  BY <1>1
<1>4. \A k \in 1 .. m : k = 1 \/ (k - 1 \in 1 .. m - 1 /\ (k - 1) + 1 = k)
  BY <1>1
<1>5. \A k \in 1 .. m - 1 : k + 1 \in 1 .. m /\ k + 1 # 1
  BY <1>1
<1> HIDE DEF m
<1>6. QED
  BY <1>1, <1>2, <1>3, <1>4, <1>5

\* The operations with a handler in a queue q.
InQueue(q, o) == \E i \in DOMAIN q : q[i].op = o

Once(q) == \A i, j \in DOMAIN q : q[i].op = q[j].op => i = j

\* The operation of the first handler has no other one.
LEMMA TailMoves ==
  ASSUME CoreTypeOK, PostedOnce, ready # << >>
  PROVE  /\ Head(ready) \in Handlers /\ Posted(Head(ready).op)
         /\ Once(Tail(ready))
         /\ \A o \in Ops : InQueue(Tail(ready), o) <=> Posted(o) /\ o # Head(ready).op
<1> DEFINE t == Tail(ready)
           h == Head(ready)
<1>1. /\ h = ready[1] /\ 1 \in DOMAIN ready
      /\ \A k \in DOMAIN t : k + 1 \in DOMAIN ready /\ k + 1 # 1 /\ t[k] = ready[k + 1]
      /\ \A k \in DOMAIN ready : k = 1 \/ (k - 1 \in DOMAIN t /\ t[k - 1] = ready[k])
  BY TailEffect
<1>2. \A j, k \in DOMAIN t : j + 1 = k + 1 => j = k
  <2>1. t \in Seq(Handlers)
    BY TailEffect
  <2>2. \A k \in DOMAIN t : k \in Int
    BY <2>1, LenProperties
  <2> HIDE DEF t
  <2>3. QED
    BY <2>2
<1>3. h \in Handlers /\ Posted(h.op)
  BY <1>1, Places
<1> HIDE DEF t, h
<1>4. Once(t)
  BY <1>1, <1>2 DEF Once, PostedOnce
<1>5. ASSUME NEW o \in Ops
      PROVE  InQueue(t, o) <=> Posted(o) /\ o # h.op
  <2>1. InQueue(t, o) => Posted(o) /\ o # h.op
    BY <1>1 DEF InQueue, Posted, PostedOnce
  <2>2. Posted(o) /\ o # h.op => InQueue(t, o)
    BY <1>1 DEF InQueue, Posted
  <2>3. QED
    BY <2>1, <2>2
<1>6. QED
  BY <1>3, <1>4, <1>5 DEF t, h

\* The executor takes the first handler.
LEMMA DeliverMoves ==
  ASSUME CoreTypeOK, PostedOnce, ready # << >>, ready' = Tail(ready)
  PROVE  /\ Head(ready) \in Handlers /\ Posted(Head(ready).op)
         /\ PostedOnce'
         /\ \A o \in Ops : Posted(o)' <=> Posted(o) /\ o # Head(ready).op
<1>1. PostedOnce' <=> Once(ready')
  BY DEF PostedOnce, Once
<1>2. \A o \in Ops : Posted(o)' <=> InQueue(ready', o)
  BY DEF Posted, InQueue
<1>3. QED
  BY <1>1, <1>2, TailMoves

\* Appending to the waiters or to the handlers an operation that is in neither.
LEMMA AcquireMoves ==
  ASSUME CoreTypeOK, LinkedOnce, NEW q \in Seq(Handlers), Once(q),
         NEW o \in Ops, ~Linked(o), ~InQueue(q, o), AsyncAcquire(o, q)
  PROVE  /\ LinkedOnce' /\ PostedOnce'
         /\ \/ /\ count # 0
               /\ \A p \in Ops : /\ Linked(p)' <=> Linked(p)
                                 /\ Posted(p)' <=> InQueue(q, p) \/ p = o
            \/ /\ count = 0
               /\ \A p \in Ops : /\ Linked(p)' <=> Linked(p) \/ p = o
                                 /\ Posted(p)' <=> InQueue(q, p)
<1> DEFINE n == Len(waiters)
           m == Len(q)
<1>1. /\ n \in Nat /\ DOMAIN waiters = 1 .. n
      /\ m \in Nat /\ DOMAIN q = 1 .. m
  BY Places, LenProperties
<1>2. waiters \in Seq(Ops) /\ Completion(o, "ok") \in Handlers
  BY CompletionType DEF CoreTypeOK, Handlers, Code
<1>3. CASE count # 0
  <2>1. waiters' = waiters /\ ready' = Append(q, Completion(o, "ok"))
    BY <1>3 DEF AsyncAcquire
  <2>2. /\ DOMAIN ready' = 1 .. m + 1
        /\ \A k \in 1 .. m : ready'[k] = q[k]
        /\ ready'[m + 1].op = o
    BY <1>1, <1>2, <2>1, AppendProperties, LenProperties DEF Completion
  <2>3. \A k \in 1 .. m + 1 : k \in 1 .. m \/ k = m + 1
    BY <1>1
  <2>4. \A k \in 1 .. m : k \in 1 .. m + 1 /\ q[k].op # o
    BY <1>1 DEF InQueue
  <2>5. m + 1 \in 1 .. m + 1
    BY <1>1
  <2> HIDE DEF n, m
  <2>6. PostedOnce'
    BY <1>1, <2>2, <2>3, <2>4 DEF PostedOnce, Once
  <2>7. LinkedOnce' /\ \A p \in Ops : Linked(p)' <=> Linked(p)
    BY <2>1 DEF LinkedOnce, Linked
  <2>8. ASSUME NEW p \in Ops
        PROVE  Posted(p)' <=> InQueue(q, p) \/ p = o
    BY <1>1, <2>2, <2>3, <2>4, <2>5 DEF Posted, InQueue
  <2>9. QED
    BY <1>3, <2>6, <2>7, <2>8
<1>4. CASE count = 0
  <2>1. waiters' = Append(waiters, o) /\ ready' = q
    BY <1>4 DEF AsyncAcquire
  <2>2. /\ DOMAIN waiters' = 1 .. n + 1
        /\ \A k \in 1 .. n : waiters'[k] = waiters[k]
        /\ waiters'[n + 1] = o
    BY <1>1, <1>2, <2>1, AppendProperties, LenProperties
  <2>3. \A k \in 1 .. n + 1 : k \in 1 .. n \/ k = n + 1
    BY <1>1
  <2>4. \A k \in 1 .. n : k \in 1 .. n + 1 /\ waiters[k] # o
    BY <1>1 DEF Linked
  <2>5. n + 1 \in 1 .. n + 1
    BY <1>1
  <2> HIDE DEF n, m
  <2>6. LinkedOnce'
    BY <1>1, <2>2, <2>3, <2>4 DEF LinkedOnce
  <2>7. PostedOnce' /\ \A p \in Ops : Posted(p)' <=> InQueue(q, p)
    BY <2>1 DEF PostedOnce, Posted, Once, InQueue
  <2>8. ASSUME NEW p \in Ops
        PROVE  Linked(p)' <=> Linked(p) \/ p = o
    BY <1>1, <2>2, <2>3, <2>4, <2>5 DEF Linked
  <2>9. QED
    BY <1>4, <2>6, <2>7, <2>8
<1>5. QED
  BY <1>3, <1>4
=============================================================================
