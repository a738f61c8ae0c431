-------------------------- MODULE AsyncMutexProofs --------------------------
(***************************************************************************)
(* Proofs about AsyncMutex, for any number of clients, rounds and INT_MAX  *)
(* (the count may overflow: it plays no part), when clients take the FALSE *)
(* of try_lock for success.                                                *)
(***************************************************************************)
EXTENDS AsyncMutex, SemaphoreCoreProofs

-----------------------------------------------------------------------------
(***************************************************************************)
(* The inductive invariant.  What strengthens the properties is Dead: once *)
(* the mutex is destroyed nothing waits and nothing is woken, and only     *)
(* then does a lock_guard exist without the lock.                          *)
(***************************************************************************)
Dead ==
  /\ ~alive => waiters = << >> /\ \A i \in DOMAIN ready : ~WakeUp(i)
  /\ \A c \in Ops : pc[c] = "failed" => ~alive
  /\ \A i \in DOMAIN ready : ready[i].ec = "aborted" /\ ready[i].op \in Guarded => ~alive

IInv ==
  /\ TypeOK
  /\ OneOperation
  /\ Dead
  /\ MutualExclusion
  /\ LockedIffOwned
  /\ NoLostWakeup

\* Every operation of the semaphore keeps its state typed, the overflow included.
LEMMA CoreTyped ==
  ASSUME CoreTypeOK,
         \/ \E o \in Ops, q \in Seq(Handlers) : AsyncAcquire(o, q)
         \/ Release
         \/ \E i \in DOMAIN waiters : CancelAt(i)
         \/ Destruct
         \/ ready # << >> /\ ready' = Tail(ready) /\ UNCHANGED <<count, waiters>>
  PROVE  CoreTypeOK'
<1>1. /\ waiters \in Seq(Ops) /\ ready \in Seq(Handlers)
      /\ count \in (-MaxInt - 1) .. MaxInt
  BY DEF CoreTypeOK, Handlers
<1>2. ASSUME NEW o \in Ops, NEW q \in Seq(Handlers), AsyncAcquire(o, q)
      PROVE  CoreTypeOK'
  <2>1. Append(q, Completion(o, "ok")) \in Seq(Handlers)
    BY CompletionType, AppendProperties DEF Code
  <2>2. Append(waiters, o) \in Seq(Ops)
    BY <1>1, AppendProperties
  <2>3. CASE count # 0
    <3>1. /\ count' = Decremented(count) /\ waiters' = waiters
          /\ ready' = Append(q, Completion(o, "ok"))
      BY <1>2, <2>3 DEF AsyncAcquire
    <3>2. QED
      BY <1>1, <2>1, <3>1, CountArithmetic DEF CoreTypeOK, Handlers
  <2>4. CASE count = 0
    <3>1. count' = count /\ waiters' = Append(waiters, o) /\ ready' = q
      BY <1>2, <2>4 DEF AsyncAcquire
    <3>2. QED
      BY <1>1, <2>2, <3>1 DEF CoreTypeOK, Handlers
  <2>5. QED
    BY <2>3, <2>4
<1>3. ASSUME NEW i \in DOMAIN waiters, NEW ec \in Code, CompleteAt(i, ec), count' = count
      PROVE  CoreTypeOK'
  BY <1>1, <1>3, CompleteAtEffect DEF CoreTypeOK, Handlers
<1>4. CASE Release
  <2>1. CASE waiters = << >>
    <3>1. count' = Incremented(count) /\ UNCHANGED <<waiters, ready>>
      BY <1>4, <2>1 DEF Release
    <3>2. QED
      BY <1>1, <3>1, CountArithmetic DEF CoreTypeOK, Handlers
  <2>2. CASE waiters # << >>
    <3>1. 1 \in DOMAIN waiters /\ "ok" \in Code
      BY <1>1, <2>2, EmptySeq, LenProperties DEF Code
    <3>2. count' = count /\ CompleteAt(1, "ok")
      BY <1>1, <1>4, <2>2, CountArithmetic DEF Release
    <3>3. QED
      BY <1>3, <3>1, <3>2
  <2>3. QED
    BY <2>1, <2>2
<1>5. ASSUME NEW i \in DOMAIN waiters, CancelAt(i)
      PROVE  CoreTypeOK'
  BY <1>3, <1>5 DEF CancelAt, Code
<1>6. CASE Destruct
  <2>1. waiters' = << >> /\ ready' \in Seq(Handlers) /\ count' = count
    BY <1>6, CompleteAllEffect DEF Destruct, Code
  <2>2. QED
    BY <1>1, <2>1, EmptySeq DEF CoreTypeOK, Handlers
<1>7. CASE ready # << >> /\ ready' = Tail(ready) /\ UNCHANGED <<count, waiters>>
  BY <1>1, <1>7, HeadTailProperties DEF CoreTypeOK, Handlers
<1>8. QED
  BY <1>2, <1>4, <1>5, <1>6, <1>7

LEMMA InitInv == Init => IInv
<1> SUFFICES ASSUME Init PROVE IInv
  OBVIOUS
<1>1. CoreTypeOK
  BY InitCore DEF Init, CoreInv
<1>2. TypeOK
  <2>1. 0 \in 0 .. MaxRounds
    BY MutexAssumption
  <2>2. QED
    BY <1>1, <2>1 DEF Init, TypeOK, State
<1>3. waiters = << >> /\ ready = << >> /\ alive /\ ~locked /\ \A c \in Ops : pc[c] = "idle"
  BY DEF Init, CoreInit
<1>4. OneOperation
  BY <1>3 DEF OneOperation, LinkedOnce, PostedOnce, Linked, Posted
<1>5. Dead /\ MutualExclusion /\ LockedIffOwned /\ NoLostWakeup
  BY <1>3 DEF Dead, MutualExclusion, LockedIffOwned, NoLostWakeup, Owner
<1>6. QED
  BY <1>2, <1>4, <1>5 DEF IInv

-----------------------------------------------------------------------------
(***************************************************************************)
(* One lemma per action.                                                   *)
(***************************************************************************)
\* What OneOperation says of the queue of handlers.
LEMMA QueueOnce ==
  ASSUME TypeOK, OneOperation
  PROVE  /\ ready \in Seq(Handlers) /\ Once(ready)
         /\ \A o \in Ops : InQueue(ready, o) <=> Posted(o)
BY DEF TypeOK, CoreTypeOK, Handlers, OneOperation, Once, InQueue, PostedOnce, Posted

\* async_lock and async_guard
LEMMA LockInv ==
  ASSUME IInv, NEW c \in Ops, Lock(c)
  PROVE  IInv'
<1>1. /\ TypeOK /\ CoreTypeOK /\ OneOperation /\ LinkedOnce /\ PostedOnce
      /\ alive /\ alive' = alive /\ pc[c] = "idle"
      /\ rounds' \in [Ops -> 0 .. MaxRounds]
  BY MutexAssumption DEF IInv, TypeOK, OneOperation, Lock, Count
<1>2. ~Linked(c) /\ ~Posted(c)
  BY <1>1 DEF OneOperation
<1>3. CASE ~locked
  <2>1. /\ locked' = TRUE /\ waiters' = waiters /\ count' = count
        /\ ready' = Append(ready, Completion(c, "ok"))
        /\ pc' = [pc EXCEPT ![c] = "won"]
    BY <1>3 DEF Lock, Goto
  <2>2. /\ ready \in Seq(Handlers) /\ Len(ready) \in Nat /\ DOMAIN ready = 1 .. Len(ready)
        /\ Completion(c, "ok") \in Handlers
    BY <1>1, QueueOnce, LenProperties, CompletionType DEF Code
  <2>3. /\ ready' \in Seq(Handlers)
        /\ DOMAIN ready' = 1 .. Len(ready) + 1
        /\ \A k \in 1 .. Len(ready) : ready'[k] = ready[k]
        /\ ready'[Len(ready) + 1].op = c
        /\ ready'[Len(ready) + 1].ec = "ok"
    BY <2>1, <2>2, AppendProperties, LenProperties DEF Completion
  <2> DEFINE m == Len(ready)
  <2>4. \A k \in 1 .. m + 1 : k \in 1 .. m \/ k = m + 1
    BY <2>2
  <2>5. m + 1 \in 1 .. m + 1 /\ m + 1 \notin 1 .. m /\ \A k \in 1 .. m : k \in 1 .. m + 1
    BY <2>2
  <2>6. DOMAIN ready = 1 .. m /\ DOMAIN ready' = 1 .. m + 1
    BY <2>2, <2>3
  <2>7. \A k \in 1 .. m : ready'[k] = ready[k] /\ ready[k].op # c
    BY <1>2, <2>3, <2>6 DEF Posted
  <2> HIDE DEF m
  <2>8. TypeOK'
    BY <1>1, <2>1, <2>3 DEF TypeOK, CoreTypeOK, Handlers, State
  <2>9. PostedOnce'
    BY <1>1, <2>3, <2>4, <2>6, <2>7 DEF PostedOnce, m
  <2>10. \A o \in Ops : Posted(o)' <=> Posted(o) \/ o = c
    BY <2>3, <2>4, <2>5, <2>6, <2>7 DEF Posted, m
  <2>11. LinkedOnce' /\ \A o \in Ops : Linked(o)' <=> Linked(o)
    BY <1>1, <2>1 DEF LinkedOnce, Linked
  <2>12. \A o \in Ops : pc'[o] = IF o = c THEN "won" ELSE pc[o]
    BY <1>1, <2>1 DEF TypeOK
  <2>13. OneOperation'
    BY <1>1, <1>2, <2>9, <2>10, <2>11, <2>12 DEF OneOperation
  <2>14. \A o \in Ops : ~Owner(o)
    BY <1>1, <1>3 DEF IInv, LockedIffOwned
  <2>15. MutualExclusion' /\ LockedIffOwned'
    BY <1>1, <2>1, <2>12, <2>14 DEF MutualExclusion, LockedIffOwned, Owner
  <2>16. Dead'
    BY <1>1, <2>1, <2>3, <2>4, <2>6, <2>7, <2>12 DEF IInv, Dead, m
  <2>17. NoLostWakeup'
    BY <2>1 DEF NoLostWakeup
  <2>18. QED
    BY <2>8, <2>13, <2>15, <2>16, <2>17 DEF IInv
<1>4. CASE locked
  <2>1. /\ locked' = locked /\ AsyncAcquire(c, ready)
        /\ pc' = [pc EXCEPT ![c] = "suspended"]
    BY <1>4 DEF Lock, Goto
  <2>2. CoreTypeOK'
    BY <1>1, <2>1, QueueOnce, CoreTyped
  <2>3. TypeOK'
    BY <1>1, <2>1, <2>2 DEF TypeOK, State
  <2>4. \A o \in Ops : pc'[o] = IF o = c THEN "suspended" ELSE pc[o]
    BY <1>1, <2>1 DEF TypeOK
  <2>5. /\ LinkedOnce' /\ PostedOnce'
        /\ \/ \A p \in Ops : /\ Linked(p)' <=> Linked(p)
                             /\ Posted(p)' <=> Posted(p) \/ p = c
           \/ \A p \in Ops : /\ Linked(p)' <=> Linked(p) \/ p = c
                             /\ Posted(p)' <=> Posted(p)
    BY <1>1, <1>2, <2>1, QueueOnce, AcquireMoves
  <2>6. OneOperation'
    BY <1>1, <1>2, <2>4, <2>5 DEF OneOperation
  <2>7. MutualExclusion' /\ LockedIffOwned'
    BY <1>1, <2>1, <2>4 DEF IInv, MutualExclusion, LockedIffOwned, Owner
  <2>8. Dead'
    <3>1. \A o \in Ops : pc'[o] = "failed" => ~alive'
      BY <1>1, <2>4 DEF IInv, Dead
    <3>2. \A i \in DOMAIN ready' : ready'[i].ec = "aborted" /\ ready'[i].op \in Guarded => ~alive'
      <4>1. ready' = ready \/ ready' = Append(ready, Completion(c, "ok"))
        BY <2>1 DEF AsyncAcquire
      <4>2. Completion(c, "ok") \in Handlers /\ Completion(c, "ok").ec = "ok"
        BY CompletionType DEF Code, Completion
      <4>3. ready \in Seq(Handlers) /\ Len(ready) \in Nat /\ DOMAIN ready = 1 .. Len(ready)
        BY <1>1, QueueOnce, LenProperties
      <4>4. CASE ready' = ready
        BY <1>1, <4>4 DEF IInv, Dead
      <4>5. CASE ready' = Append(ready, Completion(c, "ok"))
        <5>1. \A i \in DOMAIN ready' :
                (i \in DOMAIN ready /\ ready'[i] = ready[i]) \/ ready'[i].ec = "ok"
          BY <4>2, <4>3, <4>5, AppendProperties, LenProperties
        <5>2. QED
          BY <1>1, <5>1 DEF IInv, Dead
      <4>6. QED
        BY <4>1, <4>4, <4>5
    <3>3. QED
      BY <1>1, <3>1, <3>2 DEF Dead
  <2>9. NoLostWakeup'
    BY <1>4, <2>1 DEF NoLostWakeup
  <2>10. QED
    BY <2>3, <2>6, <2>7, <2>8, <2>9 DEF IInv
<1>5. QED
  BY <1>3, <1>4

\* try_lock, read as its result is meant
LEMMA TryLockInv ==
  ASSUME TryLockSuccess = FALSE, IInv, NEW c \in Ops, TryLock(c)
  PROVE  IInv'
<1>1. /\ TypeOK /\ OneOperation /\ alive /\ pc[c] = "idle"
      /\ locked' = TRUE
      /\ UNCHANGED <<count, waiters, ready, alive>>
      /\ rounds' \in [Ops -> 0 .. MaxRounds]
  BY MutexAssumption DEF IInv, TypeOK, TryLock, Count, coreVars
<1>2. ~Linked(c) /\ ~Posted(c)
  BY <1>1 DEF OneOperation
<1>3. \/ ~locked /\ pc' = [pc EXCEPT ![c] = "holding"]
      \/ locked /\ pc' = pc
  BY <1>1 DEF TryLock, Goto, TypeOK
<1>4. \A o \in Ops : pc'[o] = pc[o] \/ (~locked /\ o = c /\ pc'[o] = "holding")
  BY <1>1, <1>3 DEF TypeOK
<1>5. TypeOK'
  BY <1>1, <1>3 DEF TypeOK, CoreTypeOK, State
<1>6. OneOperation'
  BY <1>1, <1>2, <1>4 DEF OneOperation, LinkedOnce, PostedOnce, Linked, Posted
<1>7. Dead'
  BY <1>1, <1>4 DEF IInv, Dead, WakeUp
<1>8. MutualExclusion' /\ LockedIffOwned'
  <2>1. CASE ~locked
    <3>1. \A o \in Ops : ~Owner(o)
      BY <1>1, <2>1 DEF IInv, LockedIffOwned
    <3>2. \A o \in Ops : pc'[o] = IF o = c THEN "holding" ELSE pc[o]
      BY <1>1, <1>3, <2>1 DEF TypeOK
    <3>3. QED
      BY <1>1, <3>1, <3>2 DEF MutualExclusion, LockedIffOwned, Owner
  <2>2. CASE locked
    BY <1>1, <1>3, <2>2 DEF IInv, MutualExclusion, LockedIffOwned, Owner
  <2>3. QED
    BY <2>1, <2>2
<1>9. NoLostWakeup'
  BY <1>1 DEF NoLostWakeup
<1>10. QED
  BY <1>5, <1>6, <1>7, <1>8, <1>9 DEF IInv

\* The handlers after one is appended: those before, and that one.
LEMMA AppendHandler ==
  ASSUME NEW q \in Seq(Handlers), NEW h \in Handlers
  PROVE  /\ Append(q, h) \in Seq(Handlers)
         /\ \A i \in DOMAIN q : i \in DOMAIN Append(q, h) /\ Append(q, h)[i] = q[i]
         /\ \E i \in DOMAIN Append(q, h) : Append(q, h)[i] = h
         /\ \A i \in DOMAIN Append(q, h) :
              Append(q, h)[i] = h \/ (i \in DOMAIN q /\ Append(q, h)[i] = q[i])
<1>1. Len(q) \in Nat /\ DOMAIN q = 1 .. Len(q)
  BY LenProperties
<1>2. /\ Append(q, h) \in Seq(Handlers)
      /\ DOMAIN Append(q, h) = 1 .. Len(q) + 1
      /\ \A i \in 1 .. Len(q) : Append(q, h)[i] = q[i]
      /\ Append(q, h)[Len(q) + 1] = h
  BY <1>1, AppendProperties, LenProperties
<1>3. /\ Len(q) + 1 \in 1 .. Len(q) + 1
      /\ \A i \in 1 .. Len(q) : i \in 1 .. Len(q) + 1
      /\ \A i \in 1 .. Len(q) + 1 : i \in 1 .. Len(q) \/ i = Len(q) + 1
  BY <1>1
<1>4. QED
  BY <1>1, <1>2, <1>3

\* unlock, and the destructor of a lock_guard, by a client that owns the mutex
LEMMA UnlockInv ==
  ASSUME IInv, NEW c \in Ops, alive, alive' = alive, rounds' = rounds,
         pc[c] = "holding", locked' = FALSE, Release, Goto(c, "idle")
  PROVE  IInv'
<1>1. TypeOK /\ CoreTypeOK /\ OneOperation /\ LinkedOnce /\ PostedOnce
  BY DEF IInv, TypeOK, OneOperation
<1>2. \A o \in Ops : pc'[o] = IF o = c THEN "idle" ELSE pc[o]
  BY <1>1 DEF TypeOK, Goto
<1>3. TypeOK'
  BY <1>1, CoreTyped DEF TypeOK, Goto, State
<1>4. \A o \in Ops : o # c => ~Owner(o)
  BY DEF IInv, MutualExclusion, Owner
<1>5. MutualExclusion' /\ LockedIffOwned'
  BY <1>2, <1>4 DEF MutualExclusion, LockedIffOwned, Owner
<1>6. ~Linked(c) /\ ~Posted(c)
  BY <1>1 DEF OneOperation
<1>7. CASE waiters = << >>
  <2>1. waiters' = waiters /\ ready' = ready
    BY <1>7 DEF Release
  <2>2. OneOperation'
    BY <1>1, <1>2, <1>6, <2>1 DEF OneOperation, LinkedOnce, PostedOnce, Linked, Posted
  <2>3. Dead'
    BY <1>2, <2>1 DEF IInv, Dead
  <2>4. NoLostWakeup'
    BY <1>7, <2>1 DEF NoLostWakeup
  <2>5. QED
    BY <1>3, <1>5, <2>2, <2>3, <2>4 DEF IInv
<1>8. CASE waiters # << >>
  <2> DEFINE w == waiters[1]
  <2>1. CompleteAt(1, "ok") /\ ready' = Append(ready, Completion(w, "ok"))
    BY <1>8 DEF Release, CompleteAt
  <2>2. 1 \in DOMAIN waiters /\ w \in Ops /\ Linked(w)
    <3>1. 1 \in DOMAIN waiters
      BY <1>1, <1>8, EmptySeq, LenProperties DEF CoreTypeOK
    <3>2. QED
      BY <1>1, <3>1, Places
  <2>3. pc[w] = "suspended" /\ w # c
    BY <1>1, <1>6, <2>2 DEF OneOperation
  <2>4. /\ LinkedOnce' /\ PostedOnce'
        /\ \A o \in Ops : /\ Linked(o)' <=> Linked(o) /\ o # w
                          /\ Posted(o)' <=> Posted(o) \/ o = w
    BY <1>1, <2>1, <2>2, CompleteAtMoves DEF OneOperation, Code
  <2> HIDE DEF w
  <2>5. OneOperation'
    BY <1>1, <1>2, <1>6, <2>3, <2>4 DEF OneOperation
  <2>6. ready \in Seq(Handlers) /\ Completion(w, "ok") \in Handlers
    BY <1>1, <2>2, QueueOnce, CompletionType DEF Code
  <2>7. Completion(w, "ok").op = w /\ Completion(w, "ok").ec = "ok"
    BY DEF Completion
  <2>8. Dead'
    <3>1. \A i \in DOMAIN ready' :
            ready'[i].ec = "ok" \/ (i \in DOMAIN ready /\ ready'[i] = ready[i])
      BY <2>1, <2>6, <2>7, AppendHandler
    <3>2. QED
      BY <1>2, <3>1 DEF IInv, Dead
  <2>9. NoLostWakeup'
    <3>1. PICK i \in DOMAIN ready' : ready'[i] = Completion(w, "ok")
      BY <2>1, <2>6, AppendHandler
    <3>2. ready'[i].ec = "ok" /\ pc'[ready'[i].op] = "suspended"
      BY <1>2, <2>2, <2>3, <2>7, <3>1
    <3>3. QED
      BY <3>2 DEF NoLostWakeup, WakeUp
  <2>10. QED
    BY <1>3, <1>5, <2>5, <2>8, <2>9 DEF IInv
<1>9. QED
  BY <1>7, <1>8

\* The lock_guard of a failed operation: the mutex is destroyed by then.
LEMMA DropGuardInv ==
  ASSUME IInv, NEW c \in Ops, DropGuard(c)
  PROVE  IInv'
<1>1. TypeOK /\ CoreTypeOK /\ OneOperation /\ pc[c] = "failed"
  BY DEF IInv, TypeOK, DropGuard
<1>2. ~alive /\ alive' = alive /\ waiters = << >> /\ locked' = FALSE
  BY <1>1 DEF IInv, Dead, DropGuard
<1>3. waiters' = waiters /\ ready' = ready /\ rounds' = rounds
  BY <1>2 DEF DropGuard, Release
<1>4. \A o \in Ops : pc'[o] = IF o = c THEN "idle" ELSE pc[o]
  BY <1>1 DEF TypeOK, DropGuard, Goto
<1>5. TypeOK'
  BY <1>1, <1>2, <1>3, CoreTyped DEF TypeOK, DropGuard, Goto, State
<1>6. ~Linked(c) /\ ~Posted(c)
  BY <1>1 DEF OneOperation
<1>7. OneOperation'
  BY <1>1, <1>3, <1>4, <1>6 DEF OneOperation, LinkedOnce, PostedOnce, Linked, Posted
<1>8. Dead'
  <2>1. \A i \in DOMAIN ready : ready[i].op \in Ops /\ ready[i].op # c
    BY <1>1, <1>6, Places DEF Posted, Handlers
  <2>2. QED
    BY <1>2, <1>3, <1>4, <2>1 DEF IInv, Dead, WakeUp
<1>9. MutualExclusion' /\ LockedIffOwned' /\ NoLostWakeup'
  BY <1>2, <1>4 DEF IInv, MutualExclusion, LockedIffOwned, NoLostWakeup, Owner
<1>10. QED
  BY <1>5, <1>7, <1>8, <1>9 DEF IInv

\* A client whose completion was posted runs.
LEMMA RunWonInv ==
  ASSUME IInv, NEW c \in Ops, ready # << >>, c = Head(ready).op, RunWon(c),
         UNCHANGED <<alive, rounds>>
  PROVE  IInv'
<1>1. /\ TypeOK /\ CoreTypeOK /\ OneOperation /\ PostedOnce /\ pc[c] = "won"
      /\ UNCHANGED <<count, waiters, locked, alive, rounds>>
      /\ ready' = Tail(ready)
  BY DEF IInv, TypeOK, OneOperation, RunWon
<1>2. \A o \in Ops : pc'[o] = IF o = c THEN "holding" ELSE pc[o]
  BY <1>1 DEF TypeOK, RunWon, Goto
<1>3. TypeOK'
  BY <1>1, CoreTyped DEF TypeOK, RunWon, Goto, State
<1>4. /\ Posted(c) /\ PostedOnce'
      /\ \A o \in Ops : Posted(o)' <=> Posted(o) /\ o # c
  BY <1>1, DeliverMoves
<1>5. LinkedOnce' /\ \A o \in Ops : Linked(o)' <=> Linked(o)
  BY <1>1 DEF OneOperation, LinkedOnce, Linked
<1>6. OneOperation'
  BY <1>1, <1>2, <1>4, <1>5 DEF OneOperation
<1>7. MutualExclusion' /\ LockedIffOwned'
  BY <1>1, <1>2 DEF IInv, MutualExclusion, LockedIffOwned, Owner
<1>8. /\ \A i \in DOMAIN ready' : i + 1 \in DOMAIN ready /\ ready'[i] = ready[i + 1]
      /\ \A i \in DOMAIN ready' : ready[i + 1].op \in Ops
  BY <1>1, TailEffect, Places DEF Handlers
<1>9. Dead'
  BY <1>1, <1>2, <1>8 DEF IInv, Dead, WakeUp
<1>10. NoLostWakeup'
  BY <1>1 DEF IInv, LockedIffOwned, NoLostWakeup, Owner
<1>11. QED
  BY <1>3, <1>6, <1>7, <1>9, <1>10 DEF IInv

\* An aborted operation completes with its error.
LEMMA RunAbortedInv ==
  ASSUME IInv, NEW c \in Ops, ready # << >>, c = Head(ready).op, RunAborted(c),
         UNCHANGED <<alive, rounds>>
  PROVE  IInv'
<1>1. /\ TypeOK /\ CoreTypeOK /\ OneOperation /\ PostedOnce /\ pc[c] = "suspended"
      /\ UNCHANGED <<count, waiters, locked, alive, rounds>>
      /\ ready' = Tail(ready) /\ Head(ready).ec = "aborted"
  BY DEF IInv, TypeOK, OneOperation, RunAborted
<1>2. PICK s \in {"idle", "failed"} : /\ pc' = [pc EXCEPT ![c] = s]
                                      /\ s = "failed" => c \in Guarded
  BY DEF RunAborted, Goto
<1>3. \A o \in Ops : pc'[o] = IF o = c THEN s ELSE pc[o]
  BY <1>1, <1>2 DEF TypeOK
<1>4. TypeOK'
  BY <1>1, <1>2, CoreTyped DEF TypeOK, State
<1>5. /\ Posted(c) /\ PostedOnce'
      /\ \A o \in Ops : Posted(o)' <=> Posted(o) /\ o # c
  BY <1>1, DeliverMoves
<1>6. LinkedOnce' /\ \A o \in Ops : Linked(o)' <=> Linked(o)
  BY <1>1 DEF OneOperation, LinkedOnce, Linked
<1>7. OneOperation'
  BY <1>1, <1>3, <1>5, <1>6 DEF OneOperation
<1>8. MutualExclusion' /\ LockedIffOwned'
  BY <1>1, <1>3 DEF IInv, MutualExclusion, LockedIffOwned, Owner
<1>9. /\ Head(ready) = ready[1] /\ 1 \in DOMAIN ready
      /\ \A i \in DOMAIN ready' :
           /\ i + 1 \in DOMAIN ready /\ i + 1 # 1
           /\ ready'[i] = ready[i + 1]
           /\ ready[i + 1].op \in Ops
      /\ \A i \in DOMAIN ready : i = 1 \/ (i - 1 \in DOMAIN ready' /\ ready'[i - 1] = ready[i])
  BY <1>1, TailEffect, Places DEF Handlers
<1>10. \A i \in DOMAIN ready : i # 1 => ready[i].op # c
  BY <1>1, <1>9 DEF PostedOnce
<1>11. Dead'
  <2>1. c \in Guarded => ~alive
    BY <1>1, <1>9 DEF IInv, Dead
  <2>2. \A i \in DOMAIN ready' : pc'[ready'[i].op] = pc[ready[i + 1].op]
    BY <1>3, <1>9, <1>10
  <2>3. QED
    BY <1>1, <1>2, <1>3, <1>9, <2>1, <2>2 DEF IInv, Dead, WakeUp
<1>12. NoLostWakeup'
  <2> SUFFICES ASSUME alive, ~locked, waiters # << >>
               PROVE  \E i \in DOMAIN ready' : WakeUp(i)'
    BY <1>1 DEF NoLostWakeup
  <2>1. PICK i \in DOMAIN ready : WakeUp(i)
    BY DEF IInv, NoLostWakeup
  <2>2. i # 1
    BY <1>1, <1>9, <2>1 DEF WakeUp
  <2>3. i - 1 \in DOMAIN ready' /\ ready'[i - 1] = ready[i] /\ ready[i].op # c /\ ready[i].op \in Ops
    BY <1>1, <1>9, <1>10, <2>2, Places DEF Handlers
  <2>4. pc'[ready[i].op] = pc[ready[i].op]
    BY <1>3, <2>3
  <2>5. QED
    BY <2>1, <2>3, <2>4 DEF WakeUp
<1>13. QED
  BY <1>4, <1>7, <1>8, <1>11, <1>12 DEF IInv

\* A woken operation takes the mutex.
LEMMA RunWokenInv ==
  ASSUME IInv, NEW c \in Ops, ready # << >>, c = Head(ready).op, RunWoken(c),
         UNCHANGED <<alive, rounds>>
  PROVE  IInv'
<1>1. /\ TypeOK /\ CoreTypeOK /\ OneOperation /\ PostedOnce /\ pc[c] = "suspended"
      /\ UNCHANGED <<count, waiters, alive, rounds>>
      /\ ready' = Tail(ready) /\ Head(ready).ec = "ok" /\ ~locked /\ locked' = TRUE
  BY DEF IInv, TypeOK, OneOperation, RunWoken
<1>2. \A o \in Ops : pc'[o] = IF o = c THEN "holding" ELSE pc[o]
  BY <1>1 DEF TypeOK, RunWoken, Goto
<1>3. TypeOK'
  BY <1>1, CoreTyped DEF TypeOK, RunWoken, Goto, State
<1>4. /\ Posted(c) /\ PostedOnce'
      /\ \A o \in Ops : Posted(o)' <=> Posted(o) /\ o # c
  BY <1>1, DeliverMoves
<1>5. LinkedOnce' /\ \A o \in Ops : Linked(o)' <=> Linked(o)
  BY <1>1 DEF OneOperation, LinkedOnce, Linked
<1>6. OneOperation'
  BY <1>1, <1>2, <1>4, <1>5 DEF OneOperation
<1>7. /\ Head(ready) = ready[1] /\ 1 \in DOMAIN ready
      /\ \A i \in DOMAIN ready' : i + 1 \in DOMAIN ready /\ ready'[i] = ready[i + 1]
      /\ \A i \in DOMAIN ready' : ready[i + 1].op \in Ops
  BY <1>1, TailEffect, Places DEF Handlers
<1>8. alive
  BY <1>1, <1>7 DEF IInv, Dead, WakeUp
<1>9. \A o \in Ops : ~Owner(o)
  BY <1>1, <1>8 DEF IInv, LockedIffOwned
<1>10. MutualExclusion' /\ LockedIffOwned'
  BY <1>1, <1>2, <1>9 DEF MutualExclusion, LockedIffOwned, Owner
<1>11. Dead'
  BY <1>1, <1>2, <1>7, <1>8 DEF IInv, Dead
<1>12. NoLostWakeup'
  BY <1>1 DEF NoLostWakeup
<1>13. QED
  BY <1>3, <1>6, <1>10, <1>11, <1>12 DEF IInv

\* A woken operation finds the mutex taken and waits again.
LEMMA RunOvertakenInv ==
  ASSUME IInv, NEW c \in Ops, ready # << >>, c = Head(ready).op, RunOvertaken(c),
         UNCHANGED <<alive, rounds>>
  PROVE  IInv'
<1> DEFINE q == Tail(ready)
<1>1. /\ TypeOK /\ CoreTypeOK /\ OneOperation /\ LinkedOnce /\ PostedOnce
      /\ pc[c] = "suspended" /\ Head(ready).ec = "ok"
      /\ UNCHANGED <<locked, pc, alive, rounds>>
      /\ locked
      /\ AsyncAcquire(c, q)
  BY DEF IInv, TypeOK, OneOperation, RunOvertaken
<1>2. /\ q \in Seq(Handlers) /\ Once(q) /\ Posted(c)
      /\ \A o \in Ops : InQueue(q, o) <=> Posted(o) /\ o # c
  BY <1>1, TailMoves, TailEffect
<1>3. ~Linked(c) /\ ~InQueue(q, c)
  BY <1>1, <1>2 DEF OneOperation
<1>4. /\ Head(ready) = ready[1] /\ 1 \in DOMAIN ready
      /\ \A i \in DOMAIN q : i + 1 \in DOMAIN ready /\ q[i] = ready[i + 1]
  BY <1>1, TailEffect
<1>5. alive
  BY <1>1, <1>4 DEF IInv, Dead, WakeUp
<1> HIDE DEF q
<1>6. TypeOK'
  BY <1>1, <1>2, CoreTyped DEF TypeOK
<1>7. /\ LinkedOnce' /\ PostedOnce'
      /\ \/ \A p \in Ops : /\ Linked(p)' <=> Linked(p)
                           /\ Posted(p)' <=> InQueue(q, p) \/ p = c
         \/ \A p \in Ops : /\ Linked(p)' <=> Linked(p) \/ p = c
                           /\ Posted(p)' <=> InQueue(q, p)
  BY <1>1, <1>2, <1>3, AcquireMoves
<1>8. OneOperation'
  BY <1>1, <1>2, <1>3, <1>7 DEF OneOperation
<1>9. MutualExclusion' /\ LockedIffOwned' /\ NoLostWakeup'
  BY <1>1 DEF IInv, MutualExclusion, LockedIffOwned, NoLostWakeup, Owner
<1>10. Dead'
  <2>1. ready' = q \/ ready' = Append(q, Completion(c, "ok"))
    BY <1>1 DEF AsyncAcquire
  <2>2. Completion(c, "ok") \in Handlers /\ Completion(c, "ok").ec = "ok"
    BY CompletionType DEF Code, Completion
  <2>3. \A i \in DOMAIN ready' : ready'[i].ec = "ok" \/ (i \in DOMAIN q /\ ready'[i] = q[i])
    BY <1>2, <2>1, <2>2, AppendHandler
  <2>4. \A i \in DOMAIN ready' :
          ready'[i].ec = "ok" \/ (i + 1 \in DOMAIN ready /\ ready'[i] = ready[i + 1])
    BY <1>4, <2>3
  <2>5. QED
    BY <1>1, <1>5, <2>4 DEF IInv, Dead
<1>11. QED
  BY <1>6, <1>8, <1>9, <1>10 DEF IInv

\* The cancellation of an operation that waits.
LEMMA CancelInv ==
  ASSUME IInv, NEW i \in DOMAIN waiters, Cancel(i)
  PROVE  IInv'
<1> DEFINE w == waiters[i]
<1>1. /\ TypeOK /\ CoreTypeOK /\ OneOperation /\ LinkedOnce /\ PostedOnce
      /\ CancelAt(i) /\ CompleteAt(i, "aborted")
      /\ UNCHANGED <<alive, locked, pc, rounds>>
      /\ w \notin Guarded
      /\ ready' = Append(ready, Completion(w, "aborted"))
  BY DEF IInv, TypeOK, OneOperation, Cancel, CancelAt, CompleteAt
<1>2. w \in Ops /\ Linked(w) /\ waiters # << >>
  <2>1. waiters # << >>
    BY <1>1, EmptySeq, LenProperties DEF CoreTypeOK
  <2>2. QED
    BY <1>1, <2>1, Places
<1>3. /\ LinkedOnce' /\ PostedOnce'
      /\ \A o \in Ops : /\ Linked(o)' <=> Linked(o) /\ o # w
                        /\ Posted(o)' <=> Posted(o) \/ o = w
  BY <1>1, CompleteAtMoves DEF OneOperation, Code
<1>4. TypeOK'
  BY <1>1, CoreTyped DEF TypeOK
<1>5. ready \in Seq(Handlers) /\ Completion(w, "aborted") \in Handlers
  BY <1>1, <1>2, QueueOnce, CompletionType DEF Code
<1>6. Completion(w, "aborted").op = w
  BY DEF Completion
<1>7. alive
  BY <1>2 DEF IInv, Dead
<1> HIDE DEF w
<1>8. OneOperation'
  BY <1>1, <1>2, <1>3 DEF OneOperation
<1>9. \A k \in DOMAIN ready : k \in DOMAIN ready' /\ ready'[k] = ready[k]
  BY <1>1, <1>5, AppendHandler
<1>10. Dead'
  <2>1. \A k \in DOMAIN ready' :
          ready'[k] = Completion(w, "aborted") \/ (k \in DOMAIN ready /\ ready'[k] = ready[k])
    BY <1>1, <1>5, AppendHandler
  <2>2. /\ alive' /\ pc' = pc
        /\ \A c \in Ops : pc[c] # "failed"
        /\ \A k \in DOMAIN ready : ~(ready[k].ec = "aborted" /\ ready[k].op \in Guarded)
    BY <1>1, <1>7 DEF IInv, Dead
  <2>3. QED
    BY <1>1, <1>6, <2>1, <2>2 DEF Dead
<1>11. MutualExclusion' /\ LockedIffOwned'
  BY <1>1 DEF IInv, MutualExclusion, LockedIffOwned, Owner
<1>12. NoLostWakeup'
  BY <1>1, <1>2, <1>9 DEF IInv, NoLostWakeup, WakeUp
<1>13. QED
  BY <1>4, <1>8, <1>10, <1>11, <1>12 DEF IInv

\* The destructor
LEMMA DestroyInv ==
  ASSUME IInv, Destroy
  PROVE  IInv'
<1> DEFINE m == Len(ready)
           n == Len(waiters)
<1>1. /\ TypeOK /\ CoreTypeOK /\ OneOperation /\ LinkedOnce /\ PostedOnce
      /\ Destruct /\ CompleteAll("aborted") /\ alive' = FALSE
      /\ UNCHANGED <<locked, pc, rounds>>
      /\ \A i \in DOMAIN ready : ~WakeUp(i)
  BY DEF IInv, TypeOK, OneOperation, Destroy, Destruct
<1>2. /\ LinkedOnce' /\ PostedOnce'
      /\ \A o \in Ops : /\ ~Linked(o)'
                        /\ Posted(o)' <=> Posted(o) \/ Linked(o)
  BY <1>1, CompleteAllMoves DEF OneOperation, Code
<1>3. TypeOK'
  BY <1>1, CoreTyped DEF TypeOK
<1>4. OneOperation'
  BY <1>1, <1>2 DEF OneOperation
<1>5. /\ waiters' = << >>
      /\ \A i \in DOMAIN ready' : ready'[i].ec = "aborted" \/ (i \in DOMAIN ready /\ ready'[i] = ready[i])
  <2>1. /\ waiters' = << >>
        /\ ready' \in Seq(Handlers)
        /\ Len(ready') = m + n
        /\ \A k \in 1 .. m : ready'[k] = ready[k]
        /\ \A k \in 1 .. n : ready'[m + k] = Completion(waiters[k], "aborted")
    BY <1>1, CompleteAllEffect DEF Code
  <2>2. /\ m \in Nat /\ n \in Nat /\ DOMAIN ready = 1 .. m
        /\ DOMAIN ready' = 1 .. m + n
    BY <1>1, <2>1, Places, LenProperties
  <2>3. \A k \in 1 .. m + n : k \in 1 .. m \/ (k - m \in 1 .. n /\ k = m + (k - m))
    BY <2>2
  <2>4. \A k \in 1 .. n : Completion(waiters[k], "aborted").ec = "aborted"
    BY DEF Completion
  <2> HIDE DEF m, n
  <2>5. \A k \in 1 .. n : ready'[m + k].ec = "aborted"
    BY <2>1, <2>4
  <2>6. QED
    BY <2>1, <2>2, <2>3, <2>5
<1>6. Dead'
  BY <1>1, <1>5 DEF Dead, WakeUp
<1>7. MutualExclusion' /\ LockedIffOwned' /\ NoLostWakeup'
  BY <1>1 DEF IInv, MutualExclusion, LockedIffOwned, NoLostWakeup, Owner
<1>8. QED
  BY <1>3, <1>4, <1>6, <1>7 DEF IInv

LEMMA NextInv ==
  ASSUME TryLockSuccess = FALSE
  PROVE  IInv /\ [Next]_vars => IInv'
<1> SUFFICES ASSUME IInv, [Next]_vars
             PROVE  IInv'
  OBVIOUS
<1>1. ASSUME NEW c \in Ops, Unlock(c)
      PROVE  IInv'
  BY <1>1, UnlockInv DEF Unlock
<1>2. CASE Run
  <2> DEFINE c == Head(ready).op
  <2>1. ready # << >> /\ UNCHANGED <<alive, rounds>>
    BY <1>2 DEF Run
  <2>2. c \in Ops
    BY <2>1, TailEffect, Places DEF IInv, TypeOK, Handlers
  <2>3. RunWon(c) \/ RunAborted(c) \/ RunWoken(c) \/ RunOvertaken(c)
    BY <1>2 DEF Run
  <2> HIDE DEF c
  <2>4. c = Head(ready).op
    BY DEF c
  <2>5. QED
    BY <2>1, <2>2, <2>3, <2>4, RunWonInv, RunAbortedInv, RunWokenInv, RunOvertakenInv
<1>3. CASE UNCHANGED vars
  BY <1>3 DEF vars, IInv, TypeOK, CoreTypeOK, OneOperation, LinkedOnce, PostedOnce, Linked,
              Posted, Dead, WakeUp, MutualExclusion, LockedIffOwned, NoLostWakeup, Owner
<1>4. QED
  BY <1>1, <1>2, <1>3, LockInv, TryLockInv, DropGuardInv, CancelInv, DestroyInv DEF Next

-----------------------------------------------------------------------------
\* The mutex excludes, for any number of clients, whatever is cancelled or
\* overtaken and however often the count overflows.
THEOREM MutualExclusionHolds ==
  ASSUME TryLockSuccess = FALSE
  PROVE  Spec => []MutualExclusion
<1>1. IInv => MutualExclusion
  BY DEF IInv
<1>2. IInv /\ [Next]_vars => IInv'
  BY NextInv
<1>3. QED
  BY <1>1, <1>2, InitInv, PTL DEF Spec

\* The flag is set exactly while a client owns the mutex.
THEOREM LockedIffOwnedHolds ==
  ASSUME TryLockSuccess = FALSE
  PROVE  Spec => []LockedIffOwned
<1>1. IInv => LockedIffOwned
  BY DEF IInv
<1>2. IInv /\ [Next]_vars => IInv'
  BY NextInv
<1>3. QED
  BY <1>1, <1>2, InitInv, PTL DEF Spec

\* The types, and that every client has one operation, in one place, at most:
\* neither an operation that waits again nor an overflow breaks it.
THEOREM OneOperationHolds ==
  ASSUME TryLockSuccess = FALSE
  PROVE  Spec => [](TypeOK /\ OneOperation)
<1>1. IInv => TypeOK /\ OneOperation
  BY DEF IInv
<1>2. IInv /\ [Next]_vars => IInv'
  BY NextInv
<1>3. QED
  BY <1>1, <1>2, InitInv, PTL DEF Spec

\* A free mutex that is waited for has a wake-up in flight.
THEOREM NoLostWakeupHolds ==
  ASSUME TryLockSuccess = FALSE
  PROVE  Spec => []NoLostWakeup
<1>1. IInv => NoLostWakeup
  BY DEF IInv
<1>2. IInv /\ [Next]_vars => IInv'
  BY NextInv
<1>3. QED
  BY <1>1, <1>2, InitInv, PTL DEF Spec

\* There is no deadlock: when no handler is queued and no client is in its critical
\* section (or has a guard to drop), no client is suspended in async_lock, alone or
\* together with others, whoever was overtaken or cancelled before.
THEOREM NoneStuck ==
  ASSUME TryLockSuccess = FALSE
  PROVE  Spec => [](ready = << >> /\ (\A c \in Ops : pc[c] \notin {"holding", "failed"})
                      => \A c \in Ops : pc[c] = "idle")
<1> DEFINE Quiet == ready = << >> /\ \A c \in Ops : pc[c] \notin {"holding", "failed"}
           Over == \A c \in Ops : pc[c] = "idle"
<1>1. IInv => (Quiet => Over)
  <2> SUFFICES ASSUME IInv, Quiet, NEW c \in Ops
               PROVE  pc[c] = "idle"
    OBVIOUS
  <2>1. TypeOK /\ OneOperation /\ \A d \in Ops : ~Posted(d)
    BY DEF IInv, Posted
  <2>2. \A d \in Ops : pc[d] # "won" /\ ~Owner(d)
    BY <2>1 DEF OneOperation, Owner
  <2>3. CASE waiters = << >>
    <3>1. pc[c] # "suspended"
      BY <2>1, <2>3 DEF OneOperation, Linked
    <3>2. QED
      BY <2>1, <2>2, <3>1 DEF TypeOK, State
  <2>4. CASE waiters # << >>
    <3>1. alive
      BY <2>1, <2>4 DEF IInv, Dead, TypeOK
    <3>2. ~locked
      BY <2>2, <3>1 DEF IInv, LockedIffOwned
    <3>3. QED
      BY <2>4, <3>1, <3>2 DEF IInv, NoLostWakeup
  <2>5. QED
    BY <2>3, <2>4
<1>2. IInv /\ [Next]_vars => IInv'
  BY NextInv
<1>3. QED
  BY <1>1, <1>2, InitInv, PTL DEF Spec
-----------------------------------------------------------------------------
(***************************************************************************)
(* The mutex implements a lock.  First where the aborted handlers are.     *)
(***************************************************************************)
AbortedIn(q) == {c \in Ops : \E i \in DOMAIN q : q[i] = Completion(c, "aborted")}

Owners == {c \in Ops : Owner(c)}

Suspended == {c \in Ops : pc[c] = "suspended"}

Wanting == Suspended \ Aborted

\* A handler is posted.
LEMMA AbortedAppended ==
  ASSUME NEW q \in Seq(Handlers), NEW o \in Ops, NEW ec \in Code
  PROVE  AbortedIn(Append(q, Completion(o, ec)))
           = AbortedIn(q) \cup (IF ec = "aborted" THEN {o} ELSE {})
<1> DEFINE h == Completion(o, ec)
           r == Append(q, h)
<1>1. \A c \in Ops : h = Completion(c, "aborted") <=> c = o /\ ec = "aborted"
  BY DEF Completion
<1>2. h \in Handlers
  BY CompletionType
<1> HIDE DEF h
<1>3. /\ \A i \in DOMAIN q : i \in DOMAIN r /\ r[i] = q[i]
      /\ \E i \in DOMAIN r : r[i] = h
      /\ \A i \in DOMAIN r : r[i] = h \/ (i \in DOMAIN q /\ r[i] = q[i])
  BY <1>2, AppendHandler
<1> HIDE DEF r
<1>4. AbortedIn(r) = AbortedIn(q) \cup (IF ec = "aborted" THEN {o} ELSE {})
  BY <1>1, <1>3 DEF AbortedIn
<1>5. QED
  BY <1>4 DEF r, h

\* The first handler is taken.
LEMMA AbortedTaken ==
  ASSUME CoreTypeOK, PostedOnce, ready # << >>
  PROVE  AbortedIn(Tail(ready)) = IF Head(ready).ec = "aborted"
                                  THEN Aborted \ {Head(ready).op} ELSE Aborted
<1> DEFINE t == Tail(ready)
<1>1. /\ Head(ready) = ready[1] /\ 1 \in DOMAIN ready
      /\ \A k \in DOMAIN t : k + 1 \in DOMAIN ready /\ k + 1 # 1 /\ t[k] = ready[k + 1]
      /\ \A k \in DOMAIN ready : k = 1 \/ (k - 1 \in DOMAIN t /\ t[k - 1] = ready[k])
  BY TailEffect
<1>2. \A k \in DOMAIN ready : ready[k].op = ready[1].op => k = 1
  BY <1>1 DEF PostedOnce
<1>3. \A c \in Ops : /\ Completion(c, "aborted").op = c
                     /\ Completion(c, "aborted").ec = "aborted"
  BY DEF Completion
<1>4. ready[1] \in Handlers
  BY <1>1, Places
<1>5. ready[1].ec = "aborted" => ready[1] = Completion(ready[1].op, "aborted")
  BY <1>4 DEF Handlers, Completion
<1> HIDE DEF t
<1>6. \A c \in AbortedIn(t) : c \in Aborted /\ (ready[1].ec = "aborted" => c # ready[1].op)
  <2> SUFFICES ASSUME NEW c \in Ops, NEW k \in DOMAIN t, t[k] = Completion(c, "aborted")
               PROVE  c \in Aborted /\ (ready[1].ec = "aborted" => c # ready[1].op)
    BY DEF AbortedIn
  <2>1. k + 1 \in DOMAIN ready /\ ready[k + 1] = Completion(c, "aborted") /\ k + 1 # 1
    BY <1>1
  <2>2. ready[k + 1].op = c
    BY <1>3, <2>1
  <2>3. QED
    BY <1>2, <2>1, <2>2 DEF Aborted
<1>7. \A c \in Aborted : c \in AbortedIn(t) \/ (ready[1].ec = "aborted" /\ c = ready[1].op)
  <2> SUFFICES ASSUME NEW c \in Ops, NEW k \in DOMAIN ready, ready[k] = Completion(c, "aborted")
               PROVE  c \in AbortedIn(t) \/ (ready[1].ec = "aborted" /\ c = ready[1].op)
    BY DEF Aborted
  <2>1. CASE k = 1
    BY <1>3, <2>1
  <2>2. CASE k # 1
    BY <1>1, <2>2 DEF AbortedIn
  <2>3. QED
    BY <2>1, <2>2
<1>8. QED
  BY <1>1, <1>6, <1>7 DEF t, AbortedIn, Aborted

\* A wait begins, from a queue of handlers.
LEMMA AbortedAcquired ==
  ASSUME NEW q \in Seq(Handlers), NEW o \in Ops, AsyncAcquire(o, q)
  PROVE  Aborted' = AbortedIn(q)
<1>1. Aborted' = AbortedIn(ready')
  BY DEF Aborted, AbortedIn
<1>2. ready' = q \/ ready' = Append(q, Completion(o, "ok"))
  BY DEF AsyncAcquire
<1>3. QED
  BY <1>1, <1>2, AbortedAppended DEF Code

LEMMA AbortedReleased ==
  ASSUME CoreTypeOK, Release
  PROVE  Aborted' = Aborted
<1>1. Aborted' = AbortedIn(ready') /\ Aborted = AbortedIn(ready)
  BY DEF Aborted, AbortedIn
<1>2. CASE waiters = << >>
  BY <1>1, <1>2 DEF Release
<1>3. CASE waiters # << >>
  <2>1. 1 \in DOMAIN waiters /\ waiters[1] \in Ops /\ ready \in Seq(Handlers)
    BY <1>3, EmptySeq, LenProperties, ElementOfSeq DEF CoreTypeOK, Handlers
  <2>2. ready' = Append(ready, Completion(waiters[1], "ok"))
    BY <1>3 DEF Release, CompleteAt
  <2>3. QED
    BY <1>1, <2>1, <2>2, AbortedAppended DEF Code
<1>4. QED
  BY <1>2, <1>3

\* The destructor aborts every client that is linked.
LEMMA AbortedDestructed ==
  ASSUME CoreTypeOK, CompleteAll("aborted")
  PROVE  Aborted' = Aborted \cup {c \in Ops : Linked(c)}
<1> DEFINE m == Len(ready)
           n == Len(waiters)
<1>1. /\ ready' \in Seq(Handlers)
      /\ Len(ready') = m + n
      /\ \A k \in 1 .. m : ready'[k] = ready[k]
      /\ \A k \in 1 .. n : ready'[m + k] = Completion(waiters[k], "aborted") /\ waiters[k] \in Ops
  BY CompleteAllEffect DEF Code
<1>2. /\ m \in Nat /\ n \in Nat /\ DOMAIN ready = 1 .. m /\ DOMAIN waiters = 1 .. n
      /\ DOMAIN ready' = 1 .. m + n
  BY <1>1, Places, LenProperties
<1>3. /\ \A k \in 1 .. m + n : k \in 1 .. m \/ (k - m \in 1 .. n /\ k = m + (k - m))
      /\ \A k \in 1 .. m : k \in 1 .. m + n
      /\ \A k \in 1 .. n : m + k \in 1 .. m + n
  BY <1>2
<1>4. \A c \in Ops, d \in Ops : Completion(d, "aborted") = Completion(c, "aborted") => c = d
  BY DEF Completion
<1> HIDE DEF m, n
<1>5. \A c \in Aborted' : c \in Aborted \/ Linked(c)
  <2> SUFFICES ASSUME NEW c \in Ops, NEW k \in 1 .. m + n, ready'[k] = Completion(c, "aborted")
               PROVE  c \in Aborted \/ Linked(c)
    BY <1>2 DEF Aborted
  <2>1. CASE k \in 1 .. m
    BY <1>1, <1>2, <2>1 DEF Aborted
  <2>2. CASE k - m \in 1 .. n /\ k = m + (k - m)
    <3>1. PICK j \in 1 .. n : k = m + j
      BY <2>2
    <3>2. ready'[k] = Completion(waiters[j], "aborted") /\ waiters[j] \in Ops
      BY <1>1, <3>1
    <3>3. waiters[j] = c
      BY <1>4, <3>2
    <3>4. QED
      BY <1>2, <3>3 DEF Linked
  <2>3. QED
    BY <1>3, <2>1, <2>2
<1>6. \A c \in Aborted : c \in Aborted'
  BY <1>1, <1>2, <1>3 DEF Aborted
<1>7. \A c \in Ops : Linked(c) => c \in Aborted'
  BY <1>1, <1>2, <1>3 DEF Aborted, Linked
<1>8. QED
  BY <1>5, <1>6, <1>7 DEF Aborted

-----------------------------------------------------------------------------
\* Then one lemma per action, which maps to a step of the lock or to none.
LEMMA Moved ==
  ASSUME TypeOK, NEW c \in Ops, NEW s \in State, Goto(c, s)
  PROVE  /\ Owners' = IF s \in {"won", "holding"} THEN Owners \cup {c} ELSE Owners \ {c}
         /\ Suspended' = IF s = "suspended" THEN Suspended \cup {c} ELSE Suspended \ {c}
<1>1. \A d \in Ops : pc'[d] = IF d = c THEN s ELSE pc[d]
  BY DEF TypeOK, Goto
<1>2. QED
  BY <1>1 DEF Owners, Owner, Suspended

LEMMA Kept ==
  ASSUME UNCHANGED pc
  PROVE  Owners' = Owners /\ Suspended' = Suspended
BY DEF Owners, Owner, Suspended

\* What the invariant says of owners and of aborted clients.
LEMMA Facts ==
  ASSUME IInv
  PROVE  /\ TypeOK /\ CoreTypeOK /\ OneOperation /\ PostedOnce
         /\ alive => (locked <=> Owners # {})
         /\ \A c \in Owners : Owners = {c}
         /\ \A c \in Ops : pc[c] = "idle" => c \notin Owners \cup Suspended \cup Aborted
         /\ \A c \in Ops : pc[c] = "suspended" => c \notin Owners
<1>1. /\ TypeOK /\ CoreTypeOK /\ OneOperation /\ PostedOnce
      /\ alive => (locked <=> Owners # {})
      /\ \A c \in Owners : Owners = {c}
  BY DEF IInv, TypeOK, OneOperation, LockedIffOwned, MutualExclusion, Owners
<1>2. \A c \in Aborted : Posted(c)
  BY DEF Aborted, Posted, Completion
<1>3. \A c \in Ops : pc[c] = "idle" => c \notin Owners \cup Suspended \cup Aborted
  BY <1>1, <1>2 DEF OneOperation, Owners, Owner, Suspended
<1>4. QED
  BY <1>1, <1>3 DEF Owners, Owner

Enters(c) == alive /\ alive' = alive /\ Owners = {} /\ c \notin Aborted /\ Owners' = {c}
             /\ Wanting' = Wanting \ {c} /\ Aborted' = Aborted

LEMMA EntersMaps ==
  ASSUME NEW c \in Ops, Enters(c)
  PROVE  Abstract!Next
<1>1. Abstract!Enter(c)
  BY DEF Enters, Abstract!Enter, Owners, Wanting, Suspended
<1>2. QED
  BY <1>1 DEF Abstract!Next

LEMMA StuttersMaps ==
  ASSUME UNCHANGED <<alive, Owners, Wanting, Aborted>>
  PROVE  UNCHANGED Abstract!vars
BY DEF Abstract!vars, Owners, Wanting, Suspended

LEMMA LockMaps ==
  ASSUME IInv, NEW c \in Ops, Lock(c)
  PROVE  Abstract!Next
<1>1. /\ alive /\ alive' = alive /\ pc[c] = "idle"
      /\ c \notin Owners \cup Suspended \cup Aborted
      /\ TypeOK /\ ready \in Seq(Handlers)
  BY Facts DEF Lock, CoreTypeOK, Handlers
<1>2. CASE ~locked
  <2>1. Goto(c, "won") /\ ready' = Append(ready, Completion(c, "ok"))
    BY <1>2 DEF Lock
  <2>2. Owners = {}
    BY <1>1, <1>2, Facts
  <2>3. Aborted' = Aborted
    BY <1>1, <2>1, AbortedAppended DEF Aborted, AbortedIn, Code
  <2>4. Owners' = Owners \cup {c} /\ Suspended' = Suspended \ {c}
    BY <1>1, <2>1, Moved DEF State
  <2>5. Enters(c)
    BY <1>1, <2>2, <2>3, <2>4 DEF Enters, Wanting
  <2>6. QED
    BY <2>5, EntersMaps
<1>3. CASE locked
  <2>1. Goto(c, "suspended") /\ AsyncAcquire(c, ready)
    BY <1>3 DEF Lock
  <2>2. Aborted' = Aborted
    BY <1>1, <2>1, AbortedAcquired DEF Aborted, AbortedIn
  <2>3. Owners' = Owners \ {c} /\ Suspended' = Suspended \cup {c}
    BY <1>1, <2>1, Moved DEF State
  <2>4. Abstract!Ask(c)
    BY <1>1, <2>2, <2>3 DEF Abstract!Ask, Owners, Suspended
  <2>5. QED
    BY <2>4 DEF Abstract!Next
<1>4. QED
  BY <1>2, <1>3

LEMMA TryLockMaps ==
  ASSUME TryLockSuccess = FALSE, IInv, NEW c \in Ops, TryLock(c)
  PROVE  Abstract!Next \/ UNCHANGED Abstract!vars
<1>1. /\ alive /\ alive' = alive /\ pc[c] = "idle"
      /\ c \notin Owners \cup Suspended \cup Aborted
      /\ TypeOK /\ Aborted' = Aborted
  BY Facts DEF TryLock, Aborted, coreVars
<1>2. CASE ~locked
  <2>1. Goto(c, "holding")
    BY <1>1, <1>2 DEF TryLock, TypeOK
  <2>2. Owners = {}
    BY <1>1, <1>2, Facts
  <2>3. Owners' = Owners \cup {c} /\ Suspended' = Suspended \ {c}
    BY <1>1, <2>1, Moved DEF State
  <2>4. Enters(c)
    BY <1>1, <2>2, <2>3 DEF Enters, Wanting
  <2>5. QED
    BY <2>4, EntersMaps
<1>3. CASE locked
  <2>1. UNCHANGED pc
    BY <1>1, <1>3 DEF TryLock, TypeOK
  <2>2. QED
    BY <1>1, <2>1, Kept, StuttersMaps DEF Wanting
<1>4. QED
  BY <1>2, <1>3

LEMMA UnlockMaps ==
  ASSUME IInv, NEW c \in Ops, Unlock(c)
  PROVE  Abstract!Next
<1>1. /\ alive /\ alive' = alive /\ Goto(c, "idle") /\ Owners = {c} /\ c \notin Suspended
      /\ TypeOK /\ Aborted' = Aborted
  BY Facts, AbortedReleased DEF Unlock, Owners, Owner, Suspended
<1>2. Owners' = Owners \ {c} /\ Suspended' = Suspended \ {c}
  BY <1>1, Moved DEF State
<1>3. Abstract!Leave(c)
  BY <1>1, <1>2 DEF Abstract!Leave, Owners, Suspended
<1>4. QED
  BY <1>3 DEF Abstract!Next

LEMMA DropGuardMaps ==
  ASSUME IInv, NEW c \in Ops, DropGuard(c)
  PROVE  UNCHANGED Abstract!vars
<1>1. /\ alive' = alive /\ Goto(c, "idle") /\ c \notin Owners /\ c \notin Suspended
      /\ TypeOK /\ Aborted' = Aborted
  BY Facts, AbortedReleased DEF DropGuard, Owners, Owner, Suspended
<1>2. Owners' = Owners \ {c} /\ Suspended' = Suspended \ {c}
  BY <1>1, Moved DEF State
<1>3. QED
  BY <1>1, <1>2, StuttersMaps DEF Wanting

LEMMA RunMaps ==
  ASSUME IInv, Run
  PROVE  Abstract!Next \/ UNCHANGED Abstract!vars
<1> DEFINE c == Head(ready).op
<1>1. /\ TypeOK /\ CoreTypeOK /\ OneOperation /\ PostedOnce /\ ready # << >> /\ alive' = alive
      /\ RunWon(c) \/ RunAborted(c) \/ RunWoken(c) \/ RunOvertaken(c)
  BY Facts DEF Run
<1>2. /\ Head(ready) \in Handlers /\ c \in Ops /\ Tail(ready) \in Seq(Handlers)
      /\ Head(ready) = ready[1] /\ 1 \in DOMAIN ready
  BY <1>1, TailEffect, TailMoves DEF Handlers
<1>3. AbortedIn(Tail(ready)) = IF Head(ready).ec = "aborted" THEN Aborted \ {c} ELSE Aborted
  BY <1>1, AbortedTaken
<1>4. Head(ready).ec = "aborted" => c \in Aborted
  BY <1>2 DEF Aborted, Handlers, Completion
<1>5. Head(ready).ec = "ok" => c \notin Aborted
  <2> SUFFICES ASSUME Head(ready).ec = "ok", NEW k \in DOMAIN ready, ready[k] = Completion(c, "aborted")
               PROVE  FALSE
    BY DEF Aborted
  <2>1. ready[k].op = ready[1].op /\ ready[k].ec = "aborted"
    BY <1>2 DEF Completion
  <2>2. k = 1
    BY <1>1, <1>2, <2>1 DEF PostedOnce
  <2>3. QED
    BY <1>2, <2>1, <2>2
<1> HIDE DEF c
<1>6. ready' = Tail(ready) => Aborted' = AbortedIn(Tail(ready))
  BY DEF Aborted, AbortedIn
<1>7. Head(ready).ec \in {"ok", "aborted"}
  BY <1>2 DEF Handlers, Code
\* The abort is reported; to a client that waited, or in the place of a success.
<1>8. ASSUME Head(ready).ec = "aborted", ready' = Tail(ready), UNCHANGED <<Owners, Wanting>>
      PROVE  Abstract!Next
  <2>1. Abstract!Report(c)
    BY <1>1, <1>3, <1>4, <1>6, <1>8 DEF Abstract!Report, Owners, Wanting, Suspended
  <2>2. QED
    BY <1>2, <2>1 DEF Abstract!Next
<1>9. CASE RunWon(c)
  <2>1. ready' = Tail(ready) /\ Goto(c, "holding") /\ c \in Owners /\ c \notin Suspended
    BY <1>2, <1>9 DEF RunWon, Owners, Owner, Suspended
  <2>2. Owners' = Owners /\ Suspended' = Suspended
    <3>1. Owners' = Owners \cup {c} /\ Suspended' = Suspended \ {c}
      BY <1>1, <1>2, <2>1, Moved DEF State
    <3>2. QED
      BY <2>1, <3>1
  <2>3. CASE Head(ready).ec = "ok"
    BY <1>1, <1>3, <1>6, <2>1, <2>2, <2>3, StuttersMaps DEF Wanting
  <2>4. CASE Head(ready).ec = "aborted"
    <3>1. Wanting' = Wanting
      BY <1>3, <1>6, <2>1, <2>2, <2>4 DEF Wanting
    <3>2. QED
      BY <1>8, <2>1, <2>2, <2>4, <3>1
  <2>5. QED
    BY <1>7, <2>3, <2>4
<1>10. CASE RunAborted(c)
  <2>1. PICK s \in {"idle", "failed"} : Goto(c, s)
    BY <1>10 DEF RunAborted
  <2>2. /\ ready' = Tail(ready) /\ c \notin Owners /\ c \in Suspended
        /\ Head(ready).ec = "aborted"
    BY <1>2, <1>10 DEF RunAborted, Owners, Owner, Suspended
  <2>3. Owners' = Owners \ {c} /\ Suspended' = Suspended \ {c}
    BY <1>1, <1>2, <2>1, Moved DEF State
  <2>4. Owners' = Owners /\ Wanting' = Wanting
    BY <1>3, <1>4, <1>6, <2>2, <2>3 DEF Wanting
  <2>5. QED
    BY <1>8, <2>2, <2>4
<1>11. CASE RunWoken(c)
  <2>1. ready' = Tail(ready) /\ Goto(c, "holding") /\ ~locked /\ Head(ready).ec = "ok"
    BY <1>11 DEF RunWoken
  <2>2. alive
    BY <1>2, <1>11, <2>1 DEF IInv, Dead, WakeUp, RunWoken, TypeOK, c
  <2>3. Owners = {} /\ Owners' = Owners \cup {c} /\ Suspended' = Suspended \ {c}
    BY <1>1, <1>2, <2>1, <2>2, Facts, Moved DEF State
  <2>4. Enters(c)
    BY <1>1, <1>3, <1>5, <1>6, <2>1, <2>2, <2>3 DEF Enters, Wanting
  <2>5. QED
    BY <1>2, <2>4, EntersMaps
<1>12. CASE RunOvertaken(c)
  <2>1. AsyncAcquire(c, Tail(ready)) /\ UNCHANGED pc /\ Head(ready).ec = "ok"
    BY <1>12 DEF RunOvertaken
  <2>2. Aborted' = Aborted
    BY <1>2, <1>3, <2>1, AbortedAcquired
  <2>3. QED
    BY <1>1, <2>1, <2>2, Kept, StuttersMaps DEF Wanting
<1>13. QED
  BY <1>1, <1>9, <1>10, <1>11, <1>12

LEMMA CancelMaps ==
  ASSUME IInv, NEW i \in DOMAIN waiters, Cancel(i)
  PROVE  Abstract!Next
<1>0. PICK c : c = waiters[i]
  OBVIOUS
<1>1. /\ TypeOK /\ CoreTypeOK /\ OneOperation /\ CompleteAt(i, "aborted")
      /\ c \notin Guarded /\ UNCHANGED <<alive, pc>>
  BY <1>0, Facts DEF Cancel, CancelAt
<1>2. c \in Ops /\ Linked(c) /\ ready \in Seq(Handlers)
  BY <1>0, <1>1, Places DEF CoreTypeOK, Handlers
<1>3. c \in Suspended /\ ~Posted(c)
  BY <1>1, <1>2 DEF OneOperation, Suspended
<1>4. c \notin Aborted
  BY <1>3 DEF Aborted, Posted, Completion
<1>5. Aborted' = Aborted \cup {c}
  BY <1>0, <1>1, <1>2, AbortedAppended DEF CompleteAt, Aborted, AbortedIn, Code
<1>6. Abstract!GiveUp(c)
  BY <1>1, <1>3, <1>4, <1>5, Kept DEF Abstract!GiveUp, Owners, Suspended
<1>7. QED
  BY <1>2, <1>6 DEF Abstract!Next

LEMMA DestroyMaps ==
  ASSUME IInv, Destroy
  PROVE  Abstract!Next
<1>1. /\ TypeOK /\ CoreTypeOK /\ OneOperation /\ CompleteAll("aborted")
      /\ alive /\ alive' = FALSE /\ UNCHANGED pc /\ \A i \in DOMAIN ready : ~WakeUp(i)
  BY Facts DEF Destroy, Destruct
<1>2. Aborted' = Aborted \cup {c \in Ops : Linked(c)}
  BY <1>1, AbortedDestructed
\* A suspended client is linked, or its abort is on its way.
<1>3. \A c \in Ops : Linked(c) => c \in Wanting
  <2>1. \A c \in Aborted : Posted(c)
    BY DEF Aborted, Posted, Completion
  <2>2. QED
    BY <1>1, <2>1 DEF OneOperation, Wanting, Suspended
<1>4. \A c \in Wanting : Linked(c)
  <2> SUFFICES ASSUME NEW c \in Ops, pc[c] = "suspended", c \notin Aborted, ~Linked(c)
               PROVE  FALSE
    BY DEF Wanting, Suspended
  <2>1. PICK k \in DOMAIN ready : ready[k].op = c
    BY <1>1 DEF OneOperation, Posted
  <2>2. ready[k] \in Handlers /\ ready[k].ec # "ok"
    BY <1>1, <2>1, Places DEF WakeUp
  <2>3. ready[k] = Completion(c, "aborted")
    BY <2>1, <2>2 DEF Handlers, Code, Completion
  <2>4. QED
    BY <2>3 DEF Aborted
<1>5. Wanting' = {} /\ Aborted' = Aborted \cup Wanting /\ Owners' = Owners
  <2>1. {c \in Ops : Linked(c)} = Wanting
    BY <1>3, <1>4 DEF Wanting, Suspended
  <2>2. QED
    BY <1>1, <1>2, <2>1, Kept DEF Wanting
<1>6. Abstract!Close
  BY <1>1, <1>5 DEF Abstract!Close, Owners, Wanting, Suspended
<1>7. QED
  BY <1>6 DEF Abstract!Next

LEMMA NextMaps ==
  ASSUME TryLockSuccess = FALSE
  PROVE  IInv /\ [Next]_vars => [Abstract!Next]_(Abstract!vars)
<1> SUFFICES ASSUME IInv, [Next]_vars
             PROVE  Abstract!Next \/ UNCHANGED Abstract!vars
  OBVIOUS
<1>1. CASE UNCHANGED vars
  <2>1. UNCHANGED <<alive, pc, Aborted>>
    BY <1>1 DEF vars, Aborted
  <2>2. QED
    BY <2>1, Kept, StuttersMaps DEF Wanting
<1>2. QED
  BY <1>1, LockMaps, TryLockMaps, UnlockMaps, DropGuardMaps, RunMaps, CancelMaps, DestroyMaps
     DEF Next

\* The mutex implements a lock (mutex.hpp:30-70), for any number of clients: it is taken
\* in one step, by a client whose abort is not decided, and only while nobody is in.
THEOREM MutexImplements ==
  ASSUME TryLockSuccess = FALSE
  PROVE  Spec => ImplementsLock
<1>1. Init => Abstract!Init
  BY DEF Init, CoreInit, Abstract!Init, Owner, Aborted
<1>2. IInv /\ [Next]_vars => IInv' /\ [Abstract!Next]_(Abstract!vars)
  BY NextInv, NextMaps
<1>3. QED
  BY <1>1, <1>2, InitInv, PTL DEF Spec, ImplementsLock, Abstract!Spec
=============================================================================
