------------------------- MODULE TransactionProofs -------------------------
(***************************************************************************)
(* Proofs about Transaction, for any threads and latches.                  *)
(***************************************************************************)
EXTENDS Transaction, TLAPS

-----------------------------------------------------------------------------
(***************************************************************************)
(* Jobs: the arguments of begin_transaction, one latch or two.             *)
(***************************************************************************)
LatchesOf(j) == {j[i] : i \in DOMAIN j}

LEMMA OneLatch ==
  ASSUME NEW l \in Latches
  PROVE  /\ <<l>> \in Jobs /\ <<l>> # << >> /\ LatchesOf(<<l>>) = {l}
         /\ Len(<<l>>) = 1 /\ <<l>>[1] = l /\ Tail(<<l>>) = << >>
<1>1. DOMAIN <<l>> = {1} /\ <<l>>[1] = l
  OBVIOUS
<1>2. LatchesOf(<<l>>) = {l}
  BY <1>1 DEF LatchesOf
<1>3. QED
  BY <1>1, <1>2 DEF Jobs

LEMMA TwoLatches ==
  ASSUME NEW a \in Latches, NEW b \in Latches, a # b
  PROVE  /\ <<a, b>> \in Jobs /\ <<a, b>> # << >> /\ LatchesOf(<<a, b>>) = {a, b}
         /\ Len(<<a, b>>) = 2 /\ <<a, b>>[1] = a /\ Tail(<<a, b>>) = <<b>>
<1>1. DOMAIN <<a, b>> = {1, 2} /\ <<a, b>>[1] = a /\ <<a, b>>[2] = b
  OBVIOUS
<1>2. LatchesOf(<<a, b>>) = {a, b}
  BY <1>1 DEF LatchesOf
<1>3. <<a, b>> \in Jobs
  BY <1>1 DEF Jobs
<1>4. QED
  BY <1>1, <1>2, <1>3

LEMMA JobShape ==
  ASSUME NEW j \in Jobs
  PROVE  \/ \E l \in Latches : j = <<l>>
         \/ \E a, b \in Latches : a # b /\ j = <<a, b>>
BY DEF Jobs

\* What unlocking the first latch of a list leaves.
LEMMA FirstAndRest ==
  ASSUME NEW j \in Jobs
  PROVE  /\ j # << >> /\ LatchesOf(j) # {} /\ LatchesOf(j) \subseteq Latches
         /\ j[1] \in LatchesOf(j)
         /\ Tail(j) \in Jobs \cup {<< >>}
         /\ LatchesOf(Tail(j)) = LatchesOf(j) \ {j[1]}
         /\ Len(j) = 1 <=> Tail(j) = << >>
         /\ Tail(j) = << >> <=> LatchesOf(j) = {j[1]}
<1>1. LatchesOf(<< >>) = {}
  BY DEF LatchesOf
<1>2. ASSUME NEW l \in Latches, j = <<l>>
      PROVE  /\ j # << >> /\ LatchesOf(j) # {} /\ LatchesOf(j) \subseteq Latches
             /\ j[1] \in LatchesOf(j)
             /\ Tail(j) \in Jobs \cup {<< >>}
             /\ LatchesOf(Tail(j)) = LatchesOf(j) \ {j[1]}
             /\ Len(j) = 1 <=> Tail(j) = << >>
             /\ Tail(j) = << >> <=> LatchesOf(j) = {j[1]}
  <2>1. j # << >> /\ LatchesOf(j) = {l} /\ Len(j) = 1 /\ j[1] = l /\ Tail(j) = << >>
    BY <1>2, OneLatch
  <2> HIDE <1>2
  <2>2. QED
    BY <1>1, <2>1
<1>3. ASSUME NEW a \in Latches, NEW b \in Latches, a # b, j = <<a, b>>
      PROVE  /\ j # << >> /\ LatchesOf(j) # {} /\ LatchesOf(j) \subseteq Latches
             /\ j[1] \in LatchesOf(j)
             /\ Tail(j) \in Jobs \cup {<< >>}
             /\ LatchesOf(Tail(j)) = LatchesOf(j) \ {j[1]}
             /\ Len(j) = 1 <=> Tail(j) = << >>
             /\ Tail(j) = << >> <=> LatchesOf(j) = {j[1]}
  <2>1. /\ j # << >> /\ LatchesOf(j) = {a, b} /\ Len(j) = 2 /\ j[1] = a
        /\ Tail(j) = <<b>>
    BY <1>3, TwoLatches
  <2>2. <<b>> \in Jobs /\ <<b>> # << >> /\ LatchesOf(<<b>>) = {b}
    BY OneLatch
  <2>3. LatchesOf(j) # {j[1]} /\ Len(j) # 1 /\ LatchesOf(Tail(j)) = LatchesOf(j) \ {j[1]}
    BY <1>3, <2>1, <2>2
  <2>4. QED
    BY <2>1, <2>2, <2>3
<1>4. QED
  BY <1>2, <1>3, JobShape

-----------------------------------------------------------------------------
(***************************************************************************)
(* The inductive invariant: what a thread holds, and what it has won.      *)
(***************************************************************************)
\* The latches that the thread has committed.
Won(t) == IF pc[t] \in {"committing", "committed"} THEN Named(t) \ Remaining(t) ELSE {}

\* The mutexes that a thread holds are those of its latches, all of them once
\* std::lock has returned, until they are unlocked one by one.
HoldsItsOwn(t) ==
  /\ \A l \in Latches : holder[l] = t =>
       l \in Named(t) /\ (pc[t] \in {"locking", "locked"} \/ l \in Remaining(t))
  /\ pc[t] = "locked" => \A l \in Named(t) : holder[l] = t
  /\ \A l \in Remaining(t) : holder[l] = t
  /\ pc[t] = "open" => Remaining(t) = Named(t)

\* The flags under the mutexes that it holds do not change, nor do those that it set.
FlagsOfItsOwn(t) ==
  /\ pc[t] \in {"open", "committing", "rolling"} => \A l \in Remaining(t) : ~transferred[l]
  /\ \A l \in Won(t) : transferred[l]
  /\ pc[t] \in {"refusing", "denied"} => \E l \in Named(t) : transferred[l]

IInv ==
  /\ TypeOK
  /\ \A t \in Threads : HoldsItsOwn(t) /\ FlagsOfItsOwn(t)
  /\ \A t, u \in Threads : Won(t) \cap Won(u) # {} => t = u

\* The sets of latches are those of the two lists, before a step and after it.
LEMMA Images ==
  ASSUME NEW t
  PROVE  /\ Named(t) = LatchesOf(job[t]) /\ Remaining(t) = LatchesOf(tx[t])
         /\ Named(t)' = LatchesOf(job'[t]) /\ Remaining(t)' = LatchesOf(tx'[t])
BY DEF Named, Remaining, LatchesOf

\* What the types say of the sets of latches.
LEMMA Sets ==
  ASSUME TypeOK, NEW t \in Threads
  PROVE  /\ Named(t) = LatchesOf(job[t]) /\ Named(t) \subseteq Latches
         /\ Remaining(t) = LatchesOf(tx[t]) /\ Remaining(t) \subseteq Latches
         /\ Named(t) = {} <=> pc[t] = "idle"
         /\ Remaining(t) = {} <=> pc[t] \notin Unlocking
         /\ pc[t] \in Unlocking => tx[t] \in Jobs
         /\ pc[t] # "idle" => job[t] \in Jobs
<1>1. Named(t) = LatchesOf(job[t]) /\ Remaining(t) = LatchesOf(tx[t])
  BY DEF Named, Remaining, LatchesOf
<1>2. LatchesOf(<< >>) = {}
  BY DEF LatchesOf
<1>3. \A j \in Jobs : j # << >> /\ LatchesOf(j) # {} /\ LatchesOf(j) \subseteq Latches
  BY FirstAndRest
<1>4. /\ job[t] \in Jobs \cup {<< >>} /\ tx[t] \in Jobs \cup {<< >>}
      /\ job[t] = << >> <=> pc[t] = "idle"
      /\ tx[t] # << >> <=> pc[t] \in Unlocking
  BY DEF TypeOK
<1>5. QED
  BY <1>1, <1>2, <1>3, <1>4

LEMMA InitInv == Init => IInv
<1> SUFFICES ASSUME Init PROVE IInv
  OBVIOUS
<1>1. TypeOK
  BY DEF Init, TypeOK, Unlocking
<1>2. \A t \in Threads : /\ pc[t] = "idle" /\ Named(t) = {} /\ Remaining(t) = {} /\ Won(t) = {}
                         /\ \A l \in Latches : holder[l] # t
  BY <1>1, Sets, TransactionAssumption DEF Init, Won, Unlocking
<1>3. QED
  BY <1>1, <1>2 DEF IInv, HoldsItsOwn, FlagsOfItsOwn

-----------------------------------------------------------------------------
(***************************************************************************)
(* The steps of a thread leave the others' part of the invariant alone.    *)
(***************************************************************************)
LEMMA Others ==
  ASSUME IInv, TypeOK', NEW t \in Threads,
         \A u \in Threads : u # t =>
           /\ pc'[u] = pc[u] /\ job'[u] = job[u] /\ tx'[u] = tx[u]
           /\ \A l \in Latches : holder'[l] = u <=> holder[l] = u,
         \A l \in Latches : transferred[l] => transferred'[l],
         \A l \in Latches : transferred'[l] /\ ~transferred[l] => holder[l] = t,
         HoldsItsOwn(t)', FlagsOfItsOwn(t)',
         \A l \in Won(t)' : l \in Won(t) \/ ~transferred[l]
  PROVE  IInv'
<1>1. \A u \in Threads : u # t => /\ Named(u)' = Named(u)
                                  /\ Remaining(u)' = Remaining(u)
                                  /\ Won(u)' = Won(u)
                                  /\ Named(u) \subseteq Latches
                                  /\ Remaining(u) \subseteq Latches
  <2> SUFFICES ASSUME NEW u \in Threads, u # t
               PROVE  /\ Named(u)' = Named(u) /\ Remaining(u)' = Remaining(u)
                      /\ Won(u)' = Won(u)
                      /\ Named(u) \subseteq Latches /\ Remaining(u) \subseteq Latches
    OBVIOUS
  <2>1. Named(u)' = Named(u) /\ Remaining(u)' = Remaining(u) /\ pc'[u] = pc[u]
    BY Images
  <2>2. Won(u)' = Won(u)
    BY <2>1 DEF Won
  <2>3. Named(u) \subseteq Latches /\ Remaining(u) \subseteq Latches
    BY Sets DEF IInv
  <2>4. QED
    BY <2>1, <2>2, <2>3
<1>2. ASSUME NEW u \in Threads, u # t
      PROVE  HoldsItsOwn(u)' /\ FlagsOfItsOwn(u)'
  <2>1. HoldsItsOwn(u) /\ FlagsOfItsOwn(u)
    BY DEF IInv
  <2>2. /\ pc'[u] = pc[u]
        /\ Named(u)' = Named(u) /\ Remaining(u)' = Remaining(u) /\ Won(u)' = Won(u)
        /\ Named(u) \subseteq Latches /\ Remaining(u) \subseteq Latches
        /\ Won(u) \subseteq Latches
        /\ \A l \in Latches : holder'[l] = u <=> holder[l] = u
    BY <1>1, <1>2 DEF Won
  <2>3. HoldsItsOwn(u)'
    BY <2>1, <2>2 DEF HoldsItsOwn
  <2>4. \A l \in Remaining(u) : holder[l] # t
    BY <1>2, <2>1 DEF HoldsItsOwn
  <2>5. FlagsOfItsOwn(u)'
    BY <2>1, <2>2, <2>4 DEF FlagsOfItsOwn
  <2>6. QED
    BY <2>3, <2>5
<1>3. ASSUME NEW u \in Threads, NEW v \in Threads, u # v, NEW l \in Won(u)', l \in Won(v)'
      PROVE  FALSE
  <2>1. \A w \in Threads : \A k \in Won(w) : transferred[k]
    BY DEF IInv, FlagsOfItsOwn
  <2>2. ~(l \in Won(u) /\ l \in Won(v))
    BY <1>3 DEF IInv
  <2>3. QED
    BY <1>1, <1>3, <2>1, <2>2
<1>4. QED
  BY <1>2, <1>3 DEF IInv

\* begin_transaction is called.
LEMMA BeginInv ==
  ASSUME IInv, NEW t \in Threads, NEW j \in Jobs, Begin(t, j)
  PROVE  IInv'
<1>1. j # << >> /\ TypeOK
  BY FirstAndRest DEF IInv
<1>2. TypeOK'
  BY <1>1 DEF TypeOK, Begin, Goto, Unlocking
<1>3. /\ pc[t] = "idle" /\ pc'[t] = "locking"
      /\ \A u \in Threads : u # t => pc'[u] = pc[u] /\ job'[u] = job[u]
      /\ UNCHANGED <<transferred, holder, tx>>
  BY <1>1 DEF Begin, Goto, TypeOK
<1>4. Named(t) = {} /\ Remaining(t) = {} /\ Remaining(t)' = {} /\ Won(t)' = {}
  BY <1>1, <1>3, Sets, Images DEF Won, Unlocking
<1>5. HoldsItsOwn(t)' /\ FlagsOfItsOwn(t)'
  <2>1. \A l \in Latches : holder'[l] # t
    BY <1>3, <1>4 DEF IInv, HoldsItsOwn
  <2>2. QED
    BY <1>3, <1>4, <2>1 DEF HoldsItsOwn, FlagsOfItsOwn
<1>6. QED
  BY <1>2, <1>3, <1>4, <1>5, Others

\* The steps of lock() and std::lock, where a thread has nothing to unlock yet.
LEMMA LockingInv ==
  ASSUME IInv, NEW t \in Threads, pc[t] = "locking", pc'[t] \in {"locking", "locked"},
         TypeOK', UNCHANGED <<transferred, job, tx>>,
         \A u \in Threads : u # t => pc'[u] = pc[u],
         \A u \in Threads : u # t => \A l \in Latches : holder'[l] = u <=> holder[l] = u,
         \A l \in Latches : holder'[l] = t => l \in Named(t),
         pc'[t] = "locked" => \A l \in Named(t) : holder'[l] = t
  PROVE  IInv'
<1>1. TypeOK /\ Remaining(t) = {} /\ Won(t)' = {}
  BY Sets DEF IInv, Unlocking, Won
<1>2. Named(t)' = Named(t) /\ Remaining(t)' = Remaining(t)
  BY DEF Named, Remaining
<1>3. HoldsItsOwn(t)' /\ FlagsOfItsOwn(t)'
  BY <1>1, <1>2 DEF HoldsItsOwn, FlagsOfItsOwn
<1>4. QED
  BY <1>1, <1>3, Others

LEMMA LockFirstInv ==
  ASSUME IInv, NEW t \in Threads, NEW l \in Named(t), LockFirst(t, l)
  PROVE  IInv'
<1>1. TypeOK /\ l \in Latches /\ Free # t /\ Free \notin Threads
  BY Sets, TransactionAssumption DEF IInv
<1>2. TypeOK'
  BY <1>1 DEF TypeOK, LockFirst, Goto, Unlocking
<1>3. /\ pc[t] = "locking" /\ pc'[t] \in {"locking", "locked"}
      /\ pc'[t] = "locked" => Named(t) = {l}
      /\ UNCHANGED <<transferred, job, tx>>
      /\ \A u \in Threads : u # t => pc'[u] = pc[u]
      /\ \A k \in Latches : holder'[k] = IF k = l THEN t ELSE holder[k]
      /\ holder[l] = Free
      /\ \A k \in Latches : holder[k] # t
  BY <1>1 DEF TypeOK, LockFirst, Goto, Held
<1>4. QED
  BY <1>1, <1>2, <1>3, LockingInv

LEMMA LockSecondInv ==
  ASSUME IInv, NEW t \in Threads, NEW l \in Named(t), LockSecond(t, l)
  PROVE  IInv'
<1>1. TypeOK /\ l \in Latches /\ Free # t /\ Free \notin Threads
  BY Sets, TransactionAssumption DEF IInv
<1>2. TypeOK'
  BY <1>1 DEF TypeOK, LockSecond, Goto, Unlocking
<1>3. /\ pc[t] = "locking" /\ pc'[t] = "locked"
      /\ UNCHANGED <<transferred, job, tx>>
      /\ \A u \in Threads : u # t => pc'[u] = pc[u]
      /\ \A k \in Latches : holder'[k] = IF k = l THEN t ELSE holder[k]
      /\ holder[l] = Free
  BY <1>1 DEF TypeOK, LockSecond, Goto
<1>4. PICK k \in Latches : holder[k] = t
  BY DEF LockSecond, Held
<1>5. k \in Named(t) /\ k # l
  BY <1>1, <1>3, <1>4 DEF IInv, HoldsItsOwn
<1>6. Named(t) = {k, l}
  <2>1. Named(t) = LatchesOf(job[t]) /\ job[t] \in Jobs
    BY <1>1, <1>3, Sets
  <2>2. CASE \E a \in Latches : job[t] = <<a>>
    BY <1>5, <2>1, <2>2, OneLatch
  <2>3. CASE \E a, b \in Latches : a # b /\ job[t] = <<a, b>>
    <3>1. PICK a \in Latches, b \in Latches : a # b /\ job[t] = <<a, b>>
      BY <2>3
    <3>2. LatchesOf(<<a, b>>) = {a, b}
      BY <3>1, TwoLatches
    <3>3. QED
      BY <1>5, <2>1, <3>1, <3>2
  <2>4. QED
    BY <2>1, <2>2, <2>3, JobShape
<1>7. \A m \in Latches : holder[m] = t => m \in Named(t)
  BY DEF IInv, HoldsItsOwn
<1>8. QED
  BY <1>1, <1>2, <1>3, <1>4, <1>5, <1>6, <1>7, LockingInv

LEMMA BackOffInv ==
  ASSUME IInv, NEW t \in Threads, NEW l \in Named(t), BackOff(t, l)
  PROVE  IInv'
<1>1. TypeOK /\ Free # t /\ Free \notin Threads
  BY TransactionAssumption DEF IInv
<1>2. TypeOK'
  BY <1>1 DEF TypeOK, BackOff
<1>3. /\ pc[t] = "locking" /\ UNCHANGED <<transferred, pc, job, tx>>
      /\ \A k \in Latches : holder'[k] = IF holder[k] = t THEN Free ELSE holder[k]
  BY DEF BackOff
<1>4. QED
  BY <1>1, <1>2, <1>3, LockingInv

\* The test, under the mutexes.
LEMMA TestInv ==
  ASSUME IInv, NEW t \in Threads, Test(t)
  PROVE  IInv'
<1>1. TypeOK /\ job[t] \in Jobs /\ job[t] # << >> /\ Named(t) \subseteq Latches
  BY Sets, FirstAndRest DEF IInv, Test
<1>2. TypeOK'
  BY <1>1 DEF TypeOK, Test, Goto, Unlocking
<1>3. /\ pc[t] = "locked" /\ tx'[t] = job[t]
      /\ pc'[t] = IF \A l \in Named(t) : ~transferred[l] THEN "open" ELSE "refusing"
      /\ UNCHANGED <<transferred, holder, job>>
      /\ \A u \in Threads : u # t => pc'[u] = pc[u] /\ tx'[u] = tx[u]
  BY <1>1 DEF TypeOK, Test, Goto, MayCommit
<1>4. Remaining(t)' = Named(t) /\ Named(t)' = Named(t) /\ Won(t)' = {}
  BY <1>3 DEF Remaining, Named, Won
<1>5. \A l \in Latches : holder[l] = t <=> l \in Named(t)
  BY <1>1, <1>3 DEF IInv, HoldsItsOwn
<1>6. HoldsItsOwn(t)' /\ FlagsOfItsOwn(t)'
  BY <1>1, <1>3, <1>4, <1>5 DEF HoldsItsOwn, FlagsOfItsOwn
<1>7. QED
  BY <1>2, <1>3, <1>4, <1>6, Others

-----------------------------------------------------------------------------
(***************************************************************************)
(* The steps that unlock the next latch.                                   *)
(***************************************************************************)
LEMMA UnlockEffect ==
  ASSUME IInv, NEW t \in Threads, pc[t] \in Unlocking,
         NEW s \in Unlocking, NEW e \in Ended, UnlockNext(t, s, e),
         transferred' \in [Latches -> BOOLEAN]
  PROVE  LET l == tx[t][1]
         IN  /\ TypeOK'
             /\ l \in Remaining(t) /\ l \in Latches /\ holder[l] = t
             /\ \A k \in Latches : holder'[k] = IF k = l THEN Free ELSE holder[k]
             /\ Remaining(t)' = Remaining(t) \ {l} /\ Named(t)' = Named(t)
             /\ Remaining(t) = {l} => pc'[t] = e
             /\ Remaining(t) # {l} => pc'[t] = s
             /\ \A u \in Threads : u # t => pc'[u] = pc[u] /\ job'[u] = job[u] /\ tx'[u] = tx[u]
<1> DEFINE l == tx[t][1]
<1>1. TypeOK /\ tx[t] \in Jobs /\ Remaining(t) = LatchesOf(tx[t])
  BY Sets DEF IInv
<1>2. /\ l \in Remaining(t) /\ l \in Latches
      /\ Tail(tx[t]) \in Jobs \cup {<< >>}
      /\ LatchesOf(Tail(tx[t])) = Remaining(t) \ {l}
      /\ Len(tx[t]) = 1 <=> Tail(tx[t]) = << >>
      /\ Tail(tx[t]) = << >> <=> Remaining(t) = {l}
  BY <1>1, FirstAndRest
<1>3. holder[l] = t
  BY <1>2 DEF IInv, HoldsItsOwn
<1>4. /\ holder' = [holder EXCEPT ![l] = Free]
      /\ tx' = [tx EXCEPT ![t] = Tail(tx[t])]
      /\ pc' = [pc EXCEPT ![t] = IF Len(tx[t]) = 1 THEN e ELSE s]
      /\ job' = job
  BY <1>1 DEF UnlockNext, Goto, TypeOK
<1> HIDE DEF l
<1>5. /\ tx'[t] = Tail(tx[t]) /\ pc'[t] = IF Len(tx[t]) = 1 THEN e ELSE s
      /\ \A u \in Threads : u # t => pc'[u] = pc[u] /\ job'[u] = job[u] /\ tx'[u] = tx[u]
      /\ \A k \in Latches : holder'[k] = IF k = l THEN Free ELSE holder[k]
  BY <1>1, <1>4 DEF TypeOK
<1>6. TypeOK'
  <2>1. /\ holder' \in [Latches -> Threads \cup {Free}]
        /\ pc' \in [Threads -> {"idle", "locking", "locked"} \cup Unlocking \cup Ended]
        /\ job' \in [Threads -> Jobs \cup {<< >>}]
        /\ tx' \in [Threads -> Jobs \cup {<< >>}]
    BY <1>1, <1>2, <1>4 DEF TypeOK
  <2>2. \A u \in Threads : /\ job'[u] = << >> <=> pc'[u] = "idle"
                           /\ tx'[u] # << >> <=> pc'[u] \in Unlocking
    <3>1. /\ job'[t] = << >> <=> pc'[t] = "idle"
          /\ tx'[t] # << >> <=> pc'[t] \in Unlocking
      BY <1>1, <1>2, <1>4, <1>5 DEF TypeOK, Unlocking, Ended
    <3>2. QED
      BY <1>1, <1>5, <3>1 DEF TypeOK
  <2>3. QED
    BY <2>1, <2>2 DEF TypeOK
<1>7. Remaining(t)' = Remaining(t) \ {l} /\ Named(t)' = Named(t)
  BY <1>2, <1>4, <1>5, Images
<1>8. QED
  BY <1>2, <1>3, <1>5, <1>6, <1>7 DEF l

LEMMA CommitInv ==
  ASSUME IInv, NEW t \in Threads, Commit(t)
  PROVE  IInv'
<1> DEFINE l == tx[t][1]
<1>1. /\ TypeOK /\ pc[t] \in {"open", "committing"} /\ pc[t] \in Unlocking
      /\ UnlockNext(t, "committing", "committed")
      /\ transferred' = [transferred EXCEPT ![l] = TRUE]
      /\ transferred' \in [Latches -> BOOLEAN]
  BY DEF IInv, TypeOK, Commit, Unlocking
<1>2. /\ TypeOK'
      /\ l \in Remaining(t) /\ l \in Latches /\ holder[l] = t
      /\ \A k \in Latches : holder'[k] = IF k = l THEN Free ELSE holder[k]
      /\ Remaining(t)' = Remaining(t) \ {l} /\ Named(t)' = Named(t)
      /\ Remaining(t) = {l} => pc'[t] = "committed"
      /\ Remaining(t) # {l} => pc'[t] = "committing"
      /\ \A u \in Threads : u # t => pc'[u] = pc[u] /\ job'[u] = job[u] /\ tx'[u] = tx[u]
  BY <1>1, UnlockEffect DEF Unlocking, Ended
<1> HIDE DEF l
<1>3. \A k \in Latches : transferred'[k] = IF k = l THEN TRUE ELSE transferred[k]
  BY <1>1, <1>2 DEF TypeOK
<1>4. /\ HoldsItsOwn(t) /\ FlagsOfItsOwn(t) /\ ~transferred[l]
      /\ Remaining(t) \subseteq Latches /\ Named(t) \subseteq Latches
      /\ Free # t /\ Free \notin Threads
  BY <1>1, <1>2, Sets, TransactionAssumption DEF IInv, FlagsOfItsOwn
<1>5. Won(t)' = Won(t) \cup {l} /\ Won(t) \subseteq Latches
  BY <1>1, <1>2, <1>4 DEF Won, HoldsItsOwn
<1>6. HoldsItsOwn(t)'
  BY <1>1, <1>2, <1>4 DEF HoldsItsOwn
<1>7. FlagsOfItsOwn(t)'
  BY <1>1, <1>2, <1>3, <1>4, <1>5 DEF FlagsOfItsOwn
<1>8. /\ \A u \in Threads : u # t => \A k \in Latches : holder'[k] = u <=> holder[k] = u
      /\ \A k \in Latches : transferred[k] => transferred'[k]
      /\ \A k \in Latches : transferred'[k] /\ ~transferred[k] => holder[k] = t
      /\ \A k \in Won(t)' : k \in Won(t) \/ ~transferred[k]
  BY <1>2, <1>3, <1>4, <1>5
<1>9. QED
  BY <1>2, <1>6, <1>7, <1>8, Others

LEMMA RollbackInv ==
  ASSUME IInv, NEW t \in Threads, Rollback(t)
  PROVE  IInv'
<1> DEFINE l == tx[t][1]
<1>1. /\ TypeOK /\ pc[t] \in {"open", "rolling"} /\ pc[t] \in Unlocking
      /\ UnlockNext(t, "rolling", "withdrawn")
      /\ transferred' = transferred
      /\ transferred' \in [Latches -> BOOLEAN]
  BY DEF IInv, TypeOK, Rollback, Unlocking
<1>2. /\ TypeOK'
      /\ l \in Remaining(t) /\ l \in Latches /\ holder[l] = t
      /\ \A k \in Latches : holder'[k] = IF k = l THEN Free ELSE holder[k]
      /\ Remaining(t)' = Remaining(t) \ {l} /\ Named(t)' = Named(t)
      /\ Remaining(t) = {l} => pc'[t] = "withdrawn"
      /\ Remaining(t) # {l} => pc'[t] = "rolling"
      /\ \A u \in Threads : u # t => pc'[u] = pc[u] /\ job'[u] = job[u] /\ tx'[u] = tx[u]
  BY <1>1, UnlockEffect DEF Unlocking, Ended
<1> HIDE DEF l
<1>3. /\ HoldsItsOwn(t) /\ FlagsOfItsOwn(t)
      /\ Remaining(t) \subseteq Latches
      /\ Free # t /\ Free \notin Threads
  BY <1>1, Sets, TransactionAssumption DEF IInv
<1>4. Won(t)' = {}
  BY <1>2 DEF Won
<1>5. HoldsItsOwn(t)'
  BY <1>1, <1>2, <1>3 DEF HoldsItsOwn
<1>6. FlagsOfItsOwn(t)'
  BY <1>1, <1>2, <1>3, <1>4 DEF FlagsOfItsOwn
<1>7. QED
  BY <1>1, <1>2, <1>3, <1>4, <1>5, <1>6, Others

LEMMA RefuseInv ==
  ASSUME IInv, NEW t \in Threads, Refuse(t)
  PROVE  IInv'
<1> DEFINE l == tx[t][1]
<1>1. /\ TypeOK /\ pc[t] = "refusing" /\ pc[t] \in Unlocking
      /\ UnlockNext(t, "refusing", "denied")
      /\ transferred' = transferred
      /\ transferred' \in [Latches -> BOOLEAN]
  BY DEF IInv, TypeOK, Refuse, Unlocking
<1>2. /\ TypeOK'
      /\ l \in Remaining(t) /\ l \in Latches /\ holder[l] = t
      /\ \A k \in Latches : holder'[k] = IF k = l THEN Free ELSE holder[k]
      /\ Remaining(t)' = Remaining(t) \ {l} /\ Named(t)' = Named(t)
      /\ Remaining(t) = {l} => pc'[t] = "denied"
      /\ Remaining(t) # {l} => pc'[t] = "refusing"
      /\ \A u \in Threads : u # t => pc'[u] = pc[u] /\ job'[u] = job[u] /\ tx'[u] = tx[u]
  BY <1>1, UnlockEffect DEF Unlocking, Ended
<1> HIDE DEF l
<1>3. /\ HoldsItsOwn(t) /\ FlagsOfItsOwn(t)
      /\ Remaining(t) \subseteq Latches
      /\ Free # t /\ Free \notin Threads
  BY <1>1, Sets, TransactionAssumption DEF IInv
<1>4. Won(t)' = {}
  BY <1>2 DEF Won
<1>5. HoldsItsOwn(t)'
  BY <1>1, <1>2, <1>3 DEF HoldsItsOwn
<1>6. FlagsOfItsOwn(t)'
  BY <1>1, <1>2, <1>3, <1>4 DEF FlagsOfItsOwn
<1>7. QED
  BY <1>1, <1>2, <1>3, <1>4, <1>5, <1>6, Others

-----------------------------------------------------------------------------
LEMMA FinishInv ==
  ASSUME IInv, NEW t \in Threads, Finish(t)
  PROVE  IInv'
<1>1. TypeOK /\ pc[t] \in Ended /\ pc[t] \notin Unlocking
  BY DEF IInv, Finish, Ended, Unlocking
<1>2. TypeOK'
  BY <1>1 DEF TypeOK, Finish, Goto, Unlocking, Ended
<1>3. /\ pc'[t] = "idle" /\ UNCHANGED <<transferred, holder, tx>>
      /\ \A u \in Threads : u # t => pc'[u] = pc[u] /\ job'[u] = job[u]
  BY <1>1 DEF Finish, Goto, TypeOK
<1>4. Remaining(t) = {} /\ Remaining(t)' = {} /\ Won(t)' = {}
  BY <1>1, <1>3, Sets, Images DEF Won
<1>5. \A l \in Latches : holder[l] # t
  BY <1>1, <1>4 DEF IInv, HoldsItsOwn, Ended
<1>6. HoldsItsOwn(t)' /\ FlagsOfItsOwn(t)'
  BY <1>3, <1>4, <1>5 DEF HoldsItsOwn, FlagsOfItsOwn
<1>7. QED
  BY <1>2, <1>3, <1>4, <1>6, Others

\* A latch is reset when nobody names it.
LEMMA ResetInv ==
  ASSUME IInv, NEW l \in Latches, Reset(l)
  PROVE  IInv'
<1>1. TypeOK /\ UNCHANGED <<holder, pc, job, tx>>
  BY DEF IInv, Reset
<1>2. TypeOK'
  BY <1>1 DEF TypeOK, Reset
<1>3. \A k \in Latches : k # l => transferred'[k] = transferred[k]
  BY <1>1 DEF TypeOK, Reset
<1>4. ASSUME NEW t \in Threads
      PROVE  /\ Named(t)' = Named(t) /\ Remaining(t)' = Remaining(t) /\ Won(t)' = Won(t)
             /\ Named(t) \subseteq Latches \ {l}
             /\ Remaining(t) \subseteq Named(t)
             /\ Won(t) \subseteq Named(t)
  <2>1. Named(t) \subseteq Latches /\ Remaining(t) \subseteq Latches
    BY <1>1, Sets
  <2>2. Remaining(t) \subseteq Named(t)
    BY <2>1 DEF IInv, HoldsItsOwn
  <2>3. Named(t)' = Named(t) /\ Remaining(t)' = Remaining(t)
    BY <1>1, Images
  <2>4. Won(t)' = Won(t) /\ Won(t) \subseteq Named(t)
    BY <1>1, <2>3 DEF Won
  <2>5. l \notin Named(t)
    BY DEF Reset
  <2>6. QED
    BY <2>1, <2>2, <2>3, <2>4, <2>5
<1>5. ASSUME NEW t \in Threads
      PROVE  HoldsItsOwn(t)' /\ FlagsOfItsOwn(t)'
  <2>1. HoldsItsOwn(t)'
    BY <1>1, <1>4 DEF IInv, HoldsItsOwn
  <2>2. FlagsOfItsOwn(t) /\ pc'[t] = pc[t]
    BY <1>1 DEF IInv
  <2>3. \A k \in Named(t) : transferred'[k] = transferred[k]
    BY <1>3, <1>4
  <2>4. FlagsOfItsOwn(t)'
    BY <1>4, <2>2, <2>3 DEF FlagsOfItsOwn
  <2>5. QED
    BY <2>1, <2>4
<1>6. QED
  BY <1>2, <1>4, <1>5 DEF IInv

LEMMA NextInv == IInv /\ [Next]_vars => IInv'
<1> SUFFICES ASSUME IInv, [Next]_vars
             PROVE  IInv'
  OBVIOUS
<1>1. CASE UNCHANGED vars
  <2>1. UNCHANGED <<transferred, holder, pc, job, tx>>
    BY <1>1 DEF vars
  <2>2. TypeOK'
    BY <2>1 DEF IInv, TypeOK
  <2>3. ASSUME NEW t \in Threads
        PROVE  /\ Named(t)' = Named(t) /\ Remaining(t)' = Remaining(t) /\ Won(t)' = Won(t)
               /\ HoldsItsOwn(t)' /\ FlagsOfItsOwn(t)'
    <3>1. Named(t)' = Named(t) /\ Remaining(t)' = Remaining(t)
      BY <2>1, Images
    <3>2. Won(t)' = Won(t)
      BY <2>1, <3>1 DEF Won
    <3>3. HoldsItsOwn(t)' /\ FlagsOfItsOwn(t)'
      BY <2>1, <3>1, <3>2 DEF IInv, HoldsItsOwn, FlagsOfItsOwn
    <3>4. QED
      BY <3>1, <3>2, <3>3
  <2>4. QED
    BY <2>2, <2>3 DEF IInv
<1>2. ASSUME NEW t \in Threads, Step(t)
      PROVE  IInv'
  BY <1>2, LockFirstInv, LockSecondInv, BackOffInv, TestInv, CommitInv, RollbackInv,
     RefuseInv, FinishInv DEF Step
<1>3. QED
  BY <1>1, <1>2, BeginInv, ResetInv DEF Next

-----------------------------------------------------------------------------
\* Types: in particular a thread has a latch to unlock exactly while its
\* transaction is open or on its way out.
THEOREM TypeCorrect == Spec => []TypeOK
<1>1. IInv => TypeOK
  BY DEF IInv
<1>2. QED
  BY <1>1, InitInv, NextInv, PTL DEF Spec

\* The asserts and preconditions of the latches hold wherever commit and rollback
\* run, in any number of threads.
THEOREM LatchPreconditionsHold == Spec => []LatchPreconditions
<1>1. IInv => LatchPreconditions
  <2> SUFFICES ASSUME IInv, NEW t \in Threads, NEW l \in Remaining(t)
               PROVE  holder[l] = t /\ (pc[t] # "refusing" => MayCommit(l))
    BY DEF LatchPreconditions
  <2>1. pc[t] \in Unlocking
    BY Sets DEF IInv
  <2>2. QED
    BY <2>1 DEF IInv, HoldsItsOwn, FlagsOfItsOwn, MayCommit, Unlocking
<1>2. QED
  BY <1>1, InitInv, NextInv, PTL DEF Spec

\* Every way out of a transaction unlocks all that was locked.
THEOREM NoMutexLeftHolds == Spec => []NoMutexLeft
<1>1. IInv => NoMutexLeft
  <2> SUFFICES ASSUME IInv, NEW t \in Threads, pc[t] \notin {"locking", "locked"}
               PROVE  Held(t) = Remaining(t)
    BY DEF NoMutexLeft
  <2>1. Remaining(t) \subseteq Latches
    BY Sets DEF IInv
  <2>2. QED
    BY <2>1 DEF IInv, HoldsItsOwn, Held
<1>2. QED
  BY <1>1, InitInv, NextInv, PTL DEF Spec

\* A latch has one winner at most.
THEOREM OneWinnerHolds == Spec => []OneWinner
<1>1. IInv => OneWinner
  <2> SUFFICES ASSUME IInv, NEW t \in Threads, NEW u \in Threads,
                      pc[t] = "committed", pc[u] = "committed",
                      Named(t) \cap Named(u) # {}
               PROVE  t = u
    BY DEF OneWinner
  <2>1. Won(t) = Named(t) /\ Won(u) = Named(u)
    BY Sets DEF IInv, Won, Unlocking
  <2>2. QED
    BY <2>1 DEF IInv
<1>2. QED
  BY <1>1, InitInv, NextInv, PTL DEF Spec

\* A transaction is denied only for a latch that was committed.
THEOREM DeniedOnlyIfTakenHolds == Spec => []DeniedOnlyIfTaken
<1>1. IInv => DeniedOnlyIfTaken
  BY DEF IInv, FlagsOfItsOwn, DeniedOnlyIfTaken
<1>2. QED
  BY <1>1, InitInv, NextInv, PTL DEF Spec

-----------------------------------------------------------------------------
(***************************************************************************)
(* No hold and wait.  HolderNeverBlocks says it with ENABLED, which is out *)
(* of the provers' reach; here are the guards of Step(t).                  *)
(***************************************************************************)
\* While std::lock runs a mutex is left to lock.
LeftToLock == \A t \in Threads : pc[t] = "locking" => \E l \in Named(t) : holder[l] # t

\* The guards of the steps of a thread that holds a mutex: when one is left to
\* lock it is free (LockSecond) or another's (BackOff); then there is no waiting.
MayProceed(t) ==
  \/ pc[t] = "locking" /\ \E l \in Named(t) : holder[l] = Free \/ holder[l] \notin {Free, t}
  \/ pc[t] = "locked"
  \/ pc[t] \in Unlocking /\ tx[t] # << >>

\* A thread takes a mutex in its own locking steps only, and stops locking when it
\* has all that it named.
LEMMA LeftToLockNext == IInv /\ LeftToLock /\ [Next]_vars => LeftToLock'
<1> SUFFICES ASSUME IInv, LeftToLock, [Next]_vars, NEW t \in Threads, pc'[t] = "locking"
             PROVE  \E l \in Named(t)' : holder'[l] # t
  BY DEF LeftToLock
<1>1. /\ holder \in [Latches -> Threads \cup {Free}] /\ Free \notin Threads
      /\ Named(t) \subseteq Latches /\ (Named(t) = {} => pc[t] = "idle")
      /\ pc \in [Threads -> {"idle", "locking", "locked"} \cup Unlocking \cup Ended]
      /\ job \in [Threads -> Jobs \cup {<< >>}]
  BY TransactionAssumption, Sets DEF IInv, TypeOK
<1>2. ASSUME NEW u \in Threads, NEW j \in Jobs, Begin(u, j)
      PROVE  \E l \in Named(t)' : holder'[l] # t
  <2>1. CASE u = t
    <3>1. job'[t] = j /\ holder' = holder /\ pc[t] = "idle"
      BY <1>1, <1>2, <2>1 DEF Begin
    <3>2. Named(t)' = LatchesOf(j) /\ LatchesOf(j) # {} /\ LatchesOf(j) \subseteq Latches
      BY <3>1, Images, FirstAndRest
    <3>3. Named(t) = {}
      BY <3>1, Sets DEF IInv
    <3>4. \A l \in Latches : holder[l] # t
      BY <3>3 DEF IInv, HoldsItsOwn
    <3>5. QED
      BY <3>1, <3>2, <3>4
  <2>2. CASE u # t
    <3>1. pc[t] = "locking" /\ Named(t)' = Named(t) /\ holder' = holder
      BY <1>1, <1>2, <2>2 DEF Begin, Goto, Named
    <3>2. QED
      BY <3>1 DEF LeftToLock
  <2>3. QED
    BY <2>1, <2>2
<1>3. ASSUME NEW u \in Threads, Step(u), u # t
      PROVE  \E l \in Named(t)' : holder'[l] # t
  <2>1. pc[t] = "locking" /\ job'[t] = job[t]
    BY <1>1, <1>3 DEF Step, LockFirst, LockSecond, BackOff, Test, Commit, Rollback, Refuse, Finish,
                      UnlockNext, Goto
  <2>2. Named(t)' = Named(t)
    BY <2>1 DEF Named
  <2>3. \A l \in Latches : holder[l] # t => holder'[l] # t
    BY <1>1, <1>3 DEF Step, LockFirst, LockSecond, BackOff, Test, Commit, Rollback, Refuse, Finish,
                      UnlockNext
  <2>4. QED
    BY <1>1, <2>1, <2>2, <2>3 DEF LeftToLock
<1>4. ASSUME NEW l \in Named(t), LockFirst(t, l)
      PROVE  \E k \in Named(t)' : holder'[k] # t
  <2>1. /\ Held(t) = {} /\ holder' = [holder EXCEPT ![l] = t] /\ job' = job
        /\ pc' = [pc EXCEPT ![t] = IF Named(t) = {l} THEN "locked" ELSE "locking"]
    BY <1>4 DEF LockFirst, Goto
  <2>2. Named(t) # {l} /\ Named(t)' = Named(t)
    BY <1>1, <2>1 DEF Named
  <2>3. PICK k \in Named(t) : k # l
    BY <1>4, <2>2
  <2>4. holder'[k] # t
    BY <1>1, <2>1, <2>3 DEF Held
  <2>5. QED
    BY <2>2, <2>4
<1>5. ASSUME NEW l \in Named(t), BackOff(t, l)
      PROVE  \E k \in Named(t)' : holder'[k] # t
  <2>1. Named(t)' = Named(t)
    BY <1>5 DEF BackOff, Named
  <2>2. holder'[l] # t
    BY <1>1, <1>5 DEF BackOff
  <2>3. QED
    BY <2>1, <2>2
<1>6. ASSUME Step(t)
      PROVE  \E k \in Named(t)' : holder'[k] # t
  <2>1. ASSUME NEW l \in Named(t), LockSecond(t, l)
        PROVE  FALSE
    BY <1>1, <2>1 DEF LockSecond, Goto
  <2>2. ~Test(t) /\ ~Commit(t) /\ ~Rollback(t) /\ ~Refuse(t) /\ ~Finish(t)
    BY <1>1 DEF Test, Commit, Rollback, Refuse, Finish, UnlockNext, Goto
  <2>3. QED
    BY <1>4, <1>5, <1>6, <2>1, <2>2 DEF Step
<1>7. ASSUME NEW k \in Latches, Reset(k)
      PROVE  \E l \in Named(t)' : holder'[l] # t
  <2>1. Named(t)' = Named(t) /\ holder' = holder /\ pc' = pc
    BY <1>7 DEF Reset, Named
  <2>2. QED
    BY <2>1 DEF LeftToLock
<1>8. CASE UNCHANGED vars
  <2>1. Named(t)' = Named(t) /\ holder' = holder /\ pc' = pc
    BY <1>8 DEF vars, Named
  <2>2. QED
    BY <2>1 DEF LeftToLock
<1>9. QED
  BY <1>2, <1>3, <1>6, <1>7, <1>8 DEF Next

\* A thread that holds the mutex of a latch never waits for another, for any number
\* of threads and latches named in any order: a guard of its next step holds.
THEOREM HolderProceeds == Spec => [](\A t \in Threads : Held(t) # {} => MayProceed(t))
<1>1. Init => LeftToLock
  BY DEF Init, LeftToLock
<1>2. IInv /\ LeftToLock => \A t \in Threads : Held(t) # {} => MayProceed(t)
  <2>1. SUFFICES ASSUME IInv, LeftToLock, NEW t \in Threads, NEW l \in Latches, holder[l] = t
                 PROVE  MayProceed(t)
    BY DEF Held
  <2>2. pc[t] \in {"locking", "locked"} \/ l \in Remaining(t)
    BY <2>1 DEF IInv, HoldsItsOwn
  <2>3. CASE pc[t] = "locking"
    BY <2>1, <2>3 DEF LeftToLock, MayProceed
  <2>4. CASE l \in Remaining(t)
    <3>1. pc[t] \in Unlocking
      BY <2>1, <2>4, Sets DEF IInv
    <3>2. QED
      BY <2>1, <3>1 DEF IInv, TypeOK, MayProceed
  <2>5. QED
    BY <2>2, <2>3, <2>4 DEF MayProceed
<1>3. QED
  BY <1>1, <1>2, InitInv, NextInv, LeftToLockNext, PTL DEF Spec

-----------------------------------------------------------------------------
(***************************************************************************)
(* Transactions under mutexes implement AtomicTransfer: taking one latch   *)
(* after the other is, to the threads, a single step.                      *)
(***************************************************************************)
AllAbstract == <<Done, Wanted, Results>>

\* What a step of one thread changes in the abstract state.
LEMMA Mapped ==
  ASSUME NEW t \in Threads,
         \A u \in Threads : u # t => pc'[u] = pc[u] /\ job'[u] = job[u] /\ tx'[u] = tx[u]
  PROVE  /\ Wanted' = [Wanted EXCEPT ![t] = Named(t)']
         /\ Results' = [Results EXCEPT ![t] = Result(t)']
         /\ \A u \in Threads : u # t => TakenBy(u)' = TakenBy(u)
<1>1. ASSUME NEW u \in Threads, u # t
      PROVE  Named(u)' = Named(u) /\ Remaining(u)' = Remaining(u) /\ pc'[u] = pc[u]
  BY <1>1, Images
<1>2. ASSUME NEW u \in Threads, u # t
      PROVE  Result(u)' = Result(u) /\ TakenBy(u)' = TakenBy(u)
  BY <1>1, <1>2 DEF Result, TakenBy
<1>3. QED
  BY <1>1, <1>2 DEF Wanted, Results

\* A step that shows in neither the outcome nor the latches of a thread is a stutter.
LEMMA Unseen ==
  ASSUME NEW t \in Threads,
         \A u \in Threads : u # t => pc'[u] = pc[u] /\ job'[u] = job[u] /\ tx'[u] = tx[u],
         Named(t)' = Named(t), Result(t)' = Result(t),
         \A l \in Latches : transferred'[l] \/ l \in TakenBy(t)' <=>
                            transferred[l] \/ l \in TakenBy(t)
  PROVE  UNCHANGED AllAbstract
<1>1. Wanted' = Wanted /\ Results' = Results
  BY Mapped DEF Wanted, Results
<1>2. ASSUME NEW l \in Latches
      PROVE  (transferred'[l] \/ \E u \in Threads : l \in TakenBy(u)') <=>
             (transferred[l] \/ \E u \in Threads : l \in TakenBy(u))
  BY Mapped
<1>3. Done' = Done
  BY <1>2 DEF Done
<1>4. QED
  BY <1>1, <1>3 DEF AllAbstract

-----------------------------------------------------------------------------
LEMMA BeginAsks ==
  ASSUME IInv, NEW t \in Threads, NEW j \in Jobs, Begin(t, j)
  PROVE  Abstract!Ask(t, Named(t)') /\ Named(t)' \in SUBSET Latches
<1>1. /\ pc[t] = "idle" /\ pc'[t] = "locking" /\ job'[t] = j
      /\ \A u \in Threads : u # t => pc'[u] = pc[u] /\ job'[u] = job[u]
      /\ UNCHANGED <<transferred, tx>>
  BY DEF Begin, Goto, IInv, TypeOK
<1>2. Named(t) = {} /\ Named(t)' \in SUBSET Latches
  <2>1. TypeOK
    BY DEF IInv
  <2>2. Named(t) = {}
    BY <1>1, <2>1, Images, Sets
  <2>3. Named(t)' \in SUBSET Latches
    BY <1>1, Images, Sets, FirstAndRest
  <2>. QED
    BY <2>2, <2>3
<1>3. Result(t)' = Result(t) /\ TakenBy(t)' = TakenBy(t)
  BY <1>1 DEF Result, TakenBy
<1>4. /\ Wanted' = [Wanted EXCEPT ![t] = Named(t)']
      /\ Results' = [Results EXCEPT ![t] = Result(t)']
      /\ \A u \in Threads : TakenBy(u)' = TakenBy(u)
  BY <1>1, <1>3, Mapped
<1>5. Results' = Results
  BY <1>3, <1>4 DEF Results
<1>6. Done' = Done
  BY <1>1, <1>4 DEF Done
<1>7. Wanted[t] = {}
  BY <1>2 DEF Wanted
<1>8. QED
  BY <1>2, <1>4, <1>5, <1>6, <1>7 DEF Abstract!Ask

LEMMA LockingUnseen ==
  ASSUME IInv, NEW t \in Threads, NEW l \in Named(t),
         LockFirst(t, l) \/ LockSecond(t, l) \/ BackOff(t, l)
  PROVE  UNCHANGED AllAbstract
<1>1. /\ pc[t] = "locking" /\ pc'[t] \in {"locking", "locked"}
      /\ UNCHANGED <<transferred, job, tx>>
      /\ \A u \in Threads : u # t => pc'[u] = pc[u]
  BY DEF LockFirst, LockSecond, BackOff, Goto, IInv, TypeOK
<1>2. Named(t)' = Named(t)
  BY <1>1, Images
<1>3. Result(t)' = Result(t) /\ TakenBy(t)' = TakenBy(t)
  BY <1>1 DEF Result, TakenBy
<1>4. QED
  BY <1>1, <1>2, <1>3, Unseen

LEMMA TestDenies ==
  ASSUME IInv, NEW t \in Threads, Test(t)
  PROVE  UNCHANGED AllAbstract \/ Abstract!Deny(t)
<1>1. /\ pc[t] = "locked"
      /\ pc'[t] = IF \A l \in Named(t) : ~transferred[l] THEN "open" ELSE "refusing"
      /\ UNCHANGED <<transferred, job>>
      /\ \A u \in Threads : u # t => pc'[u] = pc[u] /\ tx'[u] = tx[u]
  BY DEF Test, Goto, MayCommit, IInv, TypeOK
<1>2. Named(t)' = Named(t) /\ Named(t) # {} /\ Named(t) \subseteq Latches
  BY <1>1, Images, Sets DEF IInv
<1>3. TakenBy(t)' = TakenBy(t) /\ Result(t) = "none"
  BY <1>1 DEF TakenBy, Result
<1>4. CASE \A l \in Named(t) : ~transferred[l]
  <2>1. Result(t)' = Result(t)
    BY <1>1, <1>3, <1>4 DEF Result
  <2>2. QED
    BY <1>1, <1>2, <1>3, <2>1, Unseen
<1>5. CASE ~ \A l \in Named(t) : ~transferred[l]
  <2>1. Result(t)' = "denied"
    BY <1>1, <1>5 DEF Result
  <2>2. /\ Wanted' = [Wanted EXCEPT ![t] = Named(t)']
        /\ Results' = [Results EXCEPT ![t] = "denied"]
        /\ \A u \in Threads : TakenBy(u)' = TakenBy(u)
    BY <1>1, <1>3, <2>1, Mapped
  <2>3. Wanted' = Wanted
    BY <1>2, <2>2 DEF Wanted
  <2>4. Done' = Done
    BY <1>1, <2>2 DEF Done
  <2>5. Wanted[t] \cap Done # {}
    BY <1>2, <1>5 DEF Wanted, Done
  <2>6. Results[t] = "none"
    BY <1>3 DEF Results
  <2>7. QED
    BY <2>2, <2>3, <2>4, <2>5, <2>6 DEF Abstract!Deny, Abstract!Answer, Abstract!Pending
<1>6. QED
  BY <1>4, <1>5

\* The first commit takes all the latches, the second is not seen.
LEMMA CommitTakes ==
  ASSUME IInv, NEW t \in Threads, Commit(t)
  PROVE  UNCHANGED AllAbstract \/ Abstract!Take(t)
<1> DEFINE l == tx[t][1]
<1>1. /\ TypeOK /\ pc[t] \in {"open", "committing"} /\ pc[t] \in Unlocking
      /\ UnlockNext(t, "committing", "committed")
      /\ transferred' = [transferred EXCEPT ![l] = TRUE]
      /\ transferred' \in [Latches -> BOOLEAN]
  BY DEF IInv, TypeOK, Commit, Unlocking
<1>2. /\ l \in Remaining(t) /\ l \in Latches
      /\ Remaining(t)' = Remaining(t) \ {l} /\ Named(t)' = Named(t)
      /\ Remaining(t) = {l} => pc'[t] = "committed"
      /\ Remaining(t) # {l} => pc'[t] = "committing"
      /\ \A u \in Threads : u # t => pc'[u] = pc[u] /\ job'[u] = job[u] /\ tx'[u] = tx[u]
  BY <1>1, UnlockEffect DEF Unlocking, Ended
<1> HIDE DEF l
<1>3. \A k \in Latches : transferred'[k] = IF k = l THEN TRUE ELSE transferred[k]
  BY <1>1, <1>2 DEF TypeOK
<1>4. TakenBy(t)' = Remaining(t) \ {l} /\ Result(t)' = "won"
  BY <1>2 DEF TakenBy, Result
<1>5. CASE pc[t] = "committing"
  <2>1. TakenBy(t) = Remaining(t) /\ Result(t) = "won"
    BY <1>5 DEF TakenBy, Result
  <2>2. \A k \in Latches : transferred'[k] \/ k \in TakenBy(t)' <=>
                           transferred[k] \/ k \in TakenBy(t)
    BY <1>2, <1>3, <1>4, <2>1
  <2>3. QED
    BY <1>2, <1>4, <2>1, <2>2, Unseen
<1>6. CASE pc[t] = "open"
  <2>1. /\ Remaining(t) = Named(t) /\ Named(t) # {} /\ Named(t) \subseteq Latches
        /\ \A k \in Named(t) : holder[k] = t /\ ~transferred[k]
    BY <1>1, <1>6, Sets DEF IInv, HoldsItsOwn, FlagsOfItsOwn
  <2>2. TakenBy(t) = {} /\ Result(t) = "none"
    BY <1>6 DEF TakenBy, Result
  <2>3. ASSUME NEW u \in Threads, u # t
        PROVE  TakenBy(u)' = TakenBy(u) /\ TakenBy(u) \cap Named(t) = {}
    <3>1. \A k \in TakenBy(u) : holder[k] = u
      BY DEF TakenBy, IInv, HoldsItsOwn
    <3>2. QED
      BY <1>2, <2>1, <2>3, <3>1, Mapped
  <2>4. Done' = Done \cup Named(t)
    <3>1. ASSUME NEW k \in Latches
          PROVE  k \in Done' <=> k \in Done \cup Named(t)
      <4>1. k \in Done' <=> \/ transferred'[k] \/ k \in TakenBy(t)'
                            \/ \E u \in Threads : u # t /\ k \in TakenBy(u)
        BY <2>3 DEF Done
      <4>2. k \in Done <=> \/ transferred[k]
                           \/ \E u \in Threads : u # t /\ k \in TakenBy(u)
        BY <2>2 DEF Done
      <4>3. transferred'[k] \/ k \in TakenBy(t)' <=> transferred[k] \/ k \in Named(t)
        BY <1>3, <1>4, <1>2, <2>1
      <4>4. QED
        BY <4>1, <4>2, <4>3
    <3>2. QED
      BY <2>1, <3>1 DEF Done
  <2>5. Wanted[t] \cap Done = {}
    BY <2>1, <2>2, <2>3 DEF Wanted, Done
  <2>6. Wanted' = Wanted /\ Wanted[t] = Named(t)
    BY <1>2, Mapped DEF Wanted
  <2>7. Results' = [Results EXCEPT ![t] = "won"] /\ Results[t] = "none"
    BY <1>2, <1>4, <2>2, Mapped DEF Results
  <2>8. QED
    BY <2>1, <2>4, <2>5, <2>6, <2>7 DEF Abstract!Take, Abstract!Answer, Abstract!Pending
<1>7. QED
  BY <1>1, <1>5, <1>6

LEMMA RollbackWithdraws ==
  ASSUME IInv, NEW t \in Threads, Rollback(t)
  PROVE  UNCHANGED AllAbstract \/ Abstract!Withdraw(t)
<1>1. /\ TypeOK /\ pc[t] \in {"open", "rolling"} /\ pc[t] \in Unlocking
      /\ UnlockNext(t, "rolling", "withdrawn")
      /\ transferred' = transferred
      /\ transferred' \in [Latches -> BOOLEAN]
  BY DEF IInv, TypeOK, Rollback, Unlocking
<1>2. /\ Named(t)' = Named(t) /\ pc'[t] \in {"rolling", "withdrawn"}
      /\ \A u \in Threads : u # t => pc'[u] = pc[u] /\ job'[u] = job[u] /\ tx'[u] = tx[u]
  BY <1>1, UnlockEffect DEF Unlocking, Ended
<1>3. TakenBy(t)' = TakenBy(t) /\ Result(t)' = "withdrawn"
  BY <1>1, <1>2 DEF TakenBy, Result
<1>4. CASE pc[t] = "rolling"
  <2>1. Result(t) = "withdrawn"
    BY <1>4 DEF Result
  <2>2. QED
    BY <1>1, <1>2, <1>3, <2>1, Unseen
<1>5. CASE pc[t] = "open"
  <2>1. Result(t) = "none" /\ Named(t) # {}
    BY <1>1, <1>5, Sets DEF Result
  <2>2. Done' = Done
    BY <1>1, <1>2, <1>3, Mapped DEF Done
  <2>3. Wanted' = Wanted /\ Wanted[t] = Named(t)
    BY <1>2, Mapped DEF Wanted
  <2>4. Results' = [Results EXCEPT ![t] = "withdrawn"] /\ Results[t] = "none"
    BY <1>2, <1>3, <2>1, Mapped DEF Results
  <2>5. QED
    BY <2>1, <2>2, <2>3, <2>4 DEF Abstract!Withdraw, Abstract!Answer, Abstract!Pending
<1>6. QED
  BY <1>1, <1>4, <1>5

LEMMA RefuseUnseen ==
  ASSUME IInv, NEW t \in Threads, Refuse(t)
  PROVE  UNCHANGED AllAbstract
<1>1. /\ TypeOK /\ pc[t] = "refusing" /\ pc[t] \in Unlocking
      /\ UnlockNext(t, "refusing", "denied")
      /\ transferred' = transferred
      /\ transferred' \in [Latches -> BOOLEAN]
  BY DEF IInv, TypeOK, Refuse, Unlocking
<1>2. /\ Named(t)' = Named(t) /\ pc'[t] \in {"refusing", "denied"}
      /\ \A u \in Threads : u # t => pc'[u] = pc[u] /\ job'[u] = job[u] /\ tx'[u] = tx[u]
  BY <1>1, UnlockEffect DEF Unlocking, Ended
<1>3. TakenBy(t)' = TakenBy(t) /\ Result(t)' = Result(t)
  BY <1>1, <1>2 DEF TakenBy, Result
<1>4. QED
  BY <1>1, <1>2, <1>3, Unseen

LEMMA FinishLeaves ==
  ASSUME IInv, NEW t \in Threads, Finish(t)
  PROVE  Abstract!Leave(t)
<1>1. /\ pc[t] \in Ended /\ pc'[t] = "idle" /\ job'[t] = << >>
      /\ \A u \in Threads : u # t => pc'[u] = pc[u] /\ job'[u] = job[u]
      /\ UNCHANGED <<transferred, tx>>
  BY DEF Finish, Goto, IInv, TypeOK
<1>2. Named(t)' = {}
  <2>1. LatchesOf(<< >>) = {}
    BY DEF LatchesOf
  <2>2. QED
    BY <1>1, <2>1, Images
<1>3. TakenBy(t)' = TakenBy(t) /\ Result(t)' = "none" /\ Result(t) # "none"
  BY <1>1 DEF TakenBy, Result, Ended
<1>4. /\ Wanted' = [Wanted EXCEPT ![t] = {}]
      /\ Results' = [Results EXCEPT ![t] = "none"]
      /\ \A u \in Threads : TakenBy(u)' = TakenBy(u)
  BY <1>1, <1>2, <1>3, Mapped
<1>5. Done' = Done
  BY <1>1, <1>4 DEF Done
<1>6. Results[t] # "none"
  BY <1>3 DEF Results
<1>7. QED
  BY <1>4, <1>5, <1>6 DEF Abstract!Leave

LEMMA ResetRenews ==
  ASSUME IInv, NEW l \in Latches, Reset(l)
  PROVE  Abstract!Renew(l)
<1>1. /\ UNCHANGED <<pc, job, tx>>
      /\ \A k \in Latches : transferred'[k] = IF k = l THEN FALSE ELSE transferred[k]
      /\ \A t \in Threads : l \notin Named(t)
  BY DEF Reset, IInv, TypeOK
<1>2. ASSUME NEW t \in Threads
      PROVE  /\ Named(t)' = Named(t) /\ Result(t)' = Result(t) /\ TakenBy(t)' = TakenBy(t)
             /\ l \notin TakenBy(t)
  <2>1. Named(t)' = Named(t) /\ Remaining(t)' = Remaining(t)
    BY <1>1, Images
  <2>2. Result(t)' = Result(t) /\ TakenBy(t)' = TakenBy(t)
    BY <1>1, <2>1 DEF Result, TakenBy
  <2>3. \A k \in Latches : holder[k] = t => k \in Named(t)
    BY DEF IInv, HoldsItsOwn
  <2>4. l \notin TakenBy(t)
    BY <1>1, <2>3 DEF IInv, HoldsItsOwn, TakenBy
  <2>5. QED
    BY <2>1, <2>2, <2>4
<1>3. Wanted' = Wanted /\ Results' = Results
  BY <1>2 DEF Wanted, Results
<1>4. Done' = Done \ {l}
  BY <1>1, <1>2 DEF Done
<1>5. \A t \in Threads : l \notin Wanted[t]
  BY <1>1 DEF Wanted
<1>6. QED
  BY <1>3, <1>4, <1>5 DEF Abstract!Renew

-----------------------------------------------------------------------------
LEMMA InitMaps == Init => Abstract!Init
<1> SUFFICES ASSUME Init PROVE Abstract!Init
  OBVIOUS
<1>1. \A t \in Threads : Named(t) = {} /\ pc[t] = "idle"
  BY InitInv, Sets DEF IInv, Init
<1>2. \A t \in Threads : Result(t) = "none" /\ TakenBy(t) = {}
  BY <1>1 DEF Result, TakenBy
<1>3. Done = {}
  BY <1>2 DEF Done, Init
<1>4. Wanted = [t \in Threads |-> {}] /\ Results = [t \in Threads |-> "none"]
  BY <1>1, <1>2 DEF Wanted, Results
<1>5. QED
  BY <1>3, <1>4 DEF Abstract!Init

LEMMA NextMaps ==
  ASSUME IInv, [Next]_vars
  PROVE  [Abstract!Next]_<<Done, Wanted, Results>>
<1>1. CASE UNCHANGED vars
  <2>1. \A t \in Threads : /\ Named(t)' = Named(t) /\ Result(t)' = Result(t)
                           /\ TakenBy(t)' = TakenBy(t)
    BY <1>1, Images DEF vars, Result, TakenBy
  <2>2. QED
    BY <1>1, <2>1 DEF vars, Done, Wanted, Results
<1>2. ASSUME NEW t \in Threads, Step(t)
      PROVE  \/ UNCHANGED AllAbstract
             \/ Abstract!Take(t) \/ Abstract!Deny(t) \/ Abstract!Withdraw(t)
             \/ Abstract!Leave(t)
  BY <1>2, LockingUnseen, TestDenies, CommitTakes, RollbackWithdraws, RefuseUnseen,
     FinishLeaves DEF Step
<1>3. ASSUME NEW t \in Threads, NEW j \in Jobs, Begin(t, j)
      PROVE  \E S \in SUBSET Latches : Abstract!Ask(t, S)
  BY <1>3, BeginAsks
<1>4. ASSUME NEW l \in Latches, Reset(l)
      PROVE  Abstract!Renew(l)
  BY <1>4, ResetRenews
<1>5. QED
  BY <1>1, <1>2, <1>3, <1>4 DEF Next, AllAbstract, Abstract!Next

\* Transactions under mutexes, two latches committed one after the other, do what
\* AtomicTransfer says: all the latches are taken in one step or none is.
THEOREM TransactionImplements == Spec => ImplementsAtomicTransfer
<1>1. IInv /\ [Next]_vars => [Abstract!Next]_<<Done, Wanted, Results>>
  BY NextMaps
<1>2. QED
  BY <1>1, InitInv, NextInv, InitMaps, PTL
     DEF Spec, ImplementsAtomicTransfer, Abstract!Spec, Abstract!vars
=============================================================================
