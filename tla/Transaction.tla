---------------------------- MODULE Transaction ----------------------------
(***************************************************************************)
(* Transactions over transfer latches, made by threads: asioex::           *)
(* transaction1, transaction2 and begin_transaction over the mt latch,     *)
(* whose mutex is a std::mutex.  The flag of a latch is only read and      *)
(* written under its mutex, so a step ends where a mutex is locked or      *)
(* unlocked.                                                               *)
(***************************************************************************)
EXTENDS Integers, Sequences

CONSTANTS
  Threads,
  Latches,
  Free      \* the holder of a mutex that is not locked

ASSUME TransactionAssumption == Free \notin Threads

VARIABLES
  transferred,  \* transferred_ of each latch
  holder,       \* the thread that holds the mutex of each latch
  pc,           \* where each thread is
  job,          \* the arguments of each thread's begin_transaction
  tx            \* the latches whose mutex it has yet to unlock, in order

vars == <<transferred, holder, pc, job, tx>>

\* The arguments of the two overloads.  (std::lock takes two different mutexes.)
Jobs ==
  {<<l>> : l \in Latches} \cup {s \in Latches \X Latches : s[1] # s[2]}

(***************************************************************************)
(* locking: in lock() or std::lock;  locked: it returned;  open: a         *)
(* transaction that may commit;  committing, rolling, refusing: the first  *)
(* of two latches is committed, rolled back, unlocked;  committed,         *)
(* withdrawn, denied: nothing is left to unlock.                           *)
(***************************************************************************)
Unlocking == {"open", "committing", "rolling", "refusing"}

Ended == {"committed", "withdrawn", "denied"}

TypeOK ==
  /\ transferred \in [Latches -> BOOLEAN]
  /\ holder \in [Latches -> Threads \cup {Free}]
  /\ pc \in [Threads -> {"idle", "locking", "locked"} \cup Unlocking \cup Ended]
  /\ job \in [Threads -> Jobs \cup {<< >>}]
  /\ tx \in [Threads -> Jobs \cup {<< >>}]
  /\ \A t \in Threads :
       /\ job[t] = << >> <=> pc[t] = "idle"
       /\ tx[t] # << >> <=> pc[t] \in Unlocking

Init ==
  /\ transferred = [l \in Latches |-> FALSE]
  /\ holder = [l \in Latches |-> Free]
  /\ pc = [t \in Threads |-> "idle"]
  /\ job = [t \in Threads |-> << >>]
  /\ tx = [t \in Threads |-> << >>]

-----------------------------------------------------------------------------
Named(t) == {job[t][i] : i \in DOMAIN job[t]}

Held(t) == {l \in Latches : holder[l] = t}

MayCommit(l) == ~transferred[l]

Goto(t, s) == pc' = [pc EXCEPT ![t] = s]

Begin(t, j) ==
  /\ pc[t] = "idle"
  /\ Goto(t, "locking")
  /\ job' = [job EXCEPT ![t] = j]
  /\ UNCHANGED <<transferred, holder, tx>>

LockOrDeny(t, l) ==  \* fault: try_lock is called in the place of lock
  /\ pc[t] = "locking"
  /\ Held(t) = {}
  /\ IF holder[l] = Free
     THEN /\ holder' = [holder EXCEPT ![l] = t]
          /\ Goto(t, IF Named(t) = {l} THEN "locked" ELSE "locking")
     ELSE UNCHANGED holder /\ Goto(t, "denied")
  /\ UNCHANGED <<transferred, job, tx>>

(***************************************************************************)
(* mutex().lock(), or the first lock() of std::lock.  std::lock promises   *)
(* only not to deadlock: it locks one of the two, in an order of its own,  *)
(* tries the other, and unlocks the first when that fails.                 *)
(***************************************************************************)
LockFirst(t, l) ==
  /\ pc[t] = "locking"
  /\ Held(t) = {}
  /\ holder[l] = Free
  /\ holder' = [holder EXCEPT ![l] = t]
  /\ Goto(t, IF Named(t) = {l} THEN "locked" ELSE "locking")
  /\ UNCHANGED <<transferred, job, tx>>

LockSecond(t, l) ==
  /\ pc[t] = "locking"
  /\ Held(t) # {}
  /\ holder[l] = Free
  /\ holder' = [holder EXCEPT ![l] = t]
  /\ Goto(t, "locked")
  /\ UNCHANGED <<transferred, job, tx>>

BackOffNever(t, l) == FALSE  \* fault: the second mutex is locked, not tried

BackOff(t, l) ==
  /\ pc[t] = "locking"
  /\ Held(t) # {}
  /\ holder[l] \notin {Free, t}
  /\ holder' = [k \in Latches |-> IF holder[k] = t THEN Free ELSE holder[k]]
  /\ UNCHANGED <<transferred, pc, job, tx>>

TestFirst(t) ==  \* fault: only the first latch is tested
  /\ pc[t] = "locked"
  /\ tx' = [tx EXCEPT ![t] = job[t]]
  /\ Goto(t, IF MayCommit(job[t][1]) THEN "open" ELSE "refusing")
  /\ UNCHANGED <<transferred, holder, job>>

\* The test of begin_transaction, under the mutexes.
Test(t) ==
  /\ pc[t] = "locked"
  /\ tx' = [tx EXCEPT ![t] = job[t]]
  /\ Goto(t, IF \A l \in Named(t) : MayCommit(l) THEN "open" ELSE "refusing")
  /\ UNCHANGED <<transferred, holder, job>>

\* The first of the latches left to unlock is unlocked; the thread is at s when
\* another is left, and at e when it was the last.
UnlockNext(t, s, e) ==
  /\ holder' = [holder EXCEPT ![tx[t][1]] = Free]
  /\ tx' = [tx EXCEPT ![t] = Tail(@)]
  /\ Goto(t, IF Len(tx[t]) = 1 THEN e ELSE s)
  /\ UNCHANGED job

CommitWithoutMark(t) ==  \* fault: transferred_ is not set
  /\ pc[t] \in {"open", "committing"}
  /\ UnlockNext(t, "committing", "committed")
  /\ UNCHANGED transferred

CommitReleasingBoth(t) ==  \* fault: both mutexes are unlocked before the second commit
  /\ pc[t] \in {"open", "committing"}
  /\ transferred' = [transferred EXCEPT ![tx[t][1]] = TRUE]
  /\ holder' = [k \in Latches |-> IF holder[k] = t THEN Free ELSE holder[k]]
  /\ tx' = [tx EXCEPT ![t] = Tail(@)]
  /\ Goto(t, IF Len(tx[t]) = 1 THEN "committed" ELSE "committing")
  /\ UNCHANGED job

\* commit(), one latch at a time: the flag is set and the mutex unlocked.
Commit(t) ==
  /\ pc[t] \in {"open", "committing"}
  /\ transferred' = [transferred EXCEPT ![tx[t][1]] = TRUE]
  /\ UnlockNext(t, "committing", "committed")

\* rollback(), the call or the destructor's.
Rollback(t) ==
  /\ pc[t] \in {"open", "rolling"}
  /\ UnlockNext(t, "rolling", "withdrawn")
  /\ UNCHANGED transferred

RefuseFirst(t) ==  \* fault: the second mutex is left locked
  /\ pc[t] = "refusing"
  /\ holder' = [holder EXCEPT ![tx[t][1]] = Free]
  /\ tx' = [tx EXCEPT ![t] = << >>]
  /\ Goto(t, "denied")
  /\ UNCHANGED <<transferred, job>>

\* begin_transaction unlocks the mutexes and returns a transaction without latch.
Refuse(t) ==
  /\ pc[t] = "refusing"
  /\ UnlockNext(t, "refusing", "denied")
  /\ UNCHANGED transferred

\* The thread acts on the outcome (outside the mutexes) and starts afresh.
Finish(t) ==
  /\ pc[t] \in Ended
  /\ Goto(t, "idle")
  /\ job' = [job EXCEPT ![t] = << >>]
  /\ UNCHANGED <<transferred, holder, tx>>

\* reset() is not thread-safe: nobody uses the latch.
Reset(l) ==
  /\ \A t \in Threads : l \notin Named(t)
  /\ transferred' = [transferred EXCEPT ![l] = FALSE]
  /\ UNCHANGED <<holder, pc, job, tx>>

\* A step of a thread that is in a transaction.
Step(t) ==
  \/ \E l \in Named(t) : LockFirst(t, l) \/ LockSecond(t, l) \/ BackOff(t, l)
  \/ Test(t) \/ Commit(t) \/ Rollback(t) \/ Refuse(t) \/ Finish(t)

Next ==
  \/ \E t \in Threads : Step(t) \/ \E j \in Jobs : Begin(t, j)
  \/ \E l \in Latches : Reset(l)

Spec == Init /\ [][Next]_vars

-----------------------------------------------------------------------------
(***************************************************************************)
(* Properties.                                                             *)
(***************************************************************************)
Remaining(t) == {tx[t][i] : i \in DOMAIN tx[t]}

\* The asserts and preconditions of commit and rollback (impl/transaction.hpp:
\* 48-51, basic_transfer_latch.hpp:48-49 and 59-60): as long as a latch is to be
\* committed or rolled back its mutex is locked by the thread and it may commit,
\* also after the first of two latches was let go.
LatchPreconditions ==
  \A t \in Threads : \A l \in Remaining(t) :
    /\ holder[l] = t
    /\ pc[t] # "refusing" => MayCommit(l)

\* Every way out of a transaction unlocks what was locked: a thread holds the
\* mutexes of the latches that it has yet to unlock, and no other.
NoMutexLeft ==
  \A t \in Threads : pc[t] \notin {"locking", "locked"} => Held(t) = Remaining(t)

\* No hold and wait: a thread that holds the mutex of a latch can always take a
\* step, so that transactions naming latches in opposite orders do not deadlock.
HolderNeverBlocks == \A t \in Threads : Held(t) # {} => ENABLED Step(t)

\* Of the transactions that name a latch one at most commits until it is reset.
OneWinner ==
  \A t, u \in Threads :
    pc[t] = "committed" /\ pc[u] = "committed" /\ Named(t) \cap Named(u) # {} => t = u

\* A transaction is denied only for a latch that was committed: another that is
\* open, backs off or rolls back denies nobody.
DeniedOnlyIfTaken ==
  \A t \in Threads : pc[t] \in {"refusing", "denied"} => \E l \in Named(t) : transferred[l]

\* To the threads two latches are taken in one step, at the first commit: the
\* second latch can be seen by nobody until it is committed as well.
TakenBy(t) == IF pc[t] = "committing" THEN Remaining(t) ELSE {}

Result(t) ==
  CASE pc[t] \in {"committing", "committed"} -> "won"
    [] pc[t] \in {"rolling", "withdrawn"} -> "withdrawn"
    [] pc[t] \in {"refusing", "denied"} -> "denied"
    [] OTHER -> "none"

Done == {l \in Latches : transferred[l] \/ \E t \in Threads : l \in TakenBy(t)}

Wanted == [t \in Threads |-> Named(t)]

Results == [t \in Threads |-> Result(t)]

Abstract == INSTANCE AtomicTransfer WITH done <- Done, wanted <- Wanted, result <- Results

ImplementsAtomicTransfer == Abstract!Spec
=============================================================================
