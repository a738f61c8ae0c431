----------------------------- MODULE AtomicRead -----------------------------
(***************************************************************************)
(* asioex::async_read_some with a latched completion: reads of one socket  *)
(* race against timers in parallel groups (test/async_read_some.cpp), and  *)
(* each group has a transfer latch that only one of its members can take,  *)
(* so that no byte is read by an operation whose result is thrown away.    *)
(*                                                                         *)
(* Everything runs on one executor with the st latch, whose mutex is a     *)
(* null_mutex, so a step is one handler.  A group is named by its latch.   *)
(***************************************************************************)
EXTENDS Integers, FiniteSets

CONSTANTS
  Readers,  \* the read operations on the socket
  Groups,   \* the groups, one latch and one timer each
  GroupOf,  \* the group of each reader
  MaxSent   \* bound: the bytes the peer sends

ASSUME ReadAssumption ==
  /\ GroupOf \in [Readers -> Groups]
  /\ MaxSent \in Nat

VARIABLES
  transferred,  \* transferred_ of each latch
  op,           \* where each read is
  outcome,      \* what each read completed with
  timer,        \* the timer of each group
  inbox,        \* the bytes in the socket's receive buffer
  shut,         \* the peer shut the connection down
  sent,         \* history: the bytes sent
  delivered     \* history: the bytes that reads completed with

readVars == <<transferred, op, outcome, timer, inbox, shut, sent, delivered>>

peer == <<shut, sent>>

(***************************************************************************)
(* waiting: in sock.async_wait;  ready, cancelled: its handler is queued   *)
(* with success, with operation_aborted;  done: completed (or not begun).  *)
(* armed: trip_latch_after waits;  tripped, missed: it took the latch, or  *)
(* found it taken.                                                         *)
(***************************************************************************)
ReadTypeOK ==
  /\ transferred \in [Groups -> BOOLEAN]
  /\ op \in [Readers -> {"waiting", "ready", "cancelled", "done"}]
  /\ outcome \in [Readers -> {"none", "read", "eof", "aborted", "denied"}]
  /\ timer \in [Groups -> {"armed", "tripped", "missed"}]
  /\ inbox \in 0 .. MaxSent
  /\ shut \in BOOLEAN
  /\ sent \in 0 .. MaxSent
  /\ delivered \in 0 .. MaxSent
  /\ \A r \in Readers : op[r] # "done" => outcome[r] = "none"

\* The groups start; so does each again later, in Restart.
ReadInit ==
  /\ transferred = [g \in Groups |-> FALSE]
  /\ op = [r \in Readers |-> "waiting"]
  /\ outcome = [r \in Readers |-> "none"]
  /\ timer = [g \in Groups |-> "armed"]
  /\ inbox = 0
  /\ shut = FALSE
  /\ sent = 0
  /\ delivered = 0

-----------------------------------------------------------------------------
\* Once a member of a group completed, the group cancels those that wait, as
\* operator|| does (the timer then fires at once).
CancelOthers(g, ops) ==
  [r \in Readers |->
     IF GroupOf[r] = g /\ ops[r] = "waiting" THEN "cancelled" ELSE ops[r]]

CompleteWith(r, result) ==
  /\ op' = CancelOthers(GroupOf[r], [op EXCEPT ![r] = "done"])
  /\ outcome' = [outcome EXCEPT ![r] = result]
  /\ UNCHANGED timer

CommitLatch(r) == transferred' = [transferred EXCEPT ![GroupOf[r]] = TRUE]

(***************************************************************************)
(* The handler of sock.async_wait, in its branches.                        *)
(***************************************************************************)
DenyReading(r) ==  \* fault: the socket is read before the latch is tested
  /\ transferred[GroupOf[r]]
  /\ inbox' = 0
  /\ CompleteWith(r, "denied")
  /\ UNCHANGED <<transferred, delivered>>

\* The latch is taken: the read completes with completion_denied and reads nothing.
Deny(r) ==
  /\ transferred[GroupOf[r]]
  /\ CompleteWith(r, "denied")
  /\ UNCHANGED <<transferred, inbox, delivered>>

\* The wait failed: the error is committed.
Fail(r) ==
  /\ ~transferred[GroupOf[r]]
  /\ op[r] = "cancelled"
  /\ CommitLatch(r)
  /\ CompleteWith(r, "aborted")
  /\ UNCHANGED <<inbox, delivered>>

ReadWholeBuffer(r, n) ==  \* fault: the read completes with the size of its buffer
  /\ ~transferred[GroupOf[r]]
  /\ op[r] = "ready"
  /\ inbox' = inbox - n
  /\ delivered' = delivered + MaxSent
  /\ CommitLatch(r)
  /\ CompleteWith(r, "read")

\* read_some returns n of the bytes there are.
Read(r, n) ==
  /\ ~transferred[GroupOf[r]]
  /\ op[r] = "ready"
  /\ inbox' = inbox - n
  /\ delivered' = delivered + n
  /\ CommitLatch(r)
  /\ CompleteWith(r, "read")

\* read_some returns eof.
Eof(r) ==
  /\ ~transferred[GroupOf[r]]
  /\ op[r] = "ready"
  /\ inbox = 0 /\ shut
  /\ CommitLatch(r)
  /\ CompleteWith(r, "eof")
  /\ UNCHANGED <<inbox, delivered>>

WouldBlockCommitting(r) ==  \* fault: the transaction is committed, not rolled back
  /\ ~transferred[GroupOf[r]]
  /\ op[r] = "ready"
  /\ inbox = 0 /\ ~shut
  /\ op' = [op EXCEPT ![r] = "waiting"]
  /\ CommitLatch(r)
  /\ UNCHANGED <<outcome, timer, inbox, delivered>>

\* read_some returns would_block, for another read took the bytes: the transaction
\* is rolled back and the read waits again.
WouldBlock(r) ==
  /\ ~transferred[GroupOf[r]]
  /\ op[r] = "ready"
  /\ inbox = 0 /\ ~shut
  /\ op' = [op EXCEPT ![r] = "waiting"]
  /\ UNCHANGED <<transferred, outcome, timer, inbox, delivered>>

Handle(r) ==
  /\ op[r] \in {"ready", "cancelled"}
  /\ \/ Deny(r)
     \/ Fail(r)
     \/ \E n \in 1 .. inbox : Read(r, n)
     \/ Eof(r)
     \/ WouldBlock(r)
  /\ UNCHANGED peer

-----------------------------------------------------------------------------
\* The reactor finds the socket readable.
Readable(r) ==
  /\ op[r] = "waiting"
  /\ inbox > 0 \/ shut
  /\ op' = [op EXCEPT ![r] = "ready"]
  /\ UNCHANGED <<transferred, outcome, timer, inbox, peer, delivered>>

TripSilently(g) ==  \* fault: the latch is tripped and the group not told
  /\ timer[g] = "armed"
  /\ timer' = [timer EXCEPT ![g] = IF transferred[g] THEN "missed" ELSE "tripped"]
  /\ transferred' = [transferred EXCEPT ![g] = TRUE]
  /\ UNCHANGED <<op, outcome, inbox, peer, delivered>>

\* The timer fires or is cancelled: trip_latch_after takes the latch if it can.
Trip(g) ==
  /\ timer[g] = "armed"
  /\ timer' = [timer EXCEPT ![g] = IF transferred[g] THEN "missed" ELSE "tripped"]
  /\ transferred' = [transferred EXCEPT ![g] = TRUE]
  /\ op' = CancelOthers(g, op)
  /\ UNCHANGED <<outcome, inbox, peer, delivered>>

\* The program cancels the socket's operations.
CancelSocket ==
  /\ \E r \in Readers : op[r] = "waiting"
  /\ op' = [r \in Readers |-> IF op[r] = "waiting" THEN "cancelled" ELSE op[r]]
  /\ UNCHANGED <<transferred, outcome, timer, inbox, peer, delivered>>

Completed(g) ==
  /\ timer[g] # "armed"
  /\ \A r \in Readers : GroupOf[r] = g => op[r] = "done"

\* The next turn of the loop, when all members have completed: latch.reset().
Restart(g) ==
  /\ Completed(g)
  /\ transferred' = [transferred EXCEPT ![g] = FALSE]
  /\ timer' = [timer EXCEPT ![g] = "armed"]
  /\ op' = [r \in Readers |-> IF GroupOf[r] = g THEN "waiting" ELSE op[r]]
  /\ outcome' = [r \in Readers |-> IF GroupOf[r] = g THEN "none" ELSE outcome[r]]
  /\ UNCHANGED <<inbox, peer, delivered>>

Send ==
  /\ ~shut
  /\ sent < MaxSent
  /\ sent' = sent + 1
  /\ inbox' = inbox + 1
  /\ UNCHANGED <<transferred, op, outcome, timer, shut, delivered>>

Shutdown ==
  /\ ~shut
  /\ shut' = TRUE
  /\ UNCHANGED <<transferred, op, outcome, timer, inbox, sent, delivered>>

ReadNext ==
  \/ \E r \in Readers : Handle(r) \/ Readable(r)
  \/ \E g \in Groups : Trip(g) \/ Restart(g)
  \/ CancelSocket
  \/ Send
  \/ Shutdown

ReadSpec == ReadInit /\ [][ReadNext]_readVars

\* Timers fire, and io_context::run invokes queued handlers.
FairReadSpec ==
  /\ ReadSpec
  /\ \A g \in Groups : WF_readVars(Trip(g))
  /\ \A r \in Readers : WF_readVars(Handle(r))

-----------------------------------------------------------------------------
(***************************************************************************)
(* Properties.                                                             *)
(***************************************************************************)
\* The purpose of the latch: a byte is in the socket or was delivered by a read
\* that completed with success; none is lost in a read that the timer beat.
BytesConserved == sent = inbox + delivered

Winners(g) == {r \in Readers : GroupOf[r] = g /\ outcome[r] \in {"read", "eof", "aborted"}}

\* Of a group's reads and its timer one at most wins, and the latch is taken
\* exactly when one has: never by a read that waits again.
OneWinner ==
  \A g \in Groups :
    /\ Cardinality(Winners(g)) + (IF timer[g] = "tripped" THEN 1 ELSE 0) <= 1
    /\ transferred[g] <=> Winners(g) # {} \/ timer[g] = "tripped"

\* Every turn of the loop ends: all reads and the timer of a group complete.
GroupCompletes == \A g \in Groups : timer[g] = "armed" ~> Completed(g)
=============================================================================
