--------------------------- MODULE AtomicTransfer ---------------------------
(***************************************************************************)
(* What a transaction over transfer latches promises: a party names a set  *)
(* of latches, and in one step either takes them all, when none is taken,  *)
(* or is denied, when one is taken, or withdraws.  There are no mutexes    *)
(* here, and taking two latches is one step.                               *)
(***************************************************************************)
CONSTANTS Threads, Latches

VARIABLES
  done,    \* the latches that are taken
  wanted,  \* the latches each party names, none when it is idle
  result   \* how each party's transaction ended

vars == <<done, wanted, result>>

Init ==
  /\ done = {}
  /\ wanted = [t \in Threads |-> {}]
  /\ result = [t \in Threads |-> "none"]

Ask(t, S) ==
  /\ wanted[t] = {}
  /\ wanted' = [wanted EXCEPT ![t] = S]
  /\ UNCHANGED <<done, result>>

Pending(t) == wanted[t] # {} /\ result[t] = "none"

Answer(t, r) ==
  /\ Pending(t)
  /\ result' = [result EXCEPT ![t] = r]
  /\ UNCHANGED wanted

Take(t) ==
  /\ Answer(t, "won")
  /\ wanted[t] \cap done = {}
  /\ done' = done \cup wanted[t]

Deny(t) ==
  /\ Answer(t, "denied")
  /\ wanted[t] \cap done # {}
  /\ UNCHANGED done

Withdraw(t) ==
  /\ Answer(t, "withdrawn")
  /\ UNCHANGED done

Leave(t) ==
  /\ result[t] # "none"
  /\ wanted' = [wanted EXCEPT ![t] = {}]
  /\ result' = [result EXCEPT ![t] = "none"]
  /\ UNCHANGED done

\* A latch is reset between the transactions that name it.
Renew(l) ==
  /\ \A t \in Threads : l \notin wanted[t]
  /\ done' = done \ {l}
  /\ UNCHANGED <<wanted, result>>

Next ==
  \/ \E t \in Threads :
       \/ \E S \in SUBSET Latches : Ask(t, S)
       \/ Take(t) \/ Deny(t) \/ Withdraw(t) \/ Leave(t)
  \/ \E l \in Latches : Renew(l)

Spec == Init /\ [][Next]_vars
=============================================================================
