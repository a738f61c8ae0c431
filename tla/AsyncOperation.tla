--------------------------- MODULE AsyncOperation ---------------------------
(***************************************************************************)
(* What every asynchronous operation promises its caller: once initiated   *)
(* it ends once, by the call of its completion handler, by an exception    *)
(* that leaves io_context::run, or with the destruction of its executor.   *)
(***************************************************************************)
CONSTANT Ops

VARIABLES
  initiated,  \* the operations that were initiated
  fate        \* how each of them ended, "none" as long as it is outstanding

vars == <<initiated, fate>>

Fates == {"completed", "threw", "dropped"}

Init ==
  /\ initiated = {}
  /\ fate = [o \in Ops |-> "none"]

Outstanding == {o \in initiated : fate[o] = "none"}

Initiate(o) ==
  /\ o \notin initiated
  /\ initiated' = initiated \cup {o}
  /\ UNCHANGED fate

End(o, f) ==
  /\ o \in Outstanding
  /\ fate' = [fate EXCEPT ![o] = f]
  /\ UNCHANGED initiated

\* The executor is destroyed.
DropAll ==
  /\ fate' = [o \in Ops |-> IF o \in Outstanding THEN "dropped" ELSE fate[o]]
  /\ UNCHANGED initiated

Next ==
  \/ \E o \in Ops : Initiate(o) \/ \E f \in Fates \ {"dropped"} : End(o, f)
  \/ DropAll

Spec == Init /\ [][Next]_vars
=============================================================================
