----------------------------- MODULE AsyncLock -----------------------------
(***************************************************************************)
(* What asioex::mutex promises: a lock that one client owns at a time, for *)
(* which others wait in no particular order.  A wait is over when the      *)
(* client enters, or when it is aborted: because the client cancels it, or *)
(* because the lock is closed.  An abort is final as soon as it is         *)
(* decided, and reported later.  There is no flag, count, queue or         *)
(* wake-up here.                                                           *)
(***************************************************************************)
CONSTANTS
  Clients,
  Patient   \* the clients that cannot cancel

VARIABLES
  open,     \* the lock exists
  owners,   \* the client inside, if any
  wanting,  \* the clients that wait
  aborted   \* those whose abort is yet to be reported

vars == <<open, owners, wanting, aborted>>

Init ==
  /\ open = TRUE
  /\ owners = {}
  /\ wanting = {}
  /\ aborted = {}

Ask(c) ==
  /\ open
  /\ c \notin owners \cup wanting \cup aborted
  /\ wanting' = wanting \cup {c}
  /\ UNCHANGED <<open, owners, aborted>>

\* A client that waited, or one that comes when the lock is free.
Enter(c) ==
  /\ open
  /\ owners = {} /\ c \notin aborted
  /\ owners' = {c}
  /\ wanting' = wanting \ {c}
  /\ UNCHANGED <<open, aborted>>

Leave(c) ==
  /\ open
  /\ owners = {c}
  /\ owners' = {}
  /\ UNCHANGED <<open, wanting, aborted>>

GiveUp(c) ==
  /\ c \in wanting \ Patient
  /\ wanting' = wanting \ {c}
  /\ aborted' = aborted \cup {c}
  /\ UNCHANGED <<open, owners>>

Close ==
  /\ open
  /\ open' = FALSE
  /\ wanting' = {}
  /\ aborted' = aborted \cup wanting
  /\ UNCHANGED owners

Report(c) ==
  /\ c \in aborted
  /\ aborted' = aborted \ {c}
  /\ UNCHANGED <<open, owners, wanting>>

Next ==
  \/ \E c \in Clients : Ask(c) \/ Enter(c) \/ Leave(c) \/ GiveUp(c) \/ Report(c)
  \/ Close

Spec == Init /\ [][Next]_vars
=============================================================================
