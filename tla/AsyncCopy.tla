------------------------------ MODULE AsyncCopy ------------------------------
(***************************************************************************)
(* asioex::async_copy: a composed operation that takes values from a       *)
(* source and hands each to a sink until one of them fails or the          *)
(* operation is cancelled, and completes with the number it copied.        *)
(*                                                                         *)
(* The count goes down before the first value and up with every result of  *)
(* the source, so that it is one behind the source.                        *)
(***************************************************************************)
EXTENDS Integers

CONSTANTS
  SizeMax,   \* the largest size_t
  MaxValues  \* bound: the values the source has

ASSUME CopyAssumption ==
  /\ SizeMax \in Nat \ {0}
  /\ MaxValues \in 1 .. SizeMax

VARIABLES
  phase,      \* what the operation waits for
  completed,  \* completed
  cancelled,  \* cancellation_state().cancelled() is terminal
  result,     \* the error it completed with
  taken,      \* history: the values the source gave
  stored      \* history: the values the sink accepted

vars == <<phase, completed, cancelled, result, taken, stored>>

TypeOK ==
  /\ phase \in {"initial", "source", "sink", "done"}
  /\ completed \in 0 .. SizeMax
  /\ cancelled \in BOOLEAN
  /\ result \in {"none", "aborted", "source_error", "sink_error"}
  /\ taken \in 0 .. MaxValues
  /\ stored \in 0 .. MaxValues
  /\ result # "none" <=> phase = "done"

Init ==
  /\ phase = "initial"
  /\ completed = 0
  /\ cancelled = FALSE
  /\ result = "none"
  /\ taken = 0
  /\ stored = 0

-----------------------------------------------------------------------------
Signed(n) == n  \* fault: the count is of a signed type

\* size_t arithmetic
Wrapped(n) == n % (SizeMax + 1)

StartAtZero ==  \* fault: the count is not decremented first
  /\ phase = "initial"
  /\ phase' = "source"
  /\ UNCHANGED <<completed, cancelled, result, taken, stored>>

\* operator()(self): the source is asked for the first value.
Start ==
  /\ phase = "initial"
  /\ completed' = Wrapped(completed - 1)
  /\ phase' = "source"
  /\ UNCHANGED <<cancelled, result, taken, stored>>

End(ec) == phase' = "done" /\ result' = ec

\* operator()(self, source_tag): the count goes up whatever the source said.
\* A value that comes after the cancellation is dropped.
SourceGave ==
  /\ phase = "source"
  /\ taken < MaxValues
  /\ taken' = taken + 1
  /\ completed' = Wrapped(completed + 1)
  /\ IF cancelled THEN End("aborted") ELSE phase' = "sink" /\ UNCHANGED result
  /\ UNCHANGED <<cancelled, stored>>

SourceFailed ==
  /\ phase = "source"
  /\ completed' = Wrapped(completed + 1)
  /\ End("source_error")
  /\ UNCHANGED <<cancelled, taken, stored>>

\* operator()(self, sink_tag)
SinkAccepted ==
  /\ phase = "sink"
  /\ stored' = stored + 1
  /\ IF cancelled THEN End("aborted") ELSE phase' = "source" /\ UNCHANGED result
  /\ UNCHANGED <<completed, cancelled, taken>>

SinkFailed ==
  /\ phase = "sink"
  /\ End("sink_error")
  /\ UNCHANGED <<completed, cancelled, taken, stored>>

\* A terminal cancellation, which the child operation may or may not heed.
Cancel ==
  /\ phase \in {"source", "sink"}
  /\ cancelled' = TRUE
  /\ UNCHANGED <<phase, completed, result, taken, stored>>

-----------------------------------------------------------------------------
(***************************************************************************)
(* Properties.                                                             *)
(***************************************************************************)
\* Unless the operation is aborted the count is the number of values that the sink
\* accepted, with an error of the source (test/copy.cpp:51-53) and with one of the
\* sink.  Aborted or not it is never above that and at most one below, nor is it
\* what the count wrapped to.
CountRight ==
  phase = "done" =>
    /\ result # "aborted" => completed = stored
    /\ completed <= stored /\ stored <= completed + 1
=============================================================================
