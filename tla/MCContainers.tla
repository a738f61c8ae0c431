---------------------------- MODULE MCContainers ----------------------------
(***************************************************************************)
(* The two containers of the library for TLC, the circular buffer and the  *)
(* waiter list.  Nothing connects them, so that it is enough to explore    *)
(* each while the other is as it was built.                                *)
(***************************************************************************)
EXTENDS ExpandingBuffer, BiList

MCInit == BufferInit /\ Init

MCNext ==
  \/ BufferNext /\ Init /\ UNCHANGED vars
  \/ Next /\ BufferInit /\ UNCHANGED bufferVars

MCSpec == MCInit /\ [][MCNext]_<<vars, bufferVars>>
=============================================================================
