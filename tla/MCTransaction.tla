--------------------------- MODULE MCTransaction ---------------------------
(***************************************************************************)
(* Instances of Transaction for TLC.  Threads are interchangeable, and so  *)
(* are latches: the order of two is in the job.                            *)
(***************************************************************************)
EXTENDS Transaction, TLC

Symmetry == Permutations(Threads) \cup Permutations(Latches)
=============================================================================
