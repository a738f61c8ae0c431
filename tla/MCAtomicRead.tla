---------------------------- MODULE MCAtomicRead ----------------------------
(***************************************************************************)
(* Instances of AtomicRead for TLC: two reads in one group and one in a    *)
(* group of its own.                                                       *)
(***************************************************************************)
EXTENDS AtomicRead, TLC

CONSTANTS r1, r2, r3, g1, g2

MCGroupOf == r1 :> g1 @@ r2 :> g1 @@ r3 :> g2
=============================================================================
