-------------------------- MODULE MCSessionServer --------------------------
(***************************************************************************)
(* Instances of SessionServer for TLC: up to three requests of session s1  *)
(* and two of session s2, streaming or not.  The requests of s1 are        *)
(* interchangeable: Symmetry is sound for runs that check safety only and  *)
(* in which all of them stream or none does.                               *)
(***************************************************************************)
EXTENDS SessionServerRefinement, TLC

CONSTANTS r1, r2, r3, q1, q2, s1, s2

MCSidOf == [r \in Requests |-> IF r \in {q1, q2} THEN s2 ELSE s1]

MCSymmetry == Permutations({r1, r2, r3})
=============================================================================
