------------------------------ MODULE MCChaos ------------------------------
(***************************************************************************)
(* Instances of Chaos for TLC.                                             *)
(***************************************************************************)
EXTENDS Chaos

CONSTANTS p1, p2

\* A request is a goroutine like any other.
Symmetry == Permutations({p1, p2})
=============================================================================
