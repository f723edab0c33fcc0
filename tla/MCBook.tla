------------------------------- MODULE MCBook -------------------------------
(***************************************************************************)
(* Instances of Book for TLC.                                              *)
(***************************************************************************)
EXTENDS Book

CONSTANTS alice, bob

\* The engine never interprets a session, so two of them are interchangeable.
Symmetry == Permutations({alice, bob})
=============================================================================
