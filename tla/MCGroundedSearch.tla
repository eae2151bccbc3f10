-------------------------- MODULE MCGroundedSearch --------------------------
(* GroundedSearch on small instances.                                      *)
EXTENDS GroundedSearch, TLC

\* Documents and contents are interchangeable identities.
Symmetry == Permutations(Docs) \cup Permutations(Contents)
=============================================================================
