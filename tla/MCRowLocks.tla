----------------------------- MODULE MCRowLocks -----------------------------
(* RowLocks on small instances.                                            *)
EXTENDS RowLocks, TLC

ASSUME ConstantsAssumption

\* Runs, workers and operators are interchangeable identities.
Symmetry == Permutations(Runs) \cup Permutations(Workers) \cup Permutations(Operators)
=============================================================================
