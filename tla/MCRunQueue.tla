----------------------------- MODULE MCRunQueue -----------------------------
(* RunQueue on small instances.                                            *)
EXTENDS RunQueue, TLC

\* Runs, workers and retry keys are interchangeable identities.
Symmetry == Permutations(Runs) \cup Permutations(Workers) \cup Permutations(RetryKeys)
=============================================================================
