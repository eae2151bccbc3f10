---------------------------- MODULE MCRegistration ----------------------------
(* Registration for TLC: requests, keys, contents and processes are           *)
(* interchangeable.                                                           *)
EXTENDS Registration, TLC

Interchangeable ==
  Permutations(Processes) \cup Permutations(Requests) \cup Permutations(Keys)
    \cup Permutations(Contents)
===============================================================================
