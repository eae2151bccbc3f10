---------------------------- MODULE Installation ----------------------------
(***************************************************************************)
(* What the migrations promise of a database: releases are installed       *)
(* whole, each one an extension of what is there, and the processing       *)
(* profile that the first one chose is never changed.                      *)
(***************************************************************************)
EXTENDS Integers, Sequences

CONSTANTS
  Releases, \* the releases: the checksums of their migrations, their profile
  NoProfile

VARIABLES
  ledger, \* the migrations installed, with their checksums
  profile \* the active processing profile

vars == <<ledger, profile>>

RowsOf(r) == {<<v, r.sums[v]>> : v \in DOMAIN r.sums}

Init == ledger = {} /\ profile = NoProfile

Install(r) ==
  /\ \/ ledger = {} /\ profile = NoProfile
     \/ ledger \subseteq RowsOf(r) /\ profile = r.profile
  /\ ledger' = RowsOf(r)
  /\ profile' = r.profile

Next == \E r \in Releases : Install(r)

Spec == Init /\ [][Next]_vars
=============================================================================
