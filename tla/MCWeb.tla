------------------------------- MODULE MCWeb -------------------------------
(* What the web server keeps and asks: GroundedSearch, LoginGuard and        *)
(* Sessions.  A behaviour has the steps of one of them, the others stay      *)
(* where they begin.                                                         *)
EXTENDS GroundedSearch, LoginGuard, Sessions, TLC

VARIABLE part

ASSUME GuardAssumption /\ ClocksAssumption

\* The clocks of two processes and of the database (DatabaseSkew) differ.
MCProcesses == {"web1", "web2"}
MCSkew      == [web1 |-> 0, web2 |-> -1]

allVars == <<part, vars, guardVars, sessionVars>>

\* Two addresses share the table for a while, or one is guessed for, over more
\* than two windows.
TwoAddresses == Cardinality(Recorded') <= 4 /\ now' <= 4
OneAddress   == \A q \in Logins : login'[q].address \in {"none", CHOOSE a \in Addresses : TRUE}

MCInit ==
  /\ part \in {"versions", "originals", "guard", "guesses", "sessions"}
  /\ Init /\ GuardInit /\ SessionInit
  /\ part # "originals" => \E c \in Contents : content = [v \in Versions |-> c]
  /\ part \notin {"versions", "originals"} => relevant = {}

MCNext ==
  /\ \/ /\ part = "versions" /\ Next /\ damage' = 0
        /\ UNCHANGED <<guardVars, sessionVars>>
     \/ /\ part = "originals" /\ Next /\ \A v \in Versions : v[2] > 1 => state'[v] = "absent"
        /\ UNCHANGED <<guardVars, sessionVars>>
     \/ /\ part \in {"guard", "guesses"} /\ GuardNext
        /\ IF part = "guard" THEN TwoAddresses ELSE OneAddress
        /\ UNCHANGED <<vars, sessionVars>>
     \/ part = "sessions" /\ SessionNext /\ UNCHANGED <<vars, guardVars>>
  /\ UNCHANGED part

MCSpec == MCInit /\ [][MCNext]_allVars

\* Documents, contents and requests are interchangeable identities.
Symmetry == Permutations(Docs) \cup Permutations(Contents) \cup Permutations(Requests)
=============================================================================
