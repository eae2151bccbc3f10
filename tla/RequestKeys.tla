----------------------------- MODULE RequestKeys -----------------------------
(***************************************************************************)
(* What the service promises of the request keys of uploads, however often *)
(* a request is sent, lost or interrupted: the first request binds its key *)
(* to its content for ever, and the key then has one outcome that never    *)
(* changes, a version of that content or a rejection.                      *)
(***************************************************************************)
CONSTANTS Keys, Contents, None

VARIABLES
  bound,   \* content a key is bound to
  outcome  \* of the key

vars == <<bound, outcome>>

Init ==
  /\ bound = [k \in Keys |-> None]
  /\ outcome = [k \in Keys |-> "open"]

Bind(k, c) ==
  /\ bound[k] = None
  /\ bound' = [bound EXCEPT ![k] = c]
  /\ UNCHANGED outcome

Settle(k, result) ==
  /\ bound[k] # None
  /\ outcome[k] = "open"
  /\ outcome' = [outcome EXCEPT ![k] = result]
  /\ UNCHANGED bound

Next == \E k \in Keys : \/ \E c \in Contents : Bind(k, c)
                        \/ Settle(k, "registered")
                        \/ Settle(k, "rejected")

Spec == Init /\ [][Next]_vars
=============================================================================
