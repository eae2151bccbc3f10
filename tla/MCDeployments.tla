---------------------------- MODULE MCDeployments ----------------------------
(* Registration in two deployments: one web process whose transactions have  *)
(* ended when its calls return, and several, with commits that outlive their *)
(* callers.                                                                  *)
EXTENDS Registration, TLC

CONSTANTS
  OneProcess,   \* the processes of the first deployment
  FewerRequests \* those that are made in the second

ASSUME OneProcessAssumption == \A p, r \in OneProcess : p = r

VARIABLE deployment

allVars == <<deployment, vars>>

One == INSTANCE Registration WITH Processes <- OneProcess, LateCommits <- FALSE

MCInit == deployment \in {"one", "several"} /\ Init

MCNext ==
  /\ \/ deployment = "one" /\ One!Next
     \/ /\ deployment = "several" /\ Next
        /\ \A q \in Requests \ FewerRequests : request'[q] = request[q]
  /\ UNCHANGED deployment

MCSpec == MCInit /\ [][MCNext]_allVars

\* Keys, contents and the requests of a deployment are interchangeable.
Interchangeable ==
  Permutations(FewerRequests) \cup Permutations(Keys) \cup Permutations(Contents)

\* The clean-up of the only web process never takes the original of a
\* registered version away (removeUncommittedOriginal).
OneProcessKeepsOriginals == deployment = "one" => OriginalsKept
==============================================================================
