-------------------------- MODULE VersionPublication --------------------------
(***************************************************************************)
(* What the store promises about the versions of its documents, whatever   *)
(* the queue and the workers do: versions are accepted in number order,    *)
(* each ends visible, hidden or failed, a document shows at most one       *)
(* version and once it shows one always shows one, nothing becomes visible *)
(* or is hidden but by a publication, and only a failed version is tried   *)
(* again.  As long as publications do not overlap, the version a document  *)
(* shows is only ever replaced by a higher one: the README of the          *)
(* repository promises as much to searches, without that condition.        *)
(***************************************************************************)
EXTENDS Integers

CONSTANTS Docs, MaxVersion

VARIABLES
  state,      \* of each version
  shown,      \* number of the version a document shows, 0 if none
  overlapped  \* publications may have overlapped

vars == <<state, shown, overlapped>>

Versions == Docs \X (1 .. MaxVersion)

States == {"absent", "pending", "visible", "hidden", "failed"}

Init ==
  /\ state = [v \in Versions |-> "absent"]
  /\ shown = [d \in Docs |-> 0]
  /\ overlapped = FALSE

\* The next version of a document is accepted.
Accept(v) ==
  /\ state[v] = "absent"
  /\ \A n \in 1 .. v[2] - 1 : state[<<v[1], n>>] # "absent"
  /\ state' = [state EXCEPT ![v] = "pending"]
  /\ UNCHANGED shown

\* From now on publications may overlap.
Overlap ==
  /\ overlapped' = TRUE
  /\ UNCHANGED <<state, shown>>

\* A processed version is shown in the place of a lower one ...
Publish(v) ==
  /\ state[v] = "pending"
  /\ shown[v[1]] < v[2] \/ overlapped
  /\ shown' = [shown EXCEPT ![v[1]] = v[2]]
  /\ state' = [x \in Versions |-> IF x = v THEN "visible"
                                  ELSE IF x = <<v[1], shown[v[1]]>> THEN "hidden"
                                  ELSE state[x]]

\* ... or comes too late to be.
Skip(v) ==
  /\ state[v] = "pending"
  /\ shown[v[1]] > v[2]
  /\ state' = [state EXCEPT ![v] = "hidden"]
  /\ UNCHANGED shown

Abandon(v) ==
  /\ state[v] = "pending"
  /\ state' = [state EXCEPT ![v] = "failed"]
  /\ UNCHANGED shown

\* A failed version can be tried again, also when a higher one has come to be
\* shown meanwhile.
Reopen(v) ==
  /\ state[v] = "failed"
  /\ state' = [state EXCEPT ![v] = "pending"]
  /\ UNCHANGED shown

VersionMoves(v) == Accept(v) \/ Publish(v) \/ Skip(v) \/ Abandon(v) \/ Reopen(v)

Next ==
  \/ Overlap
  \/ (\E v \in Versions : VersionMoves(v)) /\ UNCHANGED overlapped

Spec == Init /\ [][Next]_vars
=============================================================================
