-------------------------- MODULE DeploymentProofs --------------------------
(***************************************************************************)
(* The clean-up of originals in the two deployments of MCDeployments.  One *)
(* web process whose transactions end before its calls do is an instance   *)
(* of Registration, and so keeps what RegistrationProofs proves of it.     *)
(***************************************************************************)
EXTENDS MCDeployments, TLAPS

Single == INSTANCE RegistrationProofs WITH Processes <- OneProcess, LateCommits <- FALSE

\* What Registration assumes of its constants holds of one process.
LEMMA SingleAssumption == Single!RegistrationAssumption
  BY RegistrationAssumption DEF Single!RegistrationAssumption, RegistrationAssumption

\* The deployments begin alike: no request has a process yet.
LEMMA SameInit == Init => Single!Init
  BY DEF Init, Single!Init, NoUpload, NoRequest, Single!NoUpload, Single!NoRequest

\* A step of the model's one process is one of the process proved about.
LEMMA SameNext == One!Next => Single!Next
  BY DEF One!Next, Single!Next, One!Register, Single!Register, One!Submit, Single!Submit,
    One!Reserve, Single!Reserve, One!ReserveLost, Single!ReserveLost, One!Parse, Single!Parse,
    One!Expire, Single!Expire, One!EnterGate, Single!EnterGate, One!Put, Single!Put,
    One!PutUnsynced, Single!PutUnsynced, One!Lock, Single!Lock, One!Unblock, Single!Unblock,
    One!Commit, Single!Commit, One!AbandonCommit, Single!AbandonCommit, One!CallFails,
    Single!CallFails, One!Check, Single!Check, One!Remove, Single!Remove, One!CleanUpFails,
    Single!CleanUpFails, One!LateCommit, Single!LateCommit, One!LateRollback, Single!LateRollback,
    One!Elapse, Single!Elapse, One!Stop, Single!Stop, One!Goes, Single!Goes, One!Answered,
    Single!Answered, One!Refused, Single!Refused, One!Accepted, Single!Accepted, One!Found,
    Single!Found, One!Inserted, Single!Inserted, One!Pending, Single!Pending, One!SameIdentity,
    Single!SameIdentity, One!Expired, Single!Expired, One!GateTaken, Single!GateTaken,
    One!Locked, Single!Locked, One!Referenced, Single!Referenced, One!NoUpload, Single!NoUpload,
    One!NoRequest, Single!NoRequest, One!Open, Single!Open, One!InGate, Single!InGate,
    One!AfterPut, Single!AfterPut, One!CleanUp, Single!CleanUp

Alone == deployment = "one"

\* A behaviour that begins with one process stays with it.
LEMMA OneProcessSteps == Alone /\ [MCNext]_allVars => Alone' /\ [Single!Next]_(Single!vars)
  <1> SUFFICES ASSUME Alone, [MCNext]_allVars PROVE Alone' /\ [Single!Next]_(Single!vars)
    OBVIOUS
  <1>1. CASE UNCHANGED allVars
    BY <1>1 DEF Alone, allVars, vars, Single!vars
  <1>2. CASE MCNext
    BY <1>2, SameNext DEF Alone, MCNext
  <1> QED BY <1>1, <1>2

\* Among all the behaviours of the two deployments, in those of one process the
\* original of a registered version is never removed.
THEOREM OneProcessSafe == MCSpec => []OneProcessKeepsOriginals
  <1>1. MCInit /\ Alone => Single!Init
    BY SameInit DEF MCInit
  <1>2. Alone /\ [MCNext]_allVars => Alone' /\ [Single!Next]_(Single!vars)
    BY OneProcessSteps
  <1>3. ~Alone /\ [MCNext]_allVars => ~Alone'
    BY DEF Alone, MCNext, allVars
  <1>4. Single!Spec => []Single!OriginalsKept
    BY Single!OriginalsSafe, SingleAssumption, OneProcessAssumption
       DEF Single!OneProcess, OneProcessAssumption
  <1>5. Single!OriginalsKept => OneProcessKeepsOriginals
    BY DEF Single!OriginalsKept, OneProcessKeepsOriginals, OriginalsKept,
           Single!Referenced, Referenced
  <1>6. ~Alone => OneProcessKeepsOriginals
    BY DEF Alone, OneProcessKeepsOriginals
  <1> QED BY <1>1, <1>2, <1>3, <1>4, <1>5, <1>6, PTL DEF MCSpec, Single!Spec
=============================================================================
