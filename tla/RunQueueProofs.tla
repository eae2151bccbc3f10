--------------------------- MODULE RunQueueProofs ---------------------------
(***************************************************************************)
(* Theorems about RunQueue, for every value of its constants.  The         *)
(* inductive invariant is built in layers, each proved with the help of    *)
(* the ones before it:                                                     *)
(*   Rows      types, and what a row or a claim refers to exists           *)
(*   Fences    a fencing token identifies one claim                        *)
(*   Leases    status, lease, token and attempts of a run agree            *)
(*   Alone     until claims overlap there is one lease, and the active     *)
(*             version a Finalize saw is still the document's              *)
(*   Versions  a version's status agrees with its runs and its document    *)
(*   Chunks    a version's chunks are those of the claim that published it *)
(* The first three are about runs and who may write them; beside them is   *)
(* the bound on the live runs.  What Finalize reads of the document can be *)
(* out of date (NumbersRead); Alone says when it is not, and the layer     *)
(* Versions says what holds in either case.  From the two follows that the *)
(* queue implements VersionPublication: each step of RunQueue is matched   *)
(* with the step of the abstract specification it is, or with none.        *)
(***************************************************************************)
EXTENDS RunQueue, TLAPS, FiniteSetTheorems

\* A run that was inserted has a version, a worker's claim a run, and a retry
\* a run to retry.
References ==
  /\ \A r \in Runs : run[r].status # "ABSENT" => run[r].version \in VersionIds
  /\ \A w \in Workers : worker[w].state # "idle" =>
       /\ worker[w].run \in Runs
       /\ run[worker[w].run].status # "ABSENT"
  /\ retrying # NoRetry => run[retrying.parent].status # "ABSENT"

Rows == TypeOK /\ References

-----------------------------------------------------------------------------
(* The updates of a row keep its type.                                     *)

\* The named stages are stages.
LEMMA StagesType == Metadata \in Stages /\ Store \in Stages /\ Activate \in Stages
  BY ConstantsAssumption DEF Stages, Metadata, Store, Activate

\* A reclaim gives an attempt back and never goes below zero.
LEMMA ReclaimedType == ASSUME NEW row \in RunRow PROVE Reclaimed(row) \in RunRow
  <1>1. row.attempts \in 0 .. MaxAttempts BY DEF RunRow
  <1>2. (IF row.attempts > 0 THEN row.attempts - 1 ELSE 0) \in 0 .. MaxAttempts
    BY <1>1, ConstantsAssumption
  <1> QED BY <1>2, ZenonT(40) DEF Reclaimed, RunRow, LiveStatus

\* A reclaim, field by field.
LEMMA ReclaimedFields ==
  ASSUME NEW row \in RunRow
  PROVE  /\ Reclaimed(row).status = "QUEUED"
         /\ Reclaimed(row).fence = 0
         /\ Reclaimed(row).lease = "none"
         /\ Reclaimed(row).retryAt = "none"
         /\ Reclaimed(row).attempts = IF row.attempts > 0 THEN row.attempts - 1 ELSE 0
         /\ Reclaimed(row).version = row.version
         /\ Reclaimed(row).error = row.error
  BY DEF Reclaimed, RunRow

\* A claim, field by field.
LEMMA LeasedFields ==
  ASSUME NEW row \in RunRow, NEW token
  PROVE  /\ Leased(row, token).status = "RUNNING"
         /\ Leased(row, token).fence = token
         /\ Leased(row, token).lease = "live"
         /\ Leased(row, token).retryAt = "none"
         /\ Leased(row, token).attempts = row.attempts + 1
         /\ Leased(row, token).version = row.version
         /\ Leased(row, token).error = row.error
  BY DEF Leased, RunRow

\* A scheduled retry, field by field.
LEMMA RetryScheduledFields ==
  ASSUME NEW row \in RunRow, NEW code
  PROVE  /\ RetryScheduled(row, code).status = row.status
         /\ RetryScheduled(row, code).fence = 0
         /\ RetryScheduled(row, code).lease = "none"
         /\ RetryScheduled(row, code).retryAt = "waiting"
         /\ RetryScheduled(row, code).attempts = row.attempts
         /\ RetryScheduled(row, code).version = row.version
         /\ RetryScheduled(row, code).error = code
  BY DEF RetryScheduled, RunRow

\* A final failure, field by field.
LEMMA FailedFields ==
  ASSUME NEW row \in RunRow, NEW code
  PROVE  /\ Failed(row, code).status = "FAILED"
         /\ Failed(row, code).fence = row.fence
         /\ Failed(row, code).lease = "none"
         /\ Failed(row, code).attempts = row.attempts
         /\ Failed(row, code).version = row.version
         /\ Failed(row, code).error = code
  BY DEF Failed, RunRow

\* The end of a run, field by field.
LEMMA FinishedFields ==
  ASSUME NEW row \in RunRow, NEW status
  PROVE  /\ Finished(row, status).status = status
         /\ Finished(row, status).fence = row.fence
         /\ Finished(row, status).lease = "none"
         /\ Finished(row, status).attempts = row.attempts
         /\ Finished(row, status).version = row.version
         /\ Finished(row, status).error = row.error
  BY DEF Finished, RunRow

\* A claim keeps the type if an attempt is left.
LEMMA LeasedType ==
  ASSUME NEW row \in RunRow, NEW token \in Nat, row.attempts < MaxAttempts
  PROVE  Leased(row, token) \in RunRow
  <1>1. row.attempts + 1 \in 0 .. MaxAttempts BY ConstantsAssumption DEF RunRow
  <1> QED BY <1>1 DEF Leased, RunRow, LiveStatus

\* So do the updates of Fail and Finalize.
LEMMA EndedType ==
  ASSUME NEW row \in RunRow
  PROVE  /\ \A code \in ErrorCodes : RetryScheduled(row, code) \in RunRow
         /\ \A code \in ErrorCodes : Failed(row, code) \in RunRow
         /\ \A status \in FinishedStatus : Finished(row, status) \in RunRow
         /\ \A lease \in {"none", "live", "expired"} : [row EXCEPT !.lease = lease] \in RunRow
         /\ [row EXCEPT !.retryAt = "due"] \in RunRow
  <1>1. \A code \in ErrorCodes : RetryScheduled(row, code) \in RunRow
    BY DEF RetryScheduled, RunRow
  <1>2. \A code \in ErrorCodes : Failed(row, code) \in RunRow
    BY DEF Failed, RunRow, FinishedStatus
  <1>3. \A status \in FinishedStatus : Finished(row, status) \in RunRow
    BY DEF Finished, RunRow
  <1>4. \A lease \in {"none", "live", "expired"} : [row EXCEPT !.lease = lease] \in RunRow
    BY DEF RunRow
  <1>5. [row EXCEPT !.retryAt = "due"] \in RunRow
    BY DEF RunRow
  <1> QED BY <1>1, <1>2, <1>3, <1>4, <1>5

\* The rows that stand for no row have the type.
LEMMA NullRowTypes ==
  /\ NoDoc \in DocRow
  /\ NoVersion \in VersionRow
  /\ NoRun \in RunRow
  /\ IdleWorker \in WorkerRow
  /\ NoRetry \notin RetryRow
  BY ConstantsAssumption, StagesType
     DEF NoDoc, DocRow, NoVersion, VersionRow, NoRun, RunRow, IdleWorker, WorkerRow, LiveStatus,
         NoRetry, RetryRow

\* A version is its document and its number.
LEMMA VersionParts ==
  ASSUME NEW v \in VersionIds
  PROVE  v[1] \in Docs /\ v[2] \in 1 .. MaxVersion /\ v = <<v[1], v[2]>>
  BY DEF VersionIds

\* An inserted run has the type.
LEMMA InsertedType ==
  ASSUME NEW v \in VersionIds, NEW p \in Runs \cup {None}, NEW k \in RetryKeys \cup {None}
  PROVE  Inserted(v, p, k) \in RunRow
  BY ConstantsAssumption DEF Inserted, RunRow, LiveStatus

\* Logging an event keeps the type of the log.
LEMMA LoggedType ==
  ASSUME changeLog \in [Runs -> Seq(Events)], NEW r \in Runs, NEW e \in Events, Logged(r, e)
  PROVE  changeLog' \in [Runs -> Seq(Events)]
  BY DEF Logged

\* Giving a claim up leaves the other claims alone.
LEMMA ReleasedType ==
  ASSUME worker \in [Workers -> WorkerRow], NEW w \in Workers, Released(w) \/ UNCHANGED worker
  PROVE  /\ worker' \in [Workers -> WorkerRow]
         /\ \A x \in Workers : worker'[x] = worker[x] \/ worker'[x].state = "idle"
  BY NullRowTypes DEF Released, IdleWorker

\* A retry that holds the lock is that of an inserted run.
LEMMA RetryingRun ==
  ASSUME Rows, retrying # NoRetry
  PROVE  /\ retrying.parent \in Runs /\ retrying.key \in RetryKeys
         /\ run[retrying.parent].status # "ABSENT"
         /\ run[retrying.parent].version \in VersionIds
  BY DEF Rows, TypeOK, References, RetryRow

-----------------------------------------------------------------------------
(* The layer Rows.                                                         *)

\* All rows are absent at first.
LEMMA RowsInit == Init => Rows
  <1> SUFFICES ASSUME Init PROVE Rows
    OBVIOUS
  <1>1. TypeOK
    <2>1. overlapped \in BOOLEAN
      BY Zenon DEF Init
    <2> QED BY <2>1, NullRowTypes, ConstantsAssumption DEF Init, TypeOK
  <1>2. References
    BY DEF Init, References, NoRun, IdleWorker
  <1> QED BY <1>1, <1>2 DEF Rows

\* Every step keeps the types and the references.
LEMMA RowsNext == Rows /\ [Next]_vars => Rows'
  <1> SUFFICES ASSUME Rows, [Next]_vars PROVE Rows'
    OBVIOUS
  <1> USE DEF Rows
  <1>r. ASSUME NEW r \in Runs PROVE run[r] \in RunRow
    BY DEF TypeOK
  <1>p. retrying # NoRetry => retrying.parent \in Runs
    BY RetryingRun
  <1>1. ASSUME NEW q \in Requests, RegisterCheck(q) PROVE Rows'
    BY <1>1 DEF RegisterCheck, TypeOK, References
  <1>2. ASSUME NEW q \in Requests, NEW d \in Docs, NEW r \in Runs, RegisterCommit(q, d, r)
        PROVE  Rows'
    <2> DEFINE v == <<d, doc[d].next>>
    <2>1. v \in VersionIds
      BY <1>2 DEF RegisterCommit, TypeOK, DocRow, VersionIds
    <2>2. doc' \in [Docs -> DocRow]
      <3>1. doc[d] \in DocRow /\ doc[d].next <= MaxVersion
        BY <1>2 DEF RegisterCommit, TypeOK
      <3>2. [doc[d] EXCEPT !.next = @ + 1] \in DocRow
        BY <3>1, ConstantsAssumption DEF DocRow
      <3>3. doc' = [doc EXCEPT ![d] = [doc[d] EXCEPT !.next = @ + 1]]
        BY <1>2 DEF RegisterCommit
      <3> QED BY <3>2, <3>3 DEF TypeOK
    <2>3. version' \in [VersionIds -> VersionRow]
      BY <1>2, <2>1 DEF RegisterCommit, TypeOK, VersionRow
    <2>4. run' = [run EXCEPT ![r] = Inserted(v, None, None)]
      BY <1>2 DEF RegisterCommit
    <2>5. run' \in [Runs -> RunRow]
      BY <2>1, <2>4, InsertedType DEF TypeOK
    <2>6. changeLog' \in [Runs -> Seq(Events)]
      BY <1>2, LoggedType DEF RegisterCommit, TypeOK, Events
    <2>7. /\ registering' \subseteq Requests
          /\ UNCHANGED <<nextFence, retrying, worker, faults, overlapped>>
      BY <1>2 DEF RegisterCommit, TypeOK
    <2>8. \A x \in Runs : x # r => run'[x] = run[x]
      BY <2>4 DEF TypeOK
    <2>9. run'[r].status = "QUEUED" /\ run'[r].version = v
      BY <2>4 DEF TypeOK, Inserted
    <2>10. References'
      BY <1>p, <2>1, <2>7, <2>8, <2>9 DEF References, TypeOK
    <2> QED BY <2>2, <2>3, <2>5, <2>6, <2>7, <2>10 DEF TypeOK
  <1>3. ASSUME NEW q \in Requests, RegisterAbort(q) PROVE Rows'
    BY <1>3 DEF RegisterAbort, TypeOK, References
  <1>4. ASSUME NEW c \in Runs, Retry(c) PROVE Rows'
    <2> DEFINE p == retrying.parent
               v == run[p].version
               k == retrying.key
    <2>1. p \in Runs /\ v \in VersionIds /\ k \in RetryKeys
      BY <1>4, RetryingRun DEF Retry
    <2>2. version' \in [VersionIds -> VersionRow]
      BY <1>4, <2>1 DEF Retry, TypeOK, VersionRow
    <2>3. run' = [run EXCEPT ![c] = Inserted(v, p, k)]
      BY <1>4 DEF Retry
    <2>4. run' \in [Runs -> RunRow]
      BY <2>1, <2>3, InsertedType DEF TypeOK
    <2>5. changeLog' \in [Runs -> Seq(Events)]
      BY <1>4, LoggedType DEF Retry, TypeOK, Events
    <2>6. UNCHANGED <<doc, nextFence, registering, worker, faults, overlapped>> /\ retrying' = NoRetry
      BY <1>4 DEF Retry
    <2>7. \A x \in Runs : x # c => run'[x] = run[x]
      BY <2>3 DEF TypeOK
    <2>8. run'[c].status = "QUEUED" /\ run'[c].version = v
      BY <2>3 DEF TypeOK, Inserted
    <2>9. References'
      BY <2>1, <2>6, <2>7, <2>8 DEF References, TypeOK
    <2> QED BY <2>2, <2>4, <2>5, <2>6, <2>9 DEF TypeOK
  <1>5. ASSUME NEW w \in Workers, ClaimNothing(w) PROVE Rows'
    <2>1. run' \in [Runs -> RunRow]
      BY <1>5, ReclaimedType DEF ClaimNothing, TypeOK
    <2>2. \A x \in Runs : /\ run'[x].version = run[x].version
                          /\ run'[x].status = "ABSENT" <=> run[x].status = "ABSENT"
      BY <1>5, <1>r DEF ClaimNothing, Expired, Reclaimed, RunRow
    <2> QED BY <1>5, <1>p, <2>1, <2>2 DEF ClaimNothing, TypeOK, References
  <1>6. ASSUME NEW w \in Workers, NEW r \in Runs, ClaimNext(w, r) PROVE Rows'
    <2> DEFINE base == IF r \in Expired THEN Reclaimed(run[r]) ELSE run[r]
               v    == run[r].version
    <2>run. run' = [x \in Runs |->
                      IF x = r THEN Leased(base, nextFence)
                      ELSE IF x \in Expired THEN Reclaimed(run[x])
                      ELSE IF x \in LiveLeases THEN [run[x] EXCEPT !.lease = "expired"]
                      ELSE run[x]]
      BY <1>6 DEF ClaimNext
    <2>1. base \in RunRow /\ base.attempts < MaxAttempts
      BY <1>6, <1>r, ReclaimedType DEF ClaimNext
    <2>2. base.attempts + 1 \in 0 .. MaxAttempts
      BY <2>1, ConstantsAssumption DEF RunRow
    <2>3. run[r].status # "ABSENT" /\ v \in VersionIds
      BY <1>6 DEF ClaimNext, Claimable, Expired, References
    <2>4. nextFence \in Nat /\ nextFence' \in Nat \ {0}
      BY <1>6 DEF ClaimNext, AllocateFence, TypeOK
    <2>5. Leased(base, nextFence) \in RunRow
      BY <2>1, <2>4, LeasedType
    <2>6. run' \in [Runs -> RunRow]
      <3>1. \A x \in Runs : [run[x] EXCEPT !.lease = "expired"] \in RunRow
        BY <1>r DEF RunRow
      <3>2. \A x \in Runs : Reclaimed(run[x]) \in RunRow
        BY <1>r, ReclaimedType
      <3> QED BY <1>r, <2>5, <2>run, <3>1, <3>2
    <2>7. version' \in [VersionIds -> VersionRow]
      <3>1. [version[v] EXCEPT !.status = IF @ = "QUEUED" THEN "PROCESSING" ELSE @] \in VersionRow
        BY <2>3 DEF TypeOK, VersionRow
      <3>2. version' = [version EXCEPT ![v] =
                          [version[v] EXCEPT !.status = IF @ = "QUEUED" THEN "PROCESSING" ELSE @]]
        BY <1>6 DEF ClaimNext
      <3> QED BY <3>1, <3>2 DEF TypeOK
    <2>8. worker' \in [Workers -> WorkerRow]
      BY <1>6, <2>2, <2>4, StagesType, ConstantsAssumption DEF ClaimNext, TypeOK, WorkerRow
    <2>9. faults' \in Nat /\ overlapped' \in BOOLEAN
      BY <1>6 DEF ClaimNext, TypeOK
    <2>10. \A x \in Runs : /\ run'[x].version = run[x].version
                           /\ run'[x].status = "ABSENT" <=> run[x].status = "ABSENT"
      <3>1. \A x \in Runs : [run[x] EXCEPT !.lease = "expired"].version = run[x].version
                          /\ [run[x] EXCEPT !.lease = "expired"].status = run[x].status
        BY <1>r DEF RunRow
      <3> HIDE DEF base
      <3>2. base.version = run[r].version
        BY <1>r, ReclaimedFields DEF base
      <3>3. \A x \in Expired : run[x].status # "ABSENT"
        BY DEF Expired
      <3> QED BY <1>r, <2>1, <2>3, <2>run, <3>1, <3>2, <3>3, ReclaimedFields, LeasedFields
    <2>11. worker' = [worker EXCEPT ![w] = [state |-> "working", run |-> r, fence |-> nextFence,
                                            attempt |-> base.attempts + 1, stage |-> Metadata,
                                            seen |-> 0]]
          /\ retrying' = retrying
      BY <1>6 DEF ClaimNext
    <2>12. References'
      BY <1>p, <2>3, <2>10, <2>11 DEF References, TypeOK
    <2> QED BY <1>6, <2>4, <2>6, <2>7, <2>8, <2>9, <2>12 DEF ClaimNext, TypeOK
  <1>7. ASSUME NEW w \in Workers, SetStage(w) PROVE Rows'
    <2>1. [worker[w] EXCEPT !.state = "working", !.stage = @ + 1] \in WorkerRow
      <3>1. worker[w] \in WorkerRow /\ worker[w].stage < Activate
        BY <1>7 DEF SetStage, TypeOK
      <3>2. worker[w].stage + 1 \in Stages
        BY <3>1, ConstantsAssumption DEF WorkerRow, Stages, Metadata, Activate
      <3> QED BY <3>1, <3>2 DEF WorkerRow
    <2>2. worker' = [worker EXCEPT ![w] = [worker[w] EXCEPT !.state = "working", !.stage = @ + 1]]
      BY <1>7 DEF SetStage
    <2>3. worker' \in [Workers -> WorkerRow]
      BY <2>1, <2>2 DEF TypeOK
    <2>4. \A x \in Workers : worker'[x].run = worker[x].run
      BY <2>2 DEF TypeOK, WorkerRow
    <2>5. worker[w].state # "idle"
      BY <1>7 DEF SetStage, Writable, Current
    <2>6. References'
      BY <1>7, <1>p, <2>2, <2>4, <2>5 DEF SetStage, TypeOK, References
    <2> QED BY <1>7, <2>3, <2>6 DEF SetStage, TypeOK
  <1>8. ASSUME NEW w \in Workers, BeginStore(w) PROVE Rows'
    BY <1>8 DEF BeginStore, TypeOK, References, WorkerRow
  <1>9. ASSUME NEW w \in Workers, CommitStore(w) PROVE Rows'
    <2> DEFINE r == worker[w].run
               v == run[r].version
    <2>1. r \in Runs /\ v \in VersionIds /\ worker[w].fence \in Nat
      BY <1>9 DEF CommitStore, Current, TypeOK, References, WorkerRow
    <2>2. version' \in [VersionIds -> VersionRow]
      BY <1>9, <2>1, ZenonT(40) DEF CommitStore, TypeOK, VersionRow
    <2>3. run' \in [Runs -> RunRow]
      <3>1. run' = [run EXCEPT ![r] = [run[r] EXCEPT !.lease = "live"]]
        BY <1>9 DEF CommitStore
      <3> QED BY <1>r, <2>1, <3>1, EndedType DEF TypeOK
    <2>4. worker' \in [Workers -> WorkerRow]
      BY <1>9 DEF CommitStore, TypeOK, WorkerRow
    <2>5. \A x \in Runs : run'[x].version = run[x].version /\ run'[x].status = run[x].status
      BY <1>9, <1>r, <2>1 DEF CommitStore, TypeOK, RunRow
    <2>6. \A x \in Workers : worker'[x].run = worker[x].run
                           /\ (worker'[x].state = "idle" <=> worker[x].state = "idle")
      BY <1>9 DEF CommitStore, TypeOK, WorkerRow
    <2>7. References'
      BY <1>9, <1>p, <2>5, <2>6 DEF CommitStore, References
    <2> QED BY <1>9, <2>2, <2>3, <2>4, <2>7 DEF CommitStore, TypeOK
  <1>10. ASSUME NEW w \in Workers, FinalizeSuperseded(w) PROVE Rows'
    <2> DEFINE r == worker[w].run
               v == run[r].version
    <2>1. r \in Runs /\ v \in VersionIds
      BY <1>10 DEF FinalizeSuperseded, References
    <2>2. run' = [run EXCEPT ![r] = Finished(run[r], "SUPERSEDED")]
      BY <1>10 DEF FinalizeSuperseded
    <2>3. Finished(run[r], "SUPERSEDED") \in RunRow
      BY <1>r, <2>1, EndedType DEF FinishedStatus
    <2>4. run' \in [Runs -> RunRow]
      BY <2>2, <2>3 DEF TypeOK
    <2>5. version' \in [VersionIds -> VersionRow]
      BY <1>10, <2>1, ZenonT(40) DEF FinalizeSuperseded, TypeOK, VersionRow
    <2>6. changeLog' \in [Runs -> Seq(Events)]
      BY <1>10, <2>1, LoggedType DEF FinalizeSuperseded, TypeOK, Events
    <2>7. worker' \in [Workers -> WorkerRow]
      BY <1>10, ReleasedType DEF FinalizeSuperseded, Answered, TypeOK
    <2>8. \A x \in Runs : /\ run'[x].version = run[x].version
                          /\ run'[x].status = "ABSENT" => run[x].status = "ABSENT"
      BY <1>r, <2>1, <2>2, FinishedFields DEF TypeOK
    <2>9. \A x \in Workers : worker'[x] = worker[x] \/ worker'[x].state = "idle"
      BY <1>10, ReleasedType DEF FinalizeSuperseded, Answered, TypeOK
    <2>10. References'
      <3>1. retrying' = retrying
        BY <1>10 DEF FinalizeSuperseded
      <3> QED BY <1>p, <2>1, <2>2, <2>8, <2>9, <3>1 DEF References, TypeOK
    <2> QED BY <1>10, <2>4, <2>5, <2>6, <2>7, <2>10 DEF FinalizeSuperseded, TypeOK
  <1>11. ASSUME NEW w \in Workers, FinalizeActivated(w) PROVE Rows'
    <2> DEFINE r == worker[w].run
               v == run[r].version
    <2>1. r \in Runs /\ v \in VersionIds
      BY <1>11 DEF FinalizeActivated, References
    <2>2. run' = [run EXCEPT ![r] = Finished(run[r], "SUCCEEDED")]
      BY <1>11 DEF FinalizeActivated
    <2>3. Finished(run[r], "SUCCEEDED") \in RunRow
      BY <1>r, <2>1, EndedType DEF FinishedStatus
    <2>4. run' \in [Runs -> RunRow]
      BY <2>2, <2>3 DEF TypeOK
    <2>5. version' \in [VersionIds -> VersionRow]
      <3>1. \A x \in VersionIds : /\ version[x] \in VersionRow
                                  /\ [version[x] EXCEPT !.status = "ACTIVE"] \in VersionRow
                                  /\ [version[x] EXCEPT !.status = "SUPERSEDED"] \in VersionRow
        BY DEF TypeOK, VersionRow
      <3> QED BY <1>11, <3>1 DEF FinalizeActivated
    <2>6. doc' \in [Docs -> DocRow]
      <3>1. v[1] \in Docs /\ v[2] \in 0 .. MaxVersion
        BY <2>1, VersionParts, ConstantsAssumption
      <3> QED BY <1>11, <3>1 DEF FinalizeActivated, TypeOK, DocRow
    <2>7. changeLog' \in [Runs -> Seq(Events)]
      BY <1>11, <2>1, LoggedType DEF FinalizeActivated, TypeOK, Events
    <2>8. worker' \in [Workers -> WorkerRow]
      BY <1>11, ReleasedType DEF FinalizeActivated, Answered, TypeOK
    <2>9. \A x \in Runs : /\ run'[x].version = run[x].version
                          /\ run'[x].status = "ABSENT" => run[x].status = "ABSENT"
      BY <1>r, <2>1, <2>2, FinishedFields DEF TypeOK
    <2>10. \A x \in Workers : worker'[x] = worker[x] \/ worker'[x].state = "idle"
      BY <1>11, ReleasedType DEF FinalizeActivated, Answered, TypeOK
    <2>11. References'
      <3>1. retrying' = retrying
        BY <1>11 DEF FinalizeActivated
      <3> QED BY <1>p, <2>1, <2>2, <2>9, <2>10, <3>1 DEF References, TypeOK
    <2> QED BY <1>11, <2>4, <2>5, <2>6, <2>7, <2>8, <2>11 DEF FinalizeActivated, TypeOK
  <1>12. ASSUME NEW w \in Workers, NEW code, FailRetriable(w, code)
         PROVE  Rows'
    <2> DEFINE r == worker[w].run
    <2>1. r \in Runs /\ code \in ErrorCodes
      BY <1>12 DEF FailRetriable, Writable, Current, References, ErrorCodes
    <2>2. run' = [run EXCEPT ![r] = RetryScheduled(run[r], code)]
      BY <1>12 DEF FailRetriable
    <2>3. run' \in [Runs -> RunRow]
      BY <1>r, <2>1, <2>2, EndedType DEF TypeOK
    <2>4. changeLog' \in [Runs -> Seq(Events)]
      BY <1>12, <2>1, LoggedType DEF FailRetriable, TypeOK, Events
    <2>5. worker' \in [Workers -> WorkerRow]
      BY <1>12, ReleasedType DEF FailRetriable, TypeOK
    <2>6. \A x \in Runs : run'[x].version = run[x].version /\ run'[x].status = run[x].status
      BY <1>r, <2>1, <2>2, RetryScheduledFields DEF TypeOK
    <2>7. \A x \in Workers : worker'[x] = worker[x] \/ worker'[x].state = "idle"
      BY <1>12, ReleasedType DEF FailRetriable, TypeOK
    <2>8. References'
      BY <1>12, <1>p, <2>6, <2>7 DEF FailRetriable, References
    <2> QED BY <1>12, <2>3, <2>4, <2>5, <2>8 DEF FailRetriable, TypeOK
  <1>13. ASSUME NEW w \in Workers, NEW code \in RetriableCodes \cup FinalCodes,
                FailFinal(w, code)
         PROVE  Rows'
    <2> DEFINE r == worker[w].run
               v == run[r].version
               e == IF code \in RetriableCodes THEN "TRANSIENT_EXHAUSTED" ELSE code
    <2>1. r \in Runs /\ v \in VersionIds /\ e \in ErrorCodes
      BY <1>13 DEF FailFinal, Writable, Current, References, ErrorCodes
    <2>2. run' = [run EXCEPT ![r] = Failed(run[r], e)]
      BY <1>13 DEF FailFinal
    <2>3. run' \in [Runs -> RunRow]
      BY <1>r, <2>1, <2>2, EndedType DEF TypeOK
    <2>4. version' \in [VersionIds -> VersionRow]
      <3>1. FailedVersion(version[v]) \in VersionRow
        BY <2>1 DEF TypeOK, FailedVersion, VersionRow
      <3> QED BY <1>13, <3>1 DEF FailFinal, TypeOK
    <2>5. changeLog' \in [Runs -> Seq(Events)]
      BY <1>13, <2>1, LoggedType DEF FailFinal, TypeOK, Events
    <2>6. worker' \in [Workers -> WorkerRow]
      BY <1>13, ReleasedType DEF FailFinal, TypeOK
    <2>7. \A x \in Runs : /\ run'[x].version = run[x].version
                          /\ run'[x].status = "ABSENT" => run[x].status = "ABSENT"
      BY <1>r, <2>1, <2>2, FailedFields DEF TypeOK
    <2>8. \A x \in Workers : worker'[x] = worker[x] \/ worker'[x].state = "idle"
      BY <1>13, ReleasedType DEF FailFinal, TypeOK
    <2>9. References'
      <3>1. retrying' = retrying
        BY <1>13 DEF FailFinal
      <3> QED BY <1>p, <2>1, <2>2, <2>7, <2>8, <3>1 DEF References, TypeOK
    <2> QED BY <1>13, <2>3, <2>4, <2>5, <2>6, <2>9 DEF FailFinal, TypeOK
  <1>14. ASSUME NEW w \in Workers, StaleFence(w) \/ WorkerStops(w) PROVE Rows'
    <2>1. /\ Released(w)
          /\ UNCHANGED <<doc, version, run, changeLog, nextFence, registering, retrying, overlapped>>
      BY <1>14 DEF StaleFence, WorkerStops
    <2>2. worker' \in [Workers -> WorkerRow] /\ faults' \in Nat
      BY <1>14, <2>1, ReleasedType DEF StaleFence, WorkerStops, TypeOK
    <2>3. References'
      BY <2>1 DEF References, TypeOK, Released, IdleWorker
    <2> QED BY <2>1, <2>2, <2>3 DEF TypeOK
  <1>15. ASSUME NEW r \in Runs, LeaseExpires(r) \/ LeaseLapses(r) PROVE Rows'
    <2>1. /\ run' = [run EXCEPT ![r] = [run[r] EXCEPT !.lease = "expired"]]
          /\ UNCHANGED <<doc, version, changeLog, nextFence, registering, retrying, worker,
                         overlapped>>
      BY <1>15 DEF LeaseExpires, LeaseLapses
    <2>2. run' \in [Runs -> RunRow]
      BY <1>r, <2>1, EndedType DEF TypeOK
    <2>3. \A x \in Runs : run'[x].version = run[x].version /\ run'[x].status = run[x].status
      BY <1>r, <2>1 DEF TypeOK, RunRow
    <2>4. References'
      BY <1>p, <2>1, <2>3 DEF References
    <2> QED BY <1>15, <2>1, <2>2, <2>4 DEF LeaseExpires, LeaseLapses, TypeOK
  <1>16. ASSUME NEW r \in Runs, RetryFallsDue(r) PROVE Rows'
    <2>1. run' \in [Runs -> RunRow]
      BY <1>16, <1>r, EndedType DEF RetryFallsDue, TypeOK
    <2>2. \A x \in Runs : run'[x].version = run[x].version /\ run'[x].status = run[x].status
      BY <1>16, <1>r DEF RetryFallsDue, TypeOK, RunRow
    <2> QED BY <1>16, <1>p, <2>1, <2>2 DEF RetryFallsDue, TypeOK, References
  <1>17. ASSUME NEW p \in Runs, NEW k \in RetryKeys, RetryBegin(p, k) PROVE Rows'
    <2>1. /\ run[p].status # "ABSENT"
          /\ retrying' = [parent |-> p, key |-> k, seen |-> doc[run[p].version[1]].active]
          /\ UNCHANGED <<doc, version, run, changeLog, nextFence, registering, worker, faults,
                         overlapped>>
      BY <1>17 DEF RetryBegin
    <2>2. doc[run[p].version[1]].active \in 0 .. MaxVersion
      <3>1. run[p].version \in VersionIds
        BY <2>1 DEF References
      <3> QED BY <3>1, VersionParts DEF TypeOK, DocRow
    <2>3. retrying' \in RetryRow /\ retrying'.parent = p
      BY <2>1, <2>2 DEF RetryRow
    <2> QED BY <2>1, <2>3 DEF TypeOK, References
  <1>18. CASE RetryEnds
    BY <1>18 DEF RetryEnds, TypeOK, References
  <1>19. ASSUME NEW w \in Workers, BeginFinalize(w) PROVE Rows'
    <2> DEFINE n == doc[run[worker[w].run].version[1]].active
    <2>1. worker[w].state # "idle" /\ n \in 0 .. MaxVersion
      <3>1. worker[w].state # "idle" /\ run[worker[w].run].version \in VersionIds
        BY <1>19 DEF BeginFinalize, Writable, Current, References
      <3> QED BY <3>1, VersionParts DEF TypeOK, DocRow
    <2>2. worker' = [worker EXCEPT ![w] = [worker[w] EXCEPT !.state = "finalizing", !.seen = n]]
          /\ UNCHANGED <<doc, version, run, changeLog, nextFence, registering, retrying, faults,
                         overlapped>>
      BY <1>19 DEF BeginFinalize
    <2> HIDE DEF n
    <2>3. worker' \in [Workers -> WorkerRow]
      BY <2>1, <2>2 DEF TypeOK, WorkerRow
    <2>4. \A x \in Workers : /\ worker'[x].run = worker[x].run
                             /\ worker'[x].state # "idle" => worker[x].state # "idle"
      BY <2>1, <2>2 DEF TypeOK, WorkerRow
    <2> QED BY <1>p, <2>2, <2>3, <2>4 DEF TypeOK, References
  <1>20. CASE UNCHANGED vars
    BY <1>20 DEF vars, TypeOK, References
  <1> QED
    BY <1>1, <1>2, <1>3, <1>4, <1>5, <1>6, <1>7, <1>8, <1>9, <1>10, <1>11, <1>12, <1>13,
       <1>14, <1>15, <1>16, <1>17, <1>18, <1>19, <1>20
       DEF Next, Register, ManualRetry, RetryRequest, RetryAnswer, Poll, Process, Finalize, Fail,
           Clock

\* Every row keeps the columns' types, and attempts the schema's bound,
\* whatever is registered, claimed, retried, lost or failed.
THEOREM TypeCorrect == Spec => []TypeOK
  <1>1. Init => Rows BY RowsInit
  <1>2. Rows /\ [Next]_vars => Rows' BY RowsNext
  <1>3. Rows => TypeOK BY DEF Rows
  <1> QED BY <1>1, <1>2, <1>3, PTL DEF Spec

-----------------------------------------------------------------------------
(* The claims.                                                             *)

\* Tokens are taken from the counter in order, and a claim has one.
FencesAllocated ==
  /\ \A r \in Runs : run[r].fence < nextFence
  /\ \A w \in Workers : worker[w].state # "idle" => worker[w].fence \in 1 .. nextFence - 1

Fences == FencesAllocated /\ FencesIdentifyClaims

-----------------------------------------------------------------------------
(* The layer Fences.  All steps but a claim leave every token where it is, *)
(* or clear it.                                                            *)

\* A step that allocates no token keeps the layer.
LEMMA FencesKept ==
  ASSUME Rows, Rows', Fences, nextFence' = nextFence,
         \A r \in Runs : \/ run'[r].fence = 0
                         \/ run'[r].fence = run[r].fence /\ run'[r].attempts = run[r].attempts,
         \A w \in Workers : \/ worker'[w].state = "idle"
                            \/ /\ worker[w].state # "idle"
                               /\ worker'[w].run = worker[w].run
                               /\ worker'[w].fence = worker[w].fence
                               /\ worker'[w].attempt = worker[w].attempt
  PROVE  Fences'
  <1>1. nextFence \in Nat \ {0}
    BY DEF Rows, TypeOK
  <1>2. FencesAllocated'
    BY <1>1 DEF Fences, FencesAllocated
  <1>3. FencesIdentifyClaims'
    BY <1>1 DEF Fences, FencesAllocated, FencesIdentifyClaims
  <1> QED BY <1>2, <1>3 DEF Fences

\* No run and no worker has a token at first.
LEMMA FencesInit == Init => Fences
  BY DEF Init, Fences, FencesAllocated, FencesIdentifyClaims, NoRun, IdleWorker

\* Every step keeps the layer: a claim takes a token nobody has had.
LEMMA FencesNext == Rows /\ Rows' /\ Fences /\ [Next]_vars => Fences'
  <1> SUFFICES ASSUME Rows, Rows', Fences, [Next]_vars PROVE Fences'
    OBVIOUS
  <1>r. ASSUME NEW r \in Runs PROVE run[r] \in RunRow
    BY DEF Rows, TypeOK
  <1>1. CASE UNCHANGED <<run, nextFence, worker>>
    BY <1>1, FencesKept
  <1>2. ASSUME NEW q \in Requests, NEW d \in Docs, NEW r \in Runs, RegisterCommit(q, d, r)
        PROVE  Fences'
    <2>1. run' = [run EXCEPT ![r] = Inserted(<<d, doc[d].next>>, None, None)]
          /\ UNCHANGED <<nextFence, worker>>
      BY <1>2 DEF RegisterCommit
    <2>2. \A x \in Runs : run'[x].fence = 0 \/ run'[x] = run[x]
      BY <2>1 DEF Inserted, Rows, TypeOK
    <2> QED BY <2>1, <2>2, FencesKept
  <1>3. ASSUME NEW c \in Runs, Retry(c) PROVE Fences'
    <2>1. run' = [run EXCEPT ![c] = Inserted(run[retrying.parent].version, retrying.parent,
                                             retrying.key)]
          /\ UNCHANGED <<nextFence, worker>>
      BY <1>3 DEF Retry
    <2>2. \A x \in Runs : run'[x].fence = 0 \/ run'[x] = run[x]
      BY <2>1 DEF Inserted, Rows, TypeOK
    <2> QED BY <2>1, <2>2, FencesKept
  <1>4. ASSUME NEW w \in Workers, ClaimNothing(w) PROVE Fences'
    <2>1. \A x \in Runs : run'[x].fence = 0 \/ run'[x] = run[x]
      BY <1>4, <1>r, ReclaimedFields DEF ClaimNothing
    <2> QED BY <1>4, <2>1, FencesKept DEF ClaimNothing
  <1>5. ASSUME NEW w \in Workers, NEW r \in Runs, ClaimNext(w, r) PROVE Fences'
    <2> DEFINE base == IF r \in Expired THEN Reclaimed(run[r]) ELSE run[r]
    <2>1. run' = [x \in Runs |->
                    IF x = r THEN Leased(base, nextFence)
                    ELSE IF x \in Expired THEN Reclaimed(run[x])
                    ELSE IF x \in LiveLeases THEN [run[x] EXCEPT !.lease = "expired"]
                    ELSE run[x]]
      BY <1>5 DEF ClaimNext
    <2>2. worker' = [worker EXCEPT ![w] = [state |-> "working", run |-> r, fence |-> nextFence,
                                           attempt |-> base.attempts + 1, stage |-> Metadata,
                                           seen |-> 0]]
          /\ nextFence' = nextFence + 1
      BY <1>5 DEF ClaimNext, AllocateFence
    <2>3. base \in RunRow
      BY <1>r, ReclaimedType
    <2>4. run'[r].fence = nextFence /\ run'[r].attempts = base.attempts + 1
      BY <2>1, <2>3, LeasedFields
    <2>5. \A x \in Runs : x # r =>
            \/ run'[x].fence = 0
            \/ run'[x].fence = run[x].fence /\ run'[x].attempts = run[x].attempts
      <3>1. \A x \in Runs : /\ [run[x] EXCEPT !.lease = "expired"].fence = run[x].fence
                            /\ [run[x] EXCEPT !.lease = "expired"].attempts = run[x].attempts
        BY <1>r DEF RunRow
      <3> HIDE DEF base
      <3> QED BY <1>r, <2>1, <3>1, ReclaimedFields
    <2>6. /\ worker'[w].fence = nextFence
          /\ worker'[w].run = r
          /\ worker'[w].attempt = base.attempts + 1
          /\ \A x \in Workers : x # w => worker'[x] = worker[x]
      BY <2>2 DEF Rows, TypeOK
    <2>7. nextFence \in Nat \ {0}
      BY DEF Rows, TypeOK
    <2> HIDE DEF base
    <2>8. FencesAllocated'
      <3>1. \A x \in Runs : run[x].fence \in Nat /\ run[x].fence < nextFence
        BY <1>r DEF Fences, FencesAllocated, RunRow
      <3>2. \A x \in Runs : run'[x].fence < nextFence'
        BY <2>2, <2>4, <2>5, <2>7, <3>1
      <3>3. \A x \in Workers : worker'[x].state # "idle" => worker'[x].fence \in 1 .. nextFence' - 1
        BY <2>2, <2>6, <2>7 DEF Fences, FencesAllocated
      <3> QED BY <3>2, <3>3 DEF FencesAllocated
    <2>9. FencesIdentifyClaims'
      BY <2>2, <2>4, <2>5, <2>6, <2>7 DEF Fences, FencesAllocated, FencesIdentifyClaims
    <2> QED BY <2>8, <2>9 DEF Fences
  <1>6. ASSUME NEW w \in Workers, SetStage(w) \/ BeginStore(w) \/ BeginFinalize(w)
        PROVE  Fences'
    <2>1. run' = run /\ nextFence' = nextFence
      BY <1>6 DEF SetStage, BeginStore, BeginFinalize
    <2>2. worker \in [Workers -> WorkerRow] /\ worker[w].state # "idle"
      BY <1>6 DEF SetStage, BeginStore, BeginFinalize, Writable, Current, Rows, TypeOK
    <2> DEFINE Same(row) == /\ row.run = worker[w].run
                            /\ row.fence = worker[w].fence
                            /\ row.attempt = worker[w].attempt
    <2>3. ASSUME NEW row, worker' = [worker EXCEPT ![w] = row], Same(row) PROVE Fences'
      BY <2>1, <2>2, <2>3, FencesKept
    <2>4. CASE SetStage(w)
      <3>1. Same([worker[w] EXCEPT !.state = "working", !.stage = @ + 1])
        BY <2>2 DEF WorkerRow
      <3> QED BY <2>3, <2>4, <3>1 DEF SetStage
    <2>5. CASE BeginStore(w)
      <3>1. Same([worker[w] EXCEPT !.state = "storing"])
        BY <2>2 DEF WorkerRow
      <3> QED BY <2>3, <2>5, <3>1 DEF BeginStore
    <2>6. CASE BeginFinalize(w)
      <3>1. ASSUME NEW active
            PROVE  Same([worker[w] EXCEPT !.state = "finalizing", !.seen = active])
        BY <2>2 DEF WorkerRow
      <3> QED BY <2>3, <2>6, <3>1 DEF BeginFinalize
    <2> QED BY <1>6, <2>4, <2>5, <2>6
  <1>7. ASSUME NEW w \in Workers, CommitStore(w) PROVE Fences'
    <2>1. \A x \in Runs : run'[x].fence = run[x].fence /\ run'[x].attempts = run[x].attempts
      <3>1. run' = [run EXCEPT ![worker[w].run] = [run[worker[w].run] EXCEPT !.lease = "live"]]
        BY <1>7 DEF CommitStore
      <3> QED BY <1>r, <3>1 DEF Rows, TypeOK, RunRow
    <2>2. \A x \in Workers : \/ worker'[x] = worker[x]
                             \/ /\ worker[x].state # "idle"
                                /\ worker'[x].run = worker[x].run
                                /\ worker'[x].fence = worker[x].fence
                                /\ worker'[x].attempt = worker[x].attempt
      BY <1>7 DEF CommitStore, Current, Rows, TypeOK, WorkerRow
    <2> QED BY <1>7, <2>1, <2>2, FencesKept DEF CommitStore
  <1>8. ASSUME NEW w \in Workers, FinalizeSuperseded(w) \/ FinalizeActivated(w) PROVE Fences'
    <2> DEFINE r == worker[w].run
    <2>1. r \in Runs
      BY <1>8 DEF FinalizeSuperseded, FinalizeActivated, Rows, References
    <2>2. PICK s \in FinishedStatus : run' = [run EXCEPT ![r] = Finished(run[r], s)]
      BY <1>8 DEF FinalizeSuperseded, FinalizeActivated, FinishedStatus
    <2>3. \A x \in Runs : run'[x].fence = run[x].fence /\ run'[x].attempts = run[x].attempts
      BY <1>r, <2>1, <2>2, FinishedFields DEF Rows, TypeOK
    <2>4. nextFence' = nextFence /\ \A x \in Workers : worker'[x] = worker[x] \/ worker'[x].state = "idle"
      BY <1>8, ReleasedType
         DEF FinalizeSuperseded, FinalizeActivated, Answered, Rows, TypeOK
    <2> QED BY <2>3, <2>4, FencesKept
  <1>9. ASSUME NEW w \in Workers, NEW code, FailRetriable(w, code) PROVE Fences'
    <2> DEFINE r == worker[w].run
    <2>1. r \in Runs
      BY <1>9 DEF FailRetriable, Writable, Current, Rows, References
    <2>2. run' = [run EXCEPT ![r] = RetryScheduled(run[r], code)]
      BY <1>9 DEF FailRetriable
    <2>3. \A x \in Runs : run'[x].fence = 0 \/ run'[x] = run[x]
      BY <1>r, <2>1, <2>2, RetryScheduledFields DEF Rows, TypeOK
    <2>4. nextFence' = nextFence /\ \A x \in Workers : worker'[x] = worker[x] \/ worker'[x].state = "idle"
      BY <1>9, ReleasedType DEF FailRetriable, Rows, TypeOK
    <2> QED BY <2>3, <2>4, FencesKept
  <1>10. ASSUME NEW w \in Workers, NEW code, FailFinal(w, code) PROVE Fences'
    <2> DEFINE r == worker[w].run
    <2>1. r \in Runs
      BY <1>10 DEF FailFinal, Writable, Current, Rows, References
    <2>2. PICK e : run' = [run EXCEPT ![r] = Failed(run[r], e)]
      BY <1>10 DEF FailFinal
    <2>3. \A x \in Runs : run'[x].fence = run[x].fence /\ run'[x].attempts = run[x].attempts
      BY <1>r, <2>1, <2>2, FailedFields DEF Rows, TypeOK
    <2>4. nextFence' = nextFence /\ \A x \in Workers : worker'[x] = worker[x] \/ worker'[x].state = "idle"
      BY <1>10, ReleasedType DEF FailFinal, Rows, TypeOK
    <2> QED BY <2>3, <2>4, FencesKept
  <1>11. ASSUME NEW w \in Workers, StaleFence(w) \/ WorkerStops(w) PROVE Fences'
    <2>1. nextFence' = nextFence /\ run' = run
          /\ \A x \in Workers : worker'[x] = worker[x] \/ worker'[x].state = "idle"
      BY <1>11, ReleasedType DEF StaleFence, WorkerStops, Rows, TypeOK
    <2> QED BY <2>1, FencesKept
  <1>12. ASSUME NEW r \in Runs, LeaseExpires(r) \/ LeaseLapses(r) \/ RetryFallsDue(r)
         PROVE  Fences'
    <2>1. \A x \in Runs : run'[x].fence = run[x].fence /\ run'[x].attempts = run[x].attempts
      <3>1. \/ run' = [run EXCEPT ![r] = [run[r] EXCEPT !.lease = "expired"]]
            \/ run' = [run EXCEPT ![r] = [run[r] EXCEPT !.retryAt = "due"]]
        BY <1>12 DEF LeaseExpires, LeaseLapses, RetryFallsDue
      <3>2. \A x \in Runs : /\ [run[x] EXCEPT !.lease = "expired"].fence = run[x].fence
                            /\ [run[x] EXCEPT !.lease = "expired"].attempts = run[x].attempts
                            /\ [run[x] EXCEPT !.retryAt = "due"].fence = run[x].fence
                            /\ [run[x] EXCEPT !.retryAt = "due"].attempts = run[x].attempts
        BY <1>r DEF RunRow
      <3> QED BY <3>1, <3>2 DEF Rows, TypeOK
    <2> QED BY <1>12, <2>1, FencesKept DEF LeaseExpires, LeaseLapses, RetryFallsDue
  <1> QED
    BY <1>1, <1>2, <1>3, <1>4, <1>5, <1>6, <1>7, <1>8, <1>9, <1>10, <1>11, <1>12
       DEF Next, Register, ManualRetry, RetryRequest, RetryAnswer, Poll, Process, Finalize, Fail,
           Clock, vars, RegisterCheck, RegisterAbort, RetryBegin, RetryEnds

\* A fencing token names one claim for ever, and a worker whose token is on a
\* run knows that run's attempt number: what the store's checks of run and
\* token rest on, for any number of workers and however often leases lapse.
THEOREM FencingCorrect == Spec => []FencesIdentifyClaims
  <1>1. Init => Rows /\ Fences BY RowsInit, FencesInit
  <1>2. Rows /\ Fences /\ [Next]_vars => Rows' /\ Fences' BY RowsNext, FencesNext
  <1>3. Fences => FencesIdentifyClaims BY DEF Fences
  <1> QED BY <1>1, <1>2, <1>3, PTL DEF Spec

-----------------------------------------------------------------------------
(* The life of a run: RowSteps lists what any step can do to the row of a  *)
(* run and to its events; what follows are case distinctions over it.      *)

Kept(r) == changeLog'[r] = changeLog[r]
Noted(r) == \E e \in Events : changeLog'[r] = Append(changeLog[r], e)

RowSame(r) == run'[r] = run[r] /\ Kept(r)

RowInserted(r) ==
  /\ run[r].status = "ABSENT"
  /\ \E v, p, k : run'[r] = Inserted(v, p, k)
  /\ Noted(r)

RowReclaimed(r) == r \in Expired /\ run'[r] = Reclaimed(run[r]) /\ Kept(r)

RowLeased(r) ==
  LET base == IF r \in Expired THEN Reclaimed(run[r]) ELSE run[r]
  IN  /\ r \in Claimable \cup Expired
      /\ base.attempts < MaxAttempts
      /\ run'[r] = Leased(base, nextFence)
      /\ Kept(r)

RowRenewed(r) ==
  /\ run[r].status = "RUNNING"
  /\ run[r].lease # "none" \/ run[r].fence # 0
  /\ \E l \in {"live", "expired"} : run'[r] = [run[r] EXCEPT !.lease = l]
  /\ Kept(r)

RowDue(r) ==
  /\ run[r].status = "RUNNING"
  /\ run'[r] = [run[r] EXCEPT !.retryAt = "due"]
  /\ Kept(r)

RowRetried(r) ==
  /\ r \in LiveLeases
  /\ run[r].attempts < MaxAttempts
  /\ \E code : run'[r] = RetryScheduled(run[r], code)
  /\ Noted(r)

RowEnded(r) ==
  /\ run[r].status = "RUNNING"
  /\ run[r].fence # 0
  /\ \/ \E code : run'[r] = Failed(run[r], code)
     \/ \E s \in FinishedStatus : run'[r] = Finished(run[r], s)
  /\ Noted(r)

RowStep(r) ==
  \/ RowSame(r) \/ RowInserted(r) \/ RowReclaimed(r) \/ RowLeased(r)
  \/ RowRenewed(r) \/ RowDue(r) \/ RowRetried(r) \/ RowEnded(r)

-----------------------------------------------------------------------------
\* One run gets one event more, the others none.
LEMMA LoggedEffect ==
  ASSUME changeLog \in [Runs -> Seq(Events)], NEW r \in Runs, NEW e \in Events, Logged(r, e)
  PROVE  Noted(r) /\ \A x \in Runs : x # r => Kept(x)
  BY DEF Logged, Noted, Kept

\* The run of a current claim has its token.
LEMMA CurrentClaim ==
  ASSUME Rows, Fences, NEW w \in Workers, Current(w)
  PROVE  /\ worker[w].run \in Runs
         /\ run[worker[w].run].status = "RUNNING"
         /\ run[worker[w].run].fence # 0
         /\ run[worker[w].run].version \in VersionIds
  BY DEF Current, Rows, References, Fences, FencesAllocated

\* A worker that may write has the attempt number of its run's row, and a run
\* whose lease is live.
LEMMA WritableClaim ==
  ASSUME Rows, Fences, NEW w \in Workers, Writable(w)
  PROVE  /\ worker[w].run \in LiveLeases
         /\ worker[w].attempt = run[worker[w].run].attempts
  <1>1. worker[w].run \in Runs
    BY DEF Writable, Current, Rows, References
  <1> QED BY <1>1 DEF Writable, Current, LiveLeases, Fences, FencesIdentifyClaims

\* The list is complete: every step does one of these to every run.
LEMMA RowSteps == Rows /\ Fences /\ [Next]_vars => \A r \in Runs : RowStep(r)
  <1> SUFFICES ASSUME Rows, Fences, [Next]_vars PROVE \A r \in Runs : RowStep(r)
    OBVIOUS
  <1>t. /\ run \in [Runs -> RunRow]
        /\ changeLog \in [Runs -> Seq(Events)]
        /\ worker \in [Workers -> WorkerRow]
    BY DEF Rows, TypeOK
  <1>e. "VERSION_REGISTERED" \in Events /\ "VERSION_RETRY_QUEUED" \in Events
        /\ "AUTOMATIC_RETRY_SCHEDULED" \in Events /\ "VERSION_ACTIVATED" \in Events
        /\ "VERSION_SUPERSEDED" \in Events /\ "VERSION_FAILED" \in Events
    BY DEF Events
  <1>1. CASE UNCHANGED <<run, changeLog>>
    BY <1>1 DEF RowStep, RowSame, Kept
  <1>2. ASSUME NEW q \in Requests, NEW d \in Docs, NEW r \in Runs, RegisterCommit(q, d, r)
        PROVE  \A x \in Runs : RowStep(x)
    <2>1. /\ run[r].status = "ABSENT"
          /\ run' = [run EXCEPT ![r] = Inserted(<<d, doc[d].next>>, None, None)]
          /\ Logged(r, "VERSION_REGISTERED")
      BY <1>2 DEF RegisterCommit
    <2>2. RowInserted(r)
      BY <1>t, <1>e, <2>1, LoggedEffect DEF RowInserted
    <2>3. \A x \in Runs : x # r => RowSame(x)
      BY <1>t, <1>e, <2>1, LoggedEffect DEF RowSame
    <2> QED BY <2>2, <2>3 DEF RowStep
  <1>3. ASSUME NEW c \in Runs, Retry(c) PROVE \A x \in Runs : RowStep(x)
    <2>1. /\ run[c].status = "ABSENT"
          /\ run' = [run EXCEPT ![c] = Inserted(run[retrying.parent].version, retrying.parent,
                                                retrying.key)]
          /\ Logged(c, "VERSION_RETRY_QUEUED")
      BY <1>3 DEF Retry
    <2>2. RowInserted(c)
      BY <1>t, <1>e, <2>1, LoggedEffect DEF RowInserted
    <2>3. \A x \in Runs : x # c => RowSame(x)
      BY <1>t, <1>e, <2>1, LoggedEffect DEF RowSame
    <2> QED BY <2>2, <2>3 DEF RowStep
  <1>4. ASSUME NEW w \in Workers, ClaimNothing(w) PROVE \A x \in Runs : RowStep(x)
    BY <1>4 DEF ClaimNothing, RowStep, RowSame, RowReclaimed, Kept
  <1>5. ASSUME NEW w \in Workers, NEW r \in Runs, ClaimNext(w, r)
        PROVE  \A x \in Runs : RowStep(x)
    <2> DEFINE base == IF r \in Expired THEN Reclaimed(run[r]) ELSE run[r]
    <2>1. /\ r \in Claimable \cup Expired
          /\ base.attempts < MaxAttempts
          /\ changeLog' = changeLog
          /\ run' = [x \in Runs |->
                       IF x = r THEN Leased(base, nextFence)
                       ELSE IF x \in Expired THEN Reclaimed(run[x])
                       ELSE IF x \in LiveLeases THEN [run[x] EXCEPT !.lease = "expired"]
                       ELSE run[x]]
      BY <1>5 DEF ClaimNext
    <2>2. RowLeased(r)
      BY <2>1 DEF RowLeased, Kept
    <2>3. ASSUME NEW x \in Runs, x # r PROVE RowSame(x) \/ RowReclaimed(x) \/ RowRenewed(x)
      <3>1. CASE x \in Expired
        BY <2>1, <2>3, <3>1 DEF RowReclaimed, Kept
      <3>2. CASE x \notin Expired /\ x \in LiveLeases
        BY <2>1, <2>3, <3>2 DEF RowRenewed, LiveLeases, Kept
      <3>3. CASE x \notin Expired /\ x \notin LiveLeases
        BY <2>1, <2>3, <3>3 DEF RowSame, Kept
      <3> QED BY <3>1, <3>2, <3>3
    <2> QED BY <2>2, <2>3 DEF RowStep
  <1>6. ASSUME NEW w \in Workers, CommitStore(w) PROVE \A x \in Runs : RowStep(x)
    <2> DEFINE r == worker[w].run
    <2>1. /\ r \in Runs /\ run[r].status = "RUNNING" /\ run[r].fence # 0
          /\ run' = [run EXCEPT ![r] = [run[r] EXCEPT !.lease = "live"]]
          /\ changeLog' = changeLog
      BY <1>6, CurrentClaim DEF CommitStore
    <2>2. RowRenewed(r)
      BY <1>t, <2>1 DEF RowRenewed, Kept
    <2>3. \A x \in Runs : x # r => RowSame(x)
      BY <1>t, <2>1 DEF RowSame, Kept
    <2> QED BY <2>2, <2>3 DEF RowStep
  <1>7. ASSUME NEW w \in Workers, FinalizeSuperseded(w) \/ FinalizeActivated(w)
        PROVE  \A x \in Runs : RowStep(x)
    <2> DEFINE r == worker[w].run
    <2>1. run[r].status = "RUNNING" /\ run[r].fence # 0 /\ r \in Runs
      BY <1>7, CurrentClaim DEF FinalizeSuperseded, FinalizeActivated
    <2>2. PICK s \in FinishedStatus, e \in Events :
            run' = [run EXCEPT ![r] = Finished(run[r], s)] /\ Logged(r, e)
      BY <1>7, <1>e DEF FinalizeSuperseded, FinalizeActivated, FinishedStatus
    <2>3. RowEnded(r)
      BY <1>t, <2>1, <2>2, LoggedEffect DEF RowEnded
    <2>4. \A x \in Runs : x # r => RowSame(x)
      BY <1>t, <2>1, <2>2, LoggedEffect DEF RowSame
    <2> QED BY <2>3, <2>4 DEF RowStep
  <1>8. ASSUME NEW w \in Workers, NEW code, FailRetriable(w, code)
        PROVE  \A x \in Runs : RowStep(x)
    <2> DEFINE r == worker[w].run
    <2>1. r \in LiveLeases /\ run[r].attempts < MaxAttempts
      BY <1>8, WritableClaim DEF FailRetriable
    <2>2. run' = [run EXCEPT ![r] = RetryScheduled(run[r], code)]
          /\ Logged(r, "AUTOMATIC_RETRY_SCHEDULED")
      BY <1>8 DEF FailRetriable
    <2>3. r \in Runs
      BY <2>1 DEF LiveLeases
    <2>4. RowRetried(r)
      BY <1>t, <1>e, <2>1, <2>2, <2>3, LoggedEffect DEF RowRetried
    <2>5. \A x \in Runs : x # r => RowSame(x)
      BY <1>t, <1>e, <2>2, <2>3, LoggedEffect DEF RowSame
    <2> QED BY <2>4, <2>5 DEF RowStep
  <1>9. ASSUME NEW w \in Workers, NEW code, FailFinal(w, code)
         PROVE  \A x \in Runs : RowStep(x)
    <2> DEFINE r == worker[w].run
    <2>1. run[r].status = "RUNNING" /\ run[r].fence # 0 /\ r \in Runs
      BY <1>9, CurrentClaim DEF FailFinal, Writable
    <2>2. PICK e : run' = [run EXCEPT ![r] = Failed(run[r], e)] /\ Logged(r, "VERSION_FAILED")
      BY <1>9 DEF FailFinal
    <2>3. RowEnded(r)
      BY <1>t, <1>e, <2>1, <2>2, LoggedEffect DEF RowEnded
    <2>4. \A x \in Runs : x # r => RowSame(x)
      BY <1>t, <1>e, <2>1, <2>2, LoggedEffect DEF RowSame
    <2> QED BY <2>3, <2>4 DEF RowStep
  <1>10. ASSUME NEW r \in Runs, LeaseExpires(r) \/ LeaseLapses(r)
         PROVE  \A x \in Runs : RowStep(x)
    <2>1. r \in LiveLeases /\ changeLog' = changeLog
          /\ run' = [run EXCEPT ![r] = [run[r] EXCEPT !.lease = "expired"]]
      BY <1>10 DEF LeaseExpires, LeaseLapses
    <2>2. RowRenewed(r)
      BY <1>t, <2>1 DEF RowRenewed, LiveLeases, Kept
    <2>3. \A x \in Runs : x # r => RowSame(x)
      BY <1>t, <2>1 DEF RowSame, Kept
    <2> QED BY <2>2, <2>3 DEF RowStep
  <1>11. ASSUME NEW r \in Runs, RetryFallsDue(r) PROVE \A x \in Runs : RowStep(x)
    <2>1. run[r].status = "RUNNING" /\ changeLog' = changeLog
          /\ run' = [run EXCEPT ![r] = [run[r] EXCEPT !.retryAt = "due"]]
      BY <1>11 DEF RetryFallsDue
    <2>2. RowDue(r)
      BY <1>t, <2>1 DEF RowDue, Kept
    <2>3. \A x \in Runs : x # r => RowSame(x)
      BY <1>t, <2>1 DEF RowSame, Kept
    <2> QED BY <2>2, <2>3 DEF RowStep
  <1> QED
    BY <1>1, <1>2, <1>3, <1>4, <1>5, <1>6, <1>7, <1>8, <1>9, <1>10, <1>11
       DEF Next, Register, ManualRetry, RetryRequest, RetryAnswer, Poll, Process, Finalize, Fail,
           Clock, vars, RegisterCheck, RegisterAbort, RetryBegin, RetryEnds, SetStage, BeginStore,
           BeginFinalize, StaleFence, WorkerStops

-----------------------------------------------------------------------------
(* The layer Leases.                                                       *)

\* A run has a token exactly while it is leased and after it ended, and an
\* attempt left whenever it is not leased; an event for each attempt that
\* failed, one for its insert and one for its end.
LeaseAgrees(row) ==
  /\ row.status = "ABSENT" => row.fence = 0 /\ row.lease = "none"
  /\ row.status = "QUEUED" => row.fence = 0 /\ row.lease = "none" /\ row.attempts < MaxAttempts
  /\ row.status = "RUNNING" =>
       IF row.lease = "none" THEN row.fence = 0 /\ row.attempts < MaxAttempts
                             ELSE row.fence # 0 /\ row.attempts > 0
  /\ row.status \in FinishedStatus => row.fence # 0 /\ row.lease = "none"

Counted(row, log) ==
  IF row.status = "ABSENT" THEN Len(log) = 0
  ELSE Len(log) = (IF row.fence # 0 THEN row.attempts ELSE row.attempts + 1)
                    + (IF row.status \in FinishedStatus THEN 1 ELSE 0)

Leases == \A r \in Runs : LeaseAgrees(run[r]) /\ Counted(run[r], changeLog[r])

\* No run is inserted at first.
LEMMA LeasesInit == Init => Leases
  BY ConstantsAssumption DEF Init, Leases, LeaseAgrees, Counted, NoRun, FinishedStatus

\* What the layer asks of a row that was just inserted.
LEMMA InsertedAgrees ==
  ASSUME NEW v, NEW p, NEW k
  PROVE  /\ Inserted(v, p, k).status = "QUEUED"
         /\ Inserted(v, p, k).fence = 0
         /\ Inserted(v, p, k).lease = "none"
         /\ Inserted(v, p, k).attempts = 0
  BY DEF Inserted

\* Every step keeps the layer, one case for each thing RowSteps lists.
LEMMA LeasesNext == Rows /\ Rows' /\ Fences /\ Leases /\ [Next]_vars => Leases'
  <1> SUFFICES ASSUME Rows, Rows', Fences, Leases, [Next]_vars, NEW r \in Runs
               PROVE  LeaseAgrees(run'[r]) /\ Counted(run'[r], changeLog'[r])
    BY DEF Leases
  <1>r. run[r] \in RunRow /\ run[r].attempts \in Nat /\ run[r].fence \in Nat
        /\ changeLog[r] \in Seq(Events)
    BY ConstantsAssumption DEF Rows, TypeOK, RunRow
  <1>l. LeaseAgrees(run[r]) /\ Counted(run[r], changeLog[r])
    BY DEF Leases
  <1>m. MaxAttempts \in Nat \ {0} /\ nextFence \in Nat \ {0}
    BY ConstantsAssumption DEF Rows, TypeOK
  <1>a. run[r].attempts <= MaxAttempts
    BY ConstantsAssumption DEF Rows, TypeOK, RunRow
  <1>n. Noted(r) => Len(changeLog'[r]) = Len(changeLog[r]) + 1
    BY <1>r DEF Noted
  <1>1. CASE RowSame(r)
    BY <1>1, <1>l DEF RowSame, Kept
  <1>2. CASE RowInserted(r)
    BY <1>2, <1>l, <1>m, <1>n, InsertedAgrees
       DEF RowInserted, LeaseAgrees, Counted, FinishedStatus
  <1>3. CASE RowReclaimed(r)
    <2>1. /\ run'[r].status = "QUEUED" /\ run'[r].fence = 0 /\ run'[r].lease = "none"
          /\ run'[r].attempts = IF run[r].attempts > 0 THEN run[r].attempts - 1 ELSE 0
      BY <1>3, <1>r, ReclaimedFields DEF RowReclaimed
    <2>2. run[r].status = "RUNNING" /\ run[r].lease # "none" /\ changeLog'[r] = changeLog[r]
      BY <1>3 DEF RowReclaimed, Expired, Kept
    <2> QED BY <1>r, <1>l, <1>m, <1>a, <2>1, <2>2 DEF LeaseAgrees, Counted, FinishedStatus
  <1>4. CASE RowLeased(r)
    <2> DEFINE base == IF r \in Expired THEN Reclaimed(run[r]) ELSE run[r]
    <2>1. base \in RunRow /\ run'[r] = Leased(base, nextFence) /\ changeLog'[r] = changeLog[r]
      BY <1>4, <1>r, ReclaimedType DEF RowLeased, Kept
    <2>2. /\ run'[r].status = "RUNNING" /\ run'[r].fence = nextFence /\ run'[r].lease = "live"
          /\ run'[r].attempts = base.attempts + 1
      BY <2>1, LeasedFields
    <2>3. base.attempts \in Nat /\ Len(changeLog[r]) = base.attempts + 1
      <3>1. CASE r \in Expired
        <4>1. base.attempts = IF run[r].attempts > 0 THEN run[r].attempts - 1 ELSE 0
          BY <1>r, <3>1, ReclaimedFields
        <4> QED BY <1>r, <1>l, <3>1, <4>1 DEF Expired, LeaseAgrees, Counted, FinishedStatus
      <3>2. CASE r \notin Expired
        BY <1>4, <1>r, <1>l, <3>2
           DEF RowLeased, Claimable, LeaseAgrees, Counted, FinishedStatus
      <3> QED BY <3>1, <3>2
    <2> HIDE DEF base
    <2> QED BY <1>m, <2>1, <2>2, <2>3 DEF LeaseAgrees, Counted, FinishedStatus
  <1>5. CASE RowRenewed(r)
    <2>1. PICK l \in {"live", "expired"} : run'[r] = [run[r] EXCEPT !.lease = l]
      BY <1>5 DEF RowRenewed
    <2>2. /\ run'[r].status = run[r].status /\ run'[r].fence = run[r].fence
          /\ run'[r].lease # "none" /\ run'[r].attempts = run[r].attempts
      BY <1>r, <2>1 DEF RunRow
    <2> QED BY <1>5, <1>r, <1>l, <2>2 DEF RowRenewed, Kept, LeaseAgrees, Counted, FinishedStatus
  <1>6. CASE RowDue(r)
    <2>1. /\ run'[r].status = run[r].status /\ run'[r].fence = run[r].fence
          /\ run'[r].lease = run[r].lease /\ run'[r].attempts = run[r].attempts
      BY <1>6, <1>r DEF RowDue, RunRow
    <2> QED BY <1>6, <1>l, <2>1 DEF RowDue, Kept, LeaseAgrees, Counted
  <1>7. CASE RowRetried(r)
    <2>1. /\ run'[r].status = run[r].status /\ run'[r].fence = 0
          /\ run'[r].lease = "none" /\ run'[r].attempts = run[r].attempts
      BY <1>7, <1>r, RetryScheduledFields DEF RowRetried
    <2>2. /\ run[r].status = "RUNNING" /\ run[r].lease = "live" /\ run[r].attempts < MaxAttempts
          /\ Noted(r)
      BY <1>7 DEF RowRetried, LiveLeases
    <2> QED BY <1>r, <1>l, <1>n, <2>1, <2>2 DEF LeaseAgrees, Counted, FinishedStatus
  <1>8. CASE RowEnded(r)
    <2>1. /\ run'[r].status \in FinishedStatus /\ run'[r].fence = run[r].fence
          /\ run'[r].lease = "none" /\ run'[r].attempts = run[r].attempts
      BY <1>8, <1>r, FailedFields, FinishedFields DEF RowEnded, FinishedStatus
    <2>2. run[r].status = "RUNNING" /\ run[r].fence # 0 /\ Noted(r)
      BY <1>8 DEF RowEnded
    <2> QED BY <1>r, <1>l, <1>n, <2>1, <2>2 DEF LeaseAgrees, Counted, FinishedStatus
  <1> QED BY RowSteps, <1>1, <1>2, <1>3, <1>4, <1>5, <1>6, <1>7, <1>8 DEF RowStep

\* The three layers together: what the layers above rest on.
Claims == Rows /\ Fences /\ Leases

\* The three layers hold at all times.
LEMMA ClaimsAlways == Spec => []Claims
  <1>1. Init => Claims
    BY RowsInit, FencesInit, LeasesInit DEF Claims
  <1>2. Claims /\ [Next]_vars => Claims'
    BY RowsNext, FencesNext, LeasesNext DEF Claims
  <1> QED BY <1>1, <1>2, PTL DEF Spec

-----------------------------------------------------------------------------
\* Whatever fails, lapses or is reclaimed, a run that a poll can pick has an
\* attempt left, so the lease update of ClaimNext always finds its row.
THEOREM QueueNeverPoisoned == Spec => []NoPoisonedRun
  <1>1. Claims => NoPoisonedRun
    <2> SUFFICES ASSUME Claims, NEW r \in Claimable \cup Expired
                 PROVE  (IF r \in Expired THEN Reclaimed(run[r]) ELSE run[r]).attempts
                          < MaxAttempts
      BY DEF NoPoisonedRun
    <2>1. r \in Runs /\ run[r] \in RunRow /\ LeaseAgrees(run[r])
      BY DEF Claims, Rows, TypeOK, Leases, Claimable, Expired
    <2>2. CASE r \in Expired
      <3>1. Reclaimed(run[r]).attempts = IF run[r].attempts > 0 THEN run[r].attempts - 1 ELSE 0
        BY <2>1, ReclaimedFields
      <3>2. run[r].attempts \in 0 .. MaxAttempts
        BY <2>1 DEF RunRow
      <3> QED BY <2>2, <3>1, <3>2, ConstantsAssumption
    <2>3. CASE r \notin Expired
      BY <2>1, <2>3 DEF LeaseAgrees, Claimable
    <2> QED BY <2>2, <2>3
  <1> QED BY <1>1, ClaimsAlways, PTL

\* The attempts of a run are its failures and its current claim: reclaims,
\* however many, use up none, and no failure goes uncounted.
THEOREM AttemptsCorrect == Spec => []FailuresAreCounted
  <1>1. Claims => FailuresAreCounted
    BY DEF Claims, Leases, Counted, FailuresAreCounted
  <1> QED BY <1>1, ClaimsAlways, PTL

\* No worker, however late, and no lost answer writes a run that has ended.
THEOREM FinishedIsFinal == Spec => FinishedRunsStay
  <1>1. Claims /\ [Next]_vars =>
          [\A r \in Runs : run[r].status \in FinishedStatus =>
             run'[r] = run[r] /\ changeLog'[r] = changeLog[r]]_vars
    <2> SUFFICES ASSUME Claims, [Next]_vars, NEW r \in Runs, run[r].status \in FinishedStatus
                 PROVE  run'[r] = run[r] /\ changeLog'[r] = changeLog[r]
      OBVIOUS
    <2>1. RowStep(r)
      BY RowSteps DEF Claims
    <2> QED BY <2>1
         DEF RowStep, RowSame, RowInserted, RowReclaimed, RowLeased, RowRenewed, RowDue,
             RowRetried, RowEnded, Kept, Expired, Claimable, LiveLeases, FinishedStatus
  <1> QED BY <1>1, ClaimsAlways, PTL DEF Spec, FinishedRunsStay

-----------------------------------------------------------------------------
(* Admission: the check and the insert of a registration are two steps.    *)

\* What a step can do to the live runs and the open registrations.
LEMMA LiveSteps ==
  ASSUME Rows, Fences, [Next]_vars
  PROVE  \/ LiveRuns' \subseteq LiveRuns /\ registering' = registering
         \/ /\ LiveRuns' \subseteq LiveRuns /\ HasRoom
            /\ \E q \in Requests : registering' = registering \cup {q}
         \/ LiveRuns' \subseteq LiveRuns /\ registering' \subseteq registering
         \/ /\ \E r \in Runs : LiveRuns' \subseteq LiveRuns \cup {r}
            /\ \E q \in registering : registering' = registering \ {q}
         \/ /\ \E r \in Runs : LiveRuns' \subseteq LiveRuns \cup {r}
            /\ HasRoom /\ registering' = registering
  <1>t. run \in [Runs -> RunRow]
    BY DEF Rows, TypeOK
  <1>1. ASSUME \A r \in Runs : run[r].status = "ABSENT" => run'[r] = run[r]
        PROVE  LiveRuns' \subseteq LiveRuns
    <2>1. ASSUME NEW r \in LiveRuns' PROVE r \in LiveRuns
      <3>1. r \in Runs /\ run'[r].status \in LiveStatus /\ RowStep(r)
        BY <2>1, RowSteps DEF LiveRuns
      <3> QED BY <1>1, <1>t, <3>1, FailedFields, FinishedFields
           DEF RowStep, RowSame, RowInserted, RowReclaimed, RowLeased, RowRenewed, RowDue,
               RowRetried, RowEnded, Expired, Claimable, LiveLeases, LiveRuns, LiveStatus
    <2> QED BY <2>1
  <1>2. CASE UNCHANGED run /\ UNCHANGED registering
    BY <1>2 DEF LiveRuns
  <1>3. ASSUME NEW q \in Requests, RegisterCheck(q) \/ RegisterAbort(q)
        PROVE  \/ /\ LiveRuns' \subseteq LiveRuns /\ HasRoom
                  /\ registering' = registering \cup {q}
               \/ LiveRuns' \subseteq LiveRuns /\ registering' \subseteq registering
    BY <1>3 DEF RegisterCheck, RegisterAbort, LiveRuns
  <1>4. ASSUME NEW q \in Requests, NEW d \in Docs, NEW r \in Runs, RegisterCommit(q, d, r)
        PROVE  /\ LiveRuns' \subseteq LiveRuns \cup {r}
               /\ q \in registering /\ registering' = registering \ {q}
    <2>1. /\ run' = [run EXCEPT ![r] = Inserted(<<d, doc[d].next>>, None, None)]
          /\ q \in registering /\ registering' = registering \ {q}
      BY <1>4 DEF RegisterCommit
    <2> QED BY <1>t, <2>1 DEF LiveRuns
  <1>5. ASSUME NEW c \in Runs, Retry(c)
        PROVE  LiveRuns' \subseteq LiveRuns \cup {c} /\ HasRoom /\ registering' = registering
    <2>1. /\ run' = [run EXCEPT ![c] = Inserted(run[retrying.parent].version, retrying.parent,
                                                retrying.key)]
          /\ HasRoom /\ registering' = registering
      BY <1>5 DEF Retry
    <2> QED BY <1>t, <2>1 DEF LiveRuns
  <1>6. ASSUME NEW w \in Workers, Poll(w)
        PROVE  LiveRuns' \subseteq LiveRuns /\ registering' = registering
    <2>1. CASE ClaimNothing(w)
      BY <1>1, <2>1 DEF ClaimNothing, Expired
    <2>2. ASSUME NEW r \in Runs, ClaimNext(w, r)
          PROVE  LiveRuns' \subseteq LiveRuns /\ registering' = registering
      BY <1>1, <2>2 DEF ClaimNext, Expired, Claimable, LiveLeases
    <2> QED BY <1>6, <2>1, <2>2 DEF Poll
  <1>7. ASSUME NEW w \in Workers, Process(w)
        PROVE  LiveRuns' \subseteq LiveRuns /\ registering' = registering
    <2>1. CASE SetStage(w) \/ BeginStore(w) \/ BeginFinalize(w) \/ StaleFence(w)
      BY <2>1 DEF SetStage, BeginStore, BeginFinalize, StaleFence, LiveRuns
    <2>2. CASE ~(SetStage(w) \/ BeginStore(w) \/ BeginFinalize(w) \/ StaleFence(w))
      <3>1. Current(w) /\ registering' = registering
            /\ \E row : run' = [run EXCEPT ![worker[w].run] = row]
        <4>1. CASE CommitStore(w)
          BY <4>1 DEF CommitStore
        <4>2. CASE FinalizeSuperseded(w) \/ FinalizeActivated(w)
          BY <4>2 DEF FinalizeSuperseded, FinalizeActivated
        <4>3. CASE Fail(w)
          BY <4>3 DEF Fail, FailRetriable, FailFinal, Writable
        <4> QED BY <1>7, <2>2, <4>1, <4>2, <4>3 DEF Process, Finalize
      <3> QED BY <1>1, <1>t, <3>1 DEF Current
    <2> QED BY <2>1, <2>2
  <1>8. ASSUME NEW r \in Runs, LeaseExpires(r) \/ LeaseLapses(r) \/ RetryFallsDue(r)
        PROVE  LiveRuns' \subseteq LiveRuns /\ registering' = registering
    <2>1. run[r].status # "ABSENT" /\ registering' = registering
          /\ \E row : run' = [run EXCEPT ![r] = row]
      <3>1. CASE LeaseExpires(r)
        BY <3>1 DEF LeaseExpires, LiveLeases
      <3>2. CASE LeaseLapses(r)
        BY <3>2 DEF LeaseLapses, LiveLeases
      <3>3. CASE RetryFallsDue(r)
        BY <3>3 DEF RetryFallsDue
      <3> QED BY <1>8, <3>1, <3>2, <3>3
    <2> QED BY <1>1, <1>t, <2>1
  <1>9. ASSUME NEW w \in Workers, WorkerStops(w)
        PROVE  LiveRuns' \subseteq LiveRuns /\ registering' = registering
    BY <1>9 DEF WorkerStops, LiveRuns
  <1> QED
    BY <1>2, <1>3, <1>4, <1>5, <1>6, <1>7, <1>8, <1>9
       DEF Next, Register, ManualRetry, RetryRequest, RetryAnswer, RetryBegin, RetryEnds, Clock, vars

\* A registration past its check counts as the run it may still insert.
Admitted == Cardinality(LiveRuns) + Cardinality(registering) <= MaxLive + Cardinality(Requests)

\* Every step keeps the sum within the bound.
LEMMA AdmittedNext ==
  ASSUME IsFiniteSet(Runs), IsFiniteSet(Requests), Claims, Claims', Admitted, [Next]_vars
  PROVE  Admitted'
  <1>1. /\ registering \subseteq Requests /\ registering' \subseteq Requests
        /\ LiveRuns \subseteq Runs /\ LiveRuns' \subseteq Runs
    BY DEF Claims, Rows, TypeOK, LiveRuns
  <1>2. /\ IsFiniteSet(LiveRuns) /\ IsFiniteSet(LiveRuns')
        /\ IsFiniteSet(registering) /\ IsFiniteSet(registering')
        /\ Cardinality(registering) <= Cardinality(Requests)
        /\ Cardinality(registering') <= Cardinality(Requests)
    BY <1>1, FS_Subset
  <1>3. /\ Cardinality(LiveRuns) \in Nat /\ Cardinality(LiveRuns') \in Nat
        /\ Cardinality(registering) \in Nat /\ Cardinality(registering') \in Nat
        /\ Cardinality(Requests) \in Nat /\ MaxLive \in Nat
    BY <1>2, FS_CardinalityType, ConstantsAssumption
  <1>4. LiveRuns' \subseteq LiveRuns => Cardinality(LiveRuns') <= Cardinality(LiveRuns)
    BY <1>2, FS_Subset
  <1>5. ASSUME NEW r \in Runs, LiveRuns' \subseteq LiveRuns \cup {r}
        PROVE  Cardinality(LiveRuns') <= Cardinality(LiveRuns) + 1
    <2>1. /\ IsFiniteSet(LiveRuns \cup {r})
          /\ Cardinality(LiveRuns \cup {r}) <= Cardinality(LiveRuns) + 1
      <3>1. /\ IsFiniteSet(LiveRuns \cup {r})
            /\ Cardinality(LiveRuns \cup {r}) = IF r \in LiveRuns THEN Cardinality(LiveRuns)
                                                ELSE Cardinality(LiveRuns) + 1
        BY <1>2, FS_AddElement, Zenon
      <3> QED BY <1>3, <3>1
    <2>2. Cardinality(LiveRuns') <= Cardinality(LiveRuns \cup {r})
      BY <1>5, <2>1, FS_Subset
    <2>3. Cardinality(LiveRuns \cup {r}) \in Nat
      BY <2>1, FS_CardinalityType
    <2> QED BY <1>3, <2>1, <2>2, <2>3
  <1>6. registering' \subseteq registering => Cardinality(registering') <= Cardinality(registering)
    BY <1>2, FS_Subset
  <1>7. ASSUME NEW q \in registering, registering' = registering \ {q}
        PROVE  Cardinality(registering') = Cardinality(registering) - 1
    BY <1>2, <1>7, FS_RemoveElement
  <1>8. HasRoom => Cardinality(LiveRuns) + 1 <= MaxLive
    BY <1>3 DEF HasRoom
  <1>9. LiveRuns' \subseteq LiveRuns /\ registering' \subseteq registering => Admitted'
    BY <1>3, <1>4, <1>6 DEF Admitted
  <1>10. LiveRuns' \subseteq LiveRuns /\ HasRoom => Admitted'
    BY <1>2, <1>3, <1>4, <1>8 DEF Admitted
  <1>11. ASSUME NEW r \in Runs, LiveRuns' \subseteq LiveRuns \cup {r},
                \/ HasRoom
                \/ \E q \in registering : registering' = registering \ {q}
         PROVE  Admitted'
    <2>1. Cardinality(LiveRuns') <= Cardinality(LiveRuns) + 1
      BY <1>5, <1>11
    <2>2. CASE HasRoom
      BY <1>2, <1>3, <1>8, <2>1, <2>2 DEF Admitted
    <2>3. CASE \E q \in registering : registering' = registering \ {q}
      <3>1. Cardinality(registering') = Cardinality(registering) - 1
        BY <1>7, <2>3
      <3> QED BY <1>3, <2>1, <3>1 DEF Admitted
    <2> QED BY <1>11, <2>2, <2>3
  <1> QED BY <1>9, <1>10, <1>11, LiveSteps DEF Claims

\* Register counts the live runs without a lock, so the queue can exceed its
\* bound; by no more than the registrations that can be open at once.
THEOREM QueueBounded ==
  ASSUME IsFiniteSet(Runs), IsFiniteSet(Requests)
  PROVE  Spec => []QueueIsBounded
  <1>1. Init => Admitted
    <2> SUFFICES ASSUME Init PROVE Admitted
      OBVIOUS
    <2>1. LiveRuns = {} /\ registering = {}
      BY DEF Init, LiveRuns, NoRun, LiveStatus
    <2> QED BY <2>1, FS_EmptySet, FS_CardinalityType, ConstantsAssumption DEF Admitted
  <1>2. Claims /\ Claims' /\ Admitted /\ [Next]_vars => Admitted'
    BY AdmittedNext
  <1>3. Claims /\ Admitted => QueueIsBounded
    <2> SUFFICES ASSUME Claims, Admitted PROVE QueueIsBounded
      OBVIOUS
    <2>1. IsFiniteSet(LiveRuns) /\ IsFiniteSet(registering)
      <3>1. LiveRuns \subseteq Runs /\ registering \subseteq Requests
        BY DEF Claims, Rows, TypeOK, LiveRuns
      <3> QED BY <3>1, FS_Subset
    <2>2. /\ Cardinality(LiveRuns) \in Nat /\ Cardinality(registering) \in Nat
          /\ Cardinality(Requests) \in Nat
      BY <2>1, FS_CardinalityType
    <2> QED BY <2>2, ConstantsAssumption DEF Admitted, QueueIsBounded
  <1> QED BY <1>1, <1>2, <1>3, ClaimsAlways, PTL DEF Spec

-----------------------------------------------------------------------------
(* The layer Alone: what Finalize knows of the document.                   *)

SameClaim(w) ==
  /\ worker[w].state # "idle"
  /\ worker'[w].run = worker[w].run
  /\ worker'[w].fence = worker[w].fence

\* A worker has its claim after a step only if it had it before.
LEMMA CurrentKept ==
  ASSUME Claims, [Next]_vars, NEW w \in Workers, SameClaim(w), Current(w)'
  PROVE  /\ Current(w)
         /\ worker[w].run \in Runs
         /\ run'[worker[w].run].version = run[worker[w].run].version
  <1> DEFINE r == worker[w].run
  <1>1. r \in Runs /\ worker[w].fence \in 1 .. nextFence - 1 /\ nextFence \in Nat
    BY DEF SameClaim, Claims, Rows, References, Fences, FencesAllocated, TypeOK
  <1>2. run[r] \in RunRow /\ run'[r].status = "RUNNING" /\ run'[r].fence = worker[w].fence
    BY <1>1 DEF Claims, Rows, TypeOK, SameClaim, Current
  <1>3. RowStep(r)
    BY <1>1, RowSteps DEF Claims
  <1> HIDE DEF r
  <1>4. run[r].status = "RUNNING" /\ run[r].fence = worker[w].fence
        /\ run'[r].version = run[r].version
    <2>1. CASE RowSame(r) \/ RowRenewed(r) \/ RowDue(r)
      BY <1>2, <2>1 DEF RowSame, RowRenewed, RowDue, RunRow
    <2>2. CASE RowInserted(r)
      BY <1>2, <2>2 DEF RowInserted, Inserted
    <2>3. CASE RowReclaimed(r)
      BY <1>2, <2>3, ReclaimedFields DEF RowReclaimed
    <2>4. CASE RowLeased(r)
      <3> DEFINE base == IF r \in Expired THEN Reclaimed(run[r]) ELSE run[r]
      <3>1. base \in RunRow
        BY <1>2, ReclaimedType
      <3>2. run'[r] = Leased(base, nextFence)
        BY <2>4 DEF RowLeased
      <3> HIDE DEF base
      <3>3. run'[r].fence = nextFence
        BY <3>1, <3>2, LeasedFields
      <3> QED BY <1>1, <1>2, <3>3
    <2>5. CASE RowRetried(r)
      BY <1>1, <1>2, <2>5, RetryScheduledFields DEF RowRetried
    <2>6. CASE RowEnded(r)
      BY <1>2, <2>6, FailedFields, FinishedFields DEF RowEnded, FinishedStatus
    <2> QED BY <1>3, <2>1, <2>2, <2>3, <2>4, <2>5, <2>6 DEF RowStep
  <1> QED BY <1>1, <1>4 DEF Current, SameClaim, r

\* Until claims overlap there is one lease, and no document changes between
\* the statements of a Finalize that still has its claim.
OneLease == \A r, s \in Runs : run[r].lease # "none" /\ run[s].lease # "none" => r = s

UpToDate ==
  \A w \in Workers : worker[w].state = "finalizing" /\ Current(w) =>
    worker[w].seen = doc[run[worker[w].run].version[1]].active

Alone == ~overlapped => OneLease /\ UpToDate

\* Only a claim takes a token and overlaps.
LEMMA OnlyClaims ==
  ASSUME [Next]_vars
  PROVE  UNCHANGED <<nextFence, overlapped>> \/ \E w \in Workers, r \in Runs : ClaimNext(w, r)
  <1>1. CASE Register \/ ManualRetry \/ Clock \/ UNCHANGED vars
    BY <1>1, Zenon
       DEF Register, ManualRetry, RetryRequest, RetryAnswer, Clock, vars, RegisterCheck,
           RegisterCommit, RegisterAbort, RetryBegin, Retry, RetryEnds, LeaseExpires, LeaseLapses,
           RetryFallsDue
  <1>2. ASSUME NEW w \in Workers, Process(w) PROVE UNCHANGED <<nextFence, overlapped>>
    BY <1>2, Zenon
       DEF Process, Finalize, Fail, SetStage, BeginStore, CommitStore, BeginFinalize,
           FinalizeSuperseded, FinalizeActivated, FailRetriable, FailFinal, StaleFence
  <1> QED BY <1>1, <1>2, Zenon DEF Next, Poll, ClaimNothing, WorkerStops

\* The history is never forgotten.
LEMMA OverlapStays == [Next]_vars /\ overlapped => overlapped'
  BY OnlyClaims, Zenon DEF ClaimNext

\* Only a Finalize that activates changes what a document points to.
LEMMA OnlyFinalize ==
  ASSUME Rows, [Next]_vars
  PROVE  \/ \A d \in Docs : doc'[d].active = doc[d].active
         \/ \E w \in Workers : FinalizeActivated(w)
  <1>1. ASSUME NEW q \in Requests, NEW x \in Docs, NEW r \in Runs, RegisterCommit(q, x, r)
        PROVE  \A d \in Docs : doc'[d].active = doc[d].active
    <2>1. doc \in [Docs -> DocRow] /\ doc' = [doc EXCEPT ![x] = [doc[x] EXCEPT !.next = @ + 1]]
      BY <1>1 DEF RegisterCommit, Rows, TypeOK
    <2> QED BY <2>1 DEF DocRow
  <1>2. CASE UNCHANGED doc
    BY <1>2
  <1> QED
    BY <1>1, <1>2
       DEF Next, Register, ManualRetry, RetryRequest, RetryAnswer, Poll, Process, Finalize, Fail,
           Clock, vars, RegisterCheck, RegisterAbort, RetryBegin, Retry, RetryEnds, ClaimNothing,
           ClaimNext, SetStage, BeginStore, CommitStore, BeginFinalize, FinalizeSuperseded,
           FailRetriable, FailFinal, StaleFence, WorkerStops, LeaseExpires, LeaseLapses,
           RetryFallsDue

\* A worker comes to be inside Finalize by beginning it.
LEMMA OnlyBegins ==
  ASSUME Rows, [Next]_vars, NEW w \in Workers, worker'[w].state = "finalizing"
  PROVE  worker'[w] = worker[w] \/ BeginFinalize(w)
  <1>t. worker \in [Workers -> WorkerRow]
    BY DEF Rows, TypeOK
  <1>1. CASE UNCHANGED worker
    BY <1>1
  <1>2. ASSUME NEW x \in Workers, NEW row, worker' = [worker EXCEPT ![x] = row],
               row.state # "finalizing"
        PROVE  worker'[w] = worker[w]
    BY <1>t, <1>2
  <1>3. ASSUME NEW x \in Workers, Released(x) PROVE worker'[w] = worker[w]
    BY <1>2, <1>3 DEF Released, IdleWorker
  <1>4. ASSUME NEW x \in Workers, NEW r \in Runs, ClaimNext(x, r) PROVE worker'[w] = worker[w]
    <2>1. PICK a : worker' = [worker EXCEPT ![x] = [state |-> "working", run |-> r,
                                 fence |-> nextFence, attempt |-> a, stage |-> Metadata, seen |-> 0]]
      BY <1>4 DEF ClaimNext
    <2> QED BY <1>2, <2>1
  <1>5. ASSUME NEW x \in Workers, SetStage(x) \/ BeginStore(x) \/ CommitStore(x)
        PROVE  worker'[w] = worker[w]
    <2>1. \/ worker' = [worker EXCEPT ![x] = [worker[x] EXCEPT !.state = "working", !.stage = @ + 1]]
          \/ worker' = [worker EXCEPT ![x] = [worker[x] EXCEPT !.state = "storing"]]
          \/ worker' = [worker EXCEPT ![x] = [worker[x] EXCEPT !.state = "stored"]]
      BY <1>5 DEF SetStage, BeginStore, CommitStore
    <2> QED BY <1>t, <2>1 DEF WorkerRow
  <1>6. ASSUME NEW x \in Workers, BeginFinalize(x), x # w PROVE worker'[w] = worker[w]
    BY <1>t, <1>6 DEF BeginFinalize
  <1> QED
    BY <1>1, <1>3, <1>4, <1>5, <1>6
       DEF Next, Register, ManualRetry, RetryRequest, RetryAnswer, Poll, Process, Finalize, Fail,
           Clock, vars, RegisterCheck, RegisterCommit, RegisterAbort, RetryBegin, Retry, RetryEnds,
           ClaimNothing, FinalizeSuperseded, FinalizeActivated, Answered, FailRetriable, FailFinal,
           StaleFence, WorkerStops, LeaseExpires, LeaseLapses, RetryFallsDue

\* A current claim holds a lease, lapsed or not.
LEMMA CurrentLease ==
  ASSUME Claims, NEW w \in Workers, Current(w)
  PROVE  run[worker[w].run].lease # "none"
  BY CurrentClaim DEF Claims, Leases, LeaseAgrees

\* No lease and no claim at first.
LEMMA AloneInit == Init => Alone
  BY DEF Init, Alone, OneLease, UpToDate, NoRun, IdleWorker

\* Every step keeps the layer: a claim that finds another lease overlaps, and
\* a document is changed by the one claim that is current.
LEMMA AloneNext == Claims /\ Claims' /\ Alone /\ [Next]_vars => Alone'
  <1> SUFFICES ASSUME Claims, Claims', Alone, [Next]_vars, ~overlapped'
               PROVE  OneLease' /\ UpToDate'
    BY DEF Alone
  <1>o. OneLease /\ UpToDate
    BY OverlapStays DEF Alone
  <1>t. /\ run \in [Runs -> RunRow]
        /\ nextFence \in Nat
        /\ \A r \in Runs : LeaseAgrees(run[r]) /\ RowStep(r)
    BY RowSteps DEF Claims, Rows, TypeOK, Leases
  <1>1. OneLease'
    <2>1. ASSUME nextFence' = nextFence, NEW r \in Runs, run'[r].lease # "none"
          PROVE  run[r].lease # "none"
      <3>1. ~RowLeased(r)
        <4> SUFFICES ASSUME RowLeased(r) PROVE FALSE
          OBVIOUS
        <4> DEFINE base == IF r \in Expired THEN Reclaimed(run[r]) ELSE run[r]
        <4>1. base \in RunRow
          BY <1>t, ReclaimedType
        <4>2. run'[r] = Leased(base, nextFence)
          BY DEF RowLeased
        <4> HIDE DEF base
        <4>3. run'[r].fence = nextFence
          BY <4>1, <4>2, LeasedFields
        <4>4. run'[r].fence < nextFence'
          BY DEF Claims, Fences, FencesAllocated
        <4> QED BY <1>t, <2>1, <4>3, <4>4
      <3>2. RowStep(r) /\ LeaseAgrees(run[r]) /\ run[r] \in RunRow
        BY <1>t
      <3>3. CASE RowSame(r) \/ RowDue(r)
        BY <2>1, <3>2, <3>3 DEF RowSame, RowDue, RunRow
      <3>4. CASE RowRenewed(r)
        BY <3>2, <3>4 DEF RowRenewed, LeaseAgrees
      <3>5. CASE RowInserted(r)
        BY <2>1, <3>5, InsertedAgrees DEF RowInserted
      <3>6. CASE RowReclaimed(r) \/ RowRetried(r) \/ RowEnded(r)
        BY <2>1, <3>2, <3>6, ReclaimedFields, RetryScheduledFields, FailedFields, FinishedFields
           DEF RowReclaimed, RowRetried, RowEnded
      <3> QED BY <3>1, <3>2, <3>3, <3>4, <3>5, <3>6 DEF RowStep
    <2>2. ASSUME NEW w \in Workers, NEW r \in Runs, ClaimNext(w, r),
                 NEW x \in Runs, x # r
          PROVE  run'[x].lease = "none"
      <3>1. LiveLeases = {}
        BY <2>2, Zenon DEF ClaimNext
      <3>2. run'[x] = IF x \in Expired THEN Reclaimed(run[x]) ELSE run[x]
        BY <2>2, <3>1 DEF ClaimNext
      <3>3. CASE x \in Expired
        BY <1>t, <3>2, <3>3, ReclaimedFields
      <3>4. CASE x \notin Expired
        <4>1. run[x] \in RunRow /\ LeaseAgrees(run[x])
          BY <1>t
        <4>2. run[x].lease = "none" \/ run[x].status # "RUNNING"
          BY <3>1, <3>4, <4>1 DEF Expired, LiveLeases, RunRow
        <4>3. run[x].lease = "none"
          BY <4>1, <4>2 DEF LeaseAgrees, RunRow, LiveStatus
        <4> QED BY <3>2, <3>4, <4>3
      <3> QED BY <3>3, <3>4
    <2> QED BY <1>o, <2>1, <2>2, OnlyClaims DEF OneLease
  <1>2. UpToDate'
    <2> SUFFICES ASSUME NEW w \in Workers, worker'[w].state = "finalizing", Current(w)'
                 PROVE  worker'[w].seen = doc'[run'[worker'[w].run].version[1]].active
      BY DEF UpToDate
    <2>1. CASE BeginFinalize(w)
      <3>1. /\ worker' = [worker EXCEPT ![w] = [worker[w] EXCEPT !.state = "finalizing",
                              !.seen = doc[run[worker[w].run].version[1]].active]]
            /\ UNCHANGED <<doc, run>> /\ worker[w] \in WorkerRow
            /\ worker \in [Workers -> WorkerRow]
        BY <2>1 DEF BeginFinalize, Claims, Rows, TypeOK
      <3> QED BY <3>1 DEF WorkerRow
    <2>2. CASE worker'[w] = worker[w]
      <3> DEFINE r == worker[w].run
                 v == run[r].version
      <3>1. SameClaim(w) /\ worker[w].state = "finalizing"
        BY <2>2 DEF SameClaim
      <3>2. Current(w) /\ r \in Runs /\ run'[r].version = v
        BY <3>1, CurrentKept
      <3>3. worker[w].seen = doc[v[1]].active /\ v[1] \in Docs
        BY <1>o, <3>1, <3>2, CurrentClaim, VersionParts DEF UpToDate, Claims
      <3>4. \A d \in Docs : doc'[d].active = doc[d].active
        <4> SUFFICES ASSUME NEW x \in Workers, FinalizeActivated(x) PROVE FALSE
          BY OnlyFinalize DEF Claims
        <4>1. Current(x) /\ run' = [run EXCEPT ![worker[x].run] = Finished(@, "SUCCEEDED")]
          BY DEF FinalizeActivated
        <4>2. worker[x].run = r
          BY <1>o, <3>2, <4>1, CurrentLease, CurrentClaim DEF OneLease, Claims
        <4>3. run'[r].status = "SUCCEEDED"
          BY <1>t, <3>2, <4>1, <4>2, FinishedFields
        <4> QED BY <2>2, <4>3 DEF Current
      <3> QED BY <2>2, <3>2, <3>3, <3>4
    <2> QED BY <2>1, <2>2, OnlyBegins DEF Claims
  <1> QED BY <1>1, <1>2

\* With the layers below, the layer holds at all times.
LEMMA AloneAlways == Spec => [](Claims /\ Alone)
  <1>1. Init => Alone BY AloneInit
  <1>2. Claims /\ Claims' /\ Alone /\ [Next]_vars => Alone' BY AloneNext
  <1> QED BY <1>1, <1>2, ClaimsAlways, PTL DEF Spec

\* Whatever a Finalize reads is the active version's number or 0.
LEMMA NumbersBounds ==
  ASSUME NEW d, NEW seen, NEW number \in NumbersRead(d, seen)
  PROVE  number = doc[d].active \/ number = 0
  BY DEF NumbersRead

\* Until claims overlap it is the active version's number.
LEMMA NumberIsActive ==
  ASSUME Alone, ~overlapped, NEW w \in Workers, worker[w].state = "finalizing", Current(w),
         NEW number \in NumbersRead(run[worker[w].run].version[1], worker[w].seen)
  PROVE  number = doc[run[worker[w].run].version[1]].active
  BY DEF Alone, UpToDate, NumbersRead

-----------------------------------------------------------------------------
(* The versions of a document, and the chunks a search reads.              *)

Pending(v) == \E r \in LiveRuns : run[r].version = v

\* Behind an active version, which is higher unless claims have overlapped.
Behind(v) ==
  /\ doc[v[1]].active # 0
  /\ overlapped \/ doc[v[1]].active > v[2]

VersionAgrees(v) ==
  /\ version[v].status = "ABSENT" <=> v[2] >= doc[v[1]].next
  /\ version[v].status = "ACTIVE" <=> doc[v[1]].active = v[2]
  /\ version[v].status = "SUPERSEDED" => Behind(v)
  /\ version[v].status \in {"QUEUED", "PROCESSING"} <=> Pending(v)

RunningAgrees ==
  \A r \in Runs : run[r].status = "RUNNING" => version[run[r].version].status = "PROCESSING"

Versions == (\A v \in VersionIds : VersionAgrees(v)) /\ RunningAgrees /\ OneLiveRunPerVersion

-----------------------------------------------------------------------------
(* What a step does to the set of versions that have a live run.           *)

\* No run starts or ends.
LEMMA RunsKept ==
  ASSUME OneLiveRunPerVersion,
         \A r \in Runs : /\ run'[r].status \in LiveStatus <=> run[r].status \in LiveStatus
                         /\ run'[r].version = run[r].version
  PROVE  OneLiveRunPerVersion' /\ \A v \in VersionIds : Pending(v)' <=> Pending(v)
  BY DEF OneLiveRunPerVersion, Pending, LiveRuns

\* A run is inserted for a version that has no live one.
LEMMA RunStarts ==
  ASSUME OneLiveRunPerVersion, NEW r \in Runs, NEW v \in VersionIds, ~Pending(v),
         run[r].status = "ABSENT", run'[r].status = "QUEUED", run'[r].version = v,
         \A x \in Runs : x # r => run'[x] = run[x]
  PROVE  OneLiveRunPerVersion' /\ \A x \in VersionIds : Pending(x)' <=> Pending(x) \/ x = v
  BY DEF OneLiveRunPerVersion, Pending, LiveRuns, LiveStatus

\* The live run of a version ends.
LEMMA RunEnds ==
  ASSUME OneLiveRunPerVersion, NEW r \in LiveRuns, run'[r].status \in FinishedStatus,
         \A x \in Runs : x # r => run'[x] = run[x]
  PROVE  /\ OneLiveRunPerVersion'
         /\ \A x \in VersionIds : Pending(x)' <=> Pending(x) /\ x # run[r].version
  BY DEF OneLiveRunPerVersion, Pending, LiveRuns, LiveStatus, FinishedStatus

\* A step that changes no version's status, no document, and starts or ends
\* no run.
LEMMA VersionsKept ==
  ASSUME Versions, UNCHANGED doc, overlapped => overlapped',
         \A v \in VersionIds : version'[v].status = version[v].status,
         \A r \in Runs : /\ run'[r].status \in LiveStatus <=> run[r].status \in LiveStatus
                         /\ run'[r].version = run[r].version
                         /\ run[r].status # "ABSENT" => run[r].version \in VersionIds
                         /\ run'[r].status = "RUNNING" => run[r].status = "RUNNING"
  PROVE  Versions'
  <1>1. OneLiveRunPerVersion' /\ \A v \in VersionIds : Pending(v)' <=> Pending(v)
    BY RunsKept DEF Versions
  <1>2. \A v \in VersionIds : VersionAgrees(v)'
    BY <1>1 DEF Versions, VersionAgrees, Behind
  <1>3. RunningAgrees'
    BY DEF Versions, RunningAgrees
  <1> QED BY <1>1, <1>2, <1>3 DEF Versions

\* A step that ends the live run of v without publishing it.
LEMMA VersionEnds ==
  ASSUME Claims, Versions, UNCHANGED <<doc, overlapped>>, NEW r \in Runs, run[r].status = "RUNNING",
         run'[r].status \in FinishedStatus,
         \A x \in Runs : x # r => run'[x] = run[x],
         NEW v \in VersionIds, run[r].version = v,
         \/ version'[v].status = "FAILED"
         \/ version'[v].status = "SUPERSEDED" /\ Behind(v),
         \A x \in VersionIds : x # v => version'[x].status = version[x].status
  PROVE  Versions'
  <1>1. OneLiveRunPerVersion' /\ \A x \in VersionIds : Pending(x)' <=> Pending(x) /\ x # v
    <2>1. r \in LiveRuns
      BY DEF LiveRuns, LiveStatus
    <2> QED BY <2>1, RunEnds DEF Versions
  <1>2. version[v].status = "PROCESSING"
    BY DEF Versions, RunningAgrees
  <1>3. \A x \in VersionIds : VersionAgrees(x)'
    BY <1>1, <1>2 DEF Versions, VersionAgrees, Behind
  <1>4. RunningAgrees'
    <2>1. ASSUME NEW x \in Runs, run'[x].status = "RUNNING"
          PROVE  version'[run'[x].version].status = "PROCESSING"
      <3>1. x # r /\ run'[x] = run[x] /\ run[x].version \in VersionIds
            /\ version[run[x].version].status = "PROCESSING"
        BY <2>1 DEF Versions, RunningAgrees, Claims, Rows, References, FinishedStatus
      <3>2. run[x].version # v
        BY <2>1, <3>1 DEF Versions, OneLiveRunPerVersion, LiveRuns, LiveStatus
      <3> QED BY <3>1, <3>2
    <2> QED BY <2>1 DEF RunningAgrees
  <1> QED BY <1>1, <1>3, <1>4 DEF Versions

-----------------------------------------------------------------------------
(* The layer Versions.                                                     *)

\* No version and no run exists at first.
LEMMA VersionsInit == Init => Versions
  BY ConstantsAssumption
     DEF Init, Versions, VersionAgrees, RunningAgrees, OneLiveRunPerVersion, Pending, Behind,
         LiveRuns, LiveStatus, VersionIds, NoDoc, NoVersion, NoRun

\* Every step keeps the layer.
LEMMA VersionsNext == Claims /\ Claims' /\ Alone /\ Versions /\ [Next]_vars => Versions'
  <1> SUFFICES ASSUME Claims, Claims', Alone, Versions, [Next]_vars PROVE Versions'
    OBVIOUS
  <1>o. overlapped => overlapped'
    BY OverlapStays
  <1>t. /\ run \in [Runs -> RunRow] /\ version \in [VersionIds -> VersionRow]
        /\ doc \in [Docs -> DocRow]
    BY DEF Claims, Rows, TypeOK
  <1>v. \A r \in Runs : run[r].status # "ABSENT" => run[r].version \in VersionIds
    BY DEF Claims, Rows, References
  <1>1. ASSUME UNCHANGED <<doc, run>>,
               \A v \in VersionIds : version'[v].status = version[v].status
        PROVE  Versions'
    BY <1>1, <1>o, <1>v, VersionsKept
  <1>2. ASSUME NEW q \in Requests, NEW d \in Docs, NEW r \in Runs, RegisterCommit(q, d, r)
        PROVE  Versions'
    <2> DEFINE v == <<d, doc[d].next>>
    <2>1. /\ run[r].status = "ABSENT" /\ doc[d].next <= MaxVersion
          /\ doc' = [doc EXCEPT ![d].next = @ + 1]
          /\ version' = [version EXCEPT ![v].status = "QUEUED"]
          /\ run' = [run EXCEPT ![r] = Inserted(v, None, None)]
      BY <1>2 DEF RegisterCommit
    <2>2. v \in VersionIds /\ doc[d] \in DocRow
      BY <1>t, <2>1 DEF DocRow, VersionIds
    <2>3. version[v].status = "ABSENT" /\ ~Pending(v)
      BY <2>2 DEF Versions, VersionAgrees, DocRow
    <2>4. run'[r].status = "QUEUED" /\ run'[r].version = v
          /\ \A x \in Runs : x # r => run'[x] = run[x]
      BY <1>t, <2>1 DEF Inserted
    <2>5. OneLiveRunPerVersion' /\ \A x \in VersionIds : Pending(x)' <=> Pending(x) \/ x = v
      BY <2>1, <2>2, <2>3, <2>4, RunStarts DEF Versions
    <2>6. /\ version'[v].status = "QUEUED"
          /\ \A x \in VersionIds : x # v => version'[x].status = version[x].status
      BY <1>t, <2>1, <2>2 DEF VersionRow
    <2>7. /\ doc'[d].next = doc[d].next + 1 /\ doc'[d].active = doc[d].active
          /\ \A x \in Docs : x # d => doc'[x] = doc[x]
      BY <1>t, <2>1 DEF DocRow
    <2>8. ASSUME NEW x \in VersionIds PROVE VersionAgrees(x)'
      <3>1. x[1] \in Docs /\ x[2] \in 1 .. MaxVersion /\ x = <<x[1], x[2]>>
        BY VersionParts
      <3>2. VersionAgrees(x) /\ VersionAgrees(v)
        BY <2>2 DEF Versions
      <3>3. CASE x = v
        BY <2>2, <2>3, <2>5, <2>6, <2>7, <3>2, <3>3 DEF VersionAgrees, DocRow, Behind
      <3>4. CASE x # v
        <4>1. x[1] = d => x[2] # doc[d].next
          BY <3>1, <3>4
        <4>2. x[2] >= doc'[x[1]].next <=> x[2] >= doc[x[1]].next
          BY <2>2, <2>7, <3>1, <4>1 DEF DocRow
        <4>3. doc'[x[1]].active = doc[x[1]].active
          BY <2>7, <3>1
        <4> QED BY <1>o, <2>5, <2>6, <3>2, <3>4, <4>2, <4>3 DEF VersionAgrees, Behind
      <3> QED BY <3>3, <3>4
    <2>9. RunningAgrees'
      <3>1. ASSUME NEW x \in Runs, run'[x].status = "RUNNING"
            PROVE  version'[run'[x].version].status = "PROCESSING"
        <4>1. x # r /\ run'[x] = run[x] /\ run[x].version \in VersionIds
          BY <1>v, <2>4, <3>1
        <4>2. version[run[x].version].status = "PROCESSING"
          BY <3>1, <4>1 DEF Versions, RunningAgrees
        <4> QED BY <2>3, <2>6, <4>1, <4>2
      <3> QED BY <3>1 DEF RunningAgrees
    <2> QED BY <2>5, <2>8, <2>9 DEF Versions
  <1>3. ASSUME NEW c \in Runs, Retry(c) PROVE Versions'
    <2> DEFINE p == retrying.parent
               v == run[p].version
               k == retrying.key
    <2>1. /\ p \in Runs /\ run[p].status = "FAILED" /\ run[c].status = "ABSENT"
          /\ version[v].status = "FAILED" /\ doc' = doc
          /\ version' = [version EXCEPT ![v].status = "QUEUED"]
          /\ run' = [run EXCEPT ![c] = Inserted(v, p, k)]
      BY <1>3, RetryingRun DEF Retry, Retriable, Claims
    <2>2. v \in VersionIds
      BY <1>v, <2>1
    <2>3. ~Pending(v)
      BY <2>1, <2>2 DEF Versions, VersionAgrees
    <2>4. run'[c].status = "QUEUED" /\ run'[c].version = v
          /\ \A x \in Runs : x # c => run'[x] = run[x]
      BY <1>t, <2>1 DEF Inserted
    <2>5. OneLiveRunPerVersion' /\ \A x \in VersionIds : Pending(x)' <=> Pending(x) \/ x = v
      <3> HIDE DEF v
      <3> QED BY <2>1, <2>2, <2>3, <2>4, RunStarts DEF Versions
    <2>6. /\ version'[v].status = "QUEUED"
          /\ \A x \in VersionIds : x # v => version'[x].status = version[x].status
      BY <1>t, <2>1, <2>2 DEF VersionRow
    <2>7. ASSUME NEW x \in VersionIds PROVE VersionAgrees(x)'
      <3> HIDE DEF v
      <3> QED BY <1>o, <2>1, <2>2, <2>5, <2>6 DEF Versions, VersionAgrees, Behind
    <2>8. RunningAgrees'
      BY <1>v, <2>1, <2>4, <2>6 DEF Versions, RunningAgrees
    <2> QED BY <2>5, <2>7, <2>8 DEF Versions
  <1>4. ASSUME NEW w \in Workers, ClaimNothing(w) PROVE Versions'
    <2>1. UNCHANGED <<doc, version>>
      BY <1>4 DEF ClaimNothing
    <2>2. ASSUME NEW r \in Runs
          PROVE  /\ run'[r].status \in LiveStatus <=> run[r].status \in LiveStatus
                 /\ run'[r].version = run[r].version
                 /\ run'[r].status = "RUNNING" => run[r].status = "RUNNING"
      <3>1. run'[r] = IF r \in Expired THEN Reclaimed(run[r]) ELSE run[r]
        BY <1>4 DEF ClaimNothing
      <3>2. run[r] \in RunRow
        BY <1>t
      <3> QED BY <3>1, <3>2, ReclaimedFields DEF Expired, LiveStatus
    <2> QED BY <1>o, <1>v, <2>1, <2>2, VersionsKept
  <1>5. ASSUME NEW w \in Workers, NEW r \in Runs, ClaimNext(w, r) PROVE Versions'
    <2> DEFINE base == IF r \in Expired THEN Reclaimed(run[r]) ELSE run[r]
               v    == run[r].version
    <2>1. /\ r \in Claimable \cup Expired
          /\ doc' = doc
          /\ version' = [version EXCEPT ![v].status = IF @ = "QUEUED" THEN "PROCESSING" ELSE @]
          /\ run' = [x \in Runs |->
                       IF x = r THEN Leased(base, nextFence)
                       ELSE IF x \in Expired THEN Reclaimed(run[x])
                       ELSE IF x \in LiveLeases THEN [run[x] EXCEPT !.lease = "expired"]
                       ELSE run[x]]
      BY <1>5 DEF ClaimNext
    <2>2. r \in LiveRuns /\ v \in VersionIds
      BY <1>v, <2>1 DEF Claimable, Expired, LiveRuns, LiveStatus
    <2>3. version[v].status \in {"QUEUED", "PROCESSING"}
      BY <2>2 DEF Versions, VersionAgrees, Pending
    <2>4. /\ run'[r].status = "RUNNING" /\ run'[r].version = v
          /\ \A x \in Runs : x # r =>
               /\ run'[x].status = IF x \in Expired THEN "QUEUED" ELSE run[x].status
               /\ run'[x].version = run[x].version
      <3>1. base \in RunRow /\ base.version = v
        BY <1>t, ReclaimedType, ReclaimedFields
      <3>2. \A x \in Runs : /\ [run[x] EXCEPT !.lease = "expired"].status = run[x].status
                            /\ [run[x] EXCEPT !.lease = "expired"].version = run[x].version
        BY <1>t DEF RunRow
      <3> HIDE DEF base
      <3> QED BY <1>t, <2>1, <3>1, <3>2, ReclaimedFields, LeasedFields
    <2>5. \A x \in Runs : /\ run'[x].status \in LiveStatus <=> run[x].status \in LiveStatus
                          /\ run'[x].version = run[x].version
      BY <2>2, <2>4 DEF LiveRuns, Expired, LiveStatus
    <2>6. OneLiveRunPerVersion' /\ \A x \in VersionIds : Pending(x)' <=> Pending(x)
      BY <2>5, RunsKept DEF Versions
    <2>7. /\ version'[v].status = "PROCESSING"
          /\ \A x \in VersionIds : x # v => version'[x].status = version[x].status
      BY <1>t, <2>1, <2>2, <2>3 DEF VersionRow
    <2>8. ASSUME NEW x \in VersionIds PROVE VersionAgrees(x)'
      <3> HIDE DEF v
      <3> QED BY <1>o, <2>1, <2>2, <2>3, <2>6, <2>7 DEF Versions, VersionAgrees, Behind
    <2>9. RunningAgrees'
      <3>1. ASSUME NEW x \in Runs, run'[x].status = "RUNNING"
            PROVE  version'[run'[x].version].status = "PROCESSING"
        <4>1. CASE x = r
          BY <2>4, <2>7, <4>1
        <4>2. CASE x # r
          <5>1. run[x].status = "RUNNING" /\ run'[x].version = run[x].version
            BY <2>4, <3>1, <4>2 DEF Expired
          <5>2. version[run[x].version].status = "PROCESSING" /\ run[x].version \in VersionIds
            BY <1>v, <5>1 DEF Versions, RunningAgrees
          <5> QED BY <2>7, <5>1, <5>2
        <4> QED BY <4>1, <4>2
      <3> QED BY <3>1 DEF RunningAgrees
    <2> QED BY <2>6, <2>8, <2>9 DEF Versions
  <1>6. ASSUME NEW w \in Workers, CommitStore(w) PROVE Versions'
    <2> DEFINE r == worker[w].run
               v == run[r].version
    <2>1. r \in Runs /\ v \in VersionIds /\ doc' = doc
          /\ run' = [run EXCEPT ![r] = [run[r] EXCEPT !.lease = "live"]]
          /\ version' = [version EXCEPT ![v].chunkRun = r, ![v].chunkFence = worker[w].fence]
      BY <1>6 DEF CommitStore, Current, Claims, Rows, References
    <2>2. \A x \in VersionIds : version'[x].status = version[x].status
      BY <1>t, <2>1 DEF VersionRow
    <2>3. \A x \in Runs : run'[x].status = run[x].status /\ run'[x].version = run[x].version
      BY <1>t, <2>1 DEF RunRow
    <2> QED BY <1>o, <1>v, <2>1, <2>2, <2>3, VersionsKept
  <1>7. ASSUME NEW w \in Workers, NEW code, FailRetriable(w, code) PROVE Versions'
    <2> DEFINE r == worker[w].run
    <2>1. r \in Runs /\ UNCHANGED <<doc, version>>
          /\ run' = [run EXCEPT ![r] = RetryScheduled(run[r], code)]
      BY <1>7 DEF FailRetriable, Writable, Current, Claims, Rows, References
    <2>2. \A x \in Runs : run'[x].status = run[x].status /\ run'[x].version = run[x].version
      BY <1>t, <2>1, RetryScheduledFields
    <2> QED BY <1>o, <1>v, <2>1, <2>2, VersionsKept
  <1>8. ASSUME NEW r \in Runs, LeaseExpires(r) \/ LeaseLapses(r) \/ RetryFallsDue(r)
        PROVE  Versions'
    <2>1. /\ UNCHANGED <<doc, version>>
          /\ \/ run' = [run EXCEPT ![r] = [run[r] EXCEPT !.lease = "expired"]]
             \/ run' = [run EXCEPT ![r] = [run[r] EXCEPT !.retryAt = "due"]]
      BY <1>8 DEF LeaseExpires, LeaseLapses, RetryFallsDue
    <2>2. \A x \in Runs : run'[x].status = run[x].status /\ run'[x].version = run[x].version
      BY <1>t, <2>1 DEF RunRow
    <2> QED BY <1>o, <1>v, <2>1, <2>2, VersionsKept
  <1>9. ASSUME NEW w \in Workers, FinalizeSuperseded(w) PROVE Versions'
    <2> DEFINE r == worker[w].run
               v == run[r].version
    <2>1. /\ r \in Runs /\ v \in VersionIds /\ run[r].status = "RUNNING"
          /\ UNCHANGED <<doc, overlapped>>
          /\ version' = [version EXCEPT ![v].status = "SUPERSEDED"]
          /\ run' = [run EXCEPT ![r] = Finished(run[r], "SUPERSEDED")]
      BY <1>9, CurrentClaim DEF FinalizeSuperseded, Claims
    <2>2. run'[r].status = "SUPERSEDED" /\ \A x \in Runs : x # r => run'[x] = run[x]
      BY <1>t, <2>1, FinishedFields
    <2>3. version'[v].status = "SUPERSEDED"
          /\ \A x \in VersionIds : x # v => version'[x].status = version[x].status
      BY <1>t, <2>1 DEF VersionRow
    <2>4. run[r].version = v /\ run'[r].status \in FinishedStatus
      BY <2>1, <2>2 DEF FinishedStatus
    <2>5. Behind(v)
      <3>1. PICK number \in NumbersRead(v[1], worker[w].seen) : number > v[2]
        BY <1>9 DEF FinalizeSuperseded, Outranks
      <3>2. v[1] \in Docs /\ v[2] \in Nat \ {0} /\ (number = doc[v[1]].active \/ number = 0)
        BY <2>1, <3>1, VersionParts, NumbersBounds, ConstantsAssumption
      <3>3. doc[v[1]].active \in Nat
        BY <1>t, <3>2, ConstantsAssumption DEF DocRow
      <3> HIDE DEF v
      <3> QED BY <3>1, <3>2, <3>3 DEF Behind
    <2> HIDE DEF v, r
    <2> QED BY <2>1, <2>2, <2>3, <2>4, <2>5, VersionEnds
  <1>10. ASSUME NEW w \in Workers, NEW code, FailFinal(w, code) PROVE Versions'
    <2> DEFINE r == worker[w].run
               v == run[r].version
    <2>1. /\ r \in Runs /\ v \in VersionIds /\ run[r].status = "RUNNING"
          /\ UNCHANGED <<doc, overlapped>>
          /\ version' = [version EXCEPT ![v] = FailedVersion(version[v])]
      BY <1>10 DEF FailFinal, Writable, Current, Claims, Rows, References
    <2>2. PICK e : run' = [run EXCEPT ![r] = Failed(run[r], e)]
      BY <1>10 DEF FailFinal
    <2>3. run'[r].status = "FAILED" /\ \A x \in Runs : x # r => run'[x] = run[x]
      BY <1>t, <2>1, <2>2, FailedFields
    <2>4. version[v].status = "PROCESSING"
      BY <2>1 DEF Versions, RunningAgrees
    <2>5. version'[v].status = "FAILED"
          /\ \A x \in VersionIds : x # v => version'[x].status = version[x].status
      BY <1>t, <2>1, <2>4 DEF FailedVersion, VersionRow
    <2>6. run[r].version = v /\ run'[r].status \in FinishedStatus
      BY <2>1, <2>3 DEF FinishedStatus
    <2> HIDE DEF v, r
    <2> QED BY <2>1, <2>3, <2>5, <2>6, VersionEnds
  <1>11. ASSUME NEW w \in Workers, FinalizeActivated(w) PROVE Versions'
    <2> DEFINE r == worker[w].run
               v == run[r].version
               old == <<v[1], doc[v[1]].active>>
    <2>1. /\ r \in Runs /\ v \in VersionIds /\ run[r].status = "RUNNING"
          /\ overlapped' = overlapped
          /\ doc' = [doc EXCEPT ![v[1]].active = v[2]]
          /\ version' = [x \in VersionIds |->
               IF x = v THEN [version[x] EXCEPT !.status = "ACTIVE"]
               ELSE IF x = old /\ version[x].status = "ACTIVE"
                 THEN [version[x] EXCEPT !.status = "SUPERSEDED"]
               ELSE version[x]]
          /\ run' = [run EXCEPT ![r] = Finished(run[r], "SUCCEEDED")]
      BY <1>11, CurrentClaim DEF FinalizeActivated, Claims
    <2>2. run'[r].status = "SUCCEEDED" /\ \A x \in Runs : x # r => run'[x] = run[x]
      <3>1. r \in Runs /\ run' = [run EXCEPT ![r] = Finished(run[r], "SUCCEEDED")]
        BY <2>1
      <3> HIDE DEF r
      <3> QED BY <1>t, <3>1, FinishedFields
    <2>3. v[1] \in Docs /\ v[2] \in 1 .. MaxVersion /\ v = <<v[1], v[2]>>
      BY <2>1, VersionParts
    <2>4. /\ doc'[v[1]].active = v[2] /\ doc'[v[1]].next = doc[v[1]].next
          /\ \A d \in Docs : d # v[1] => doc'[d] = doc[d]
      BY <1>t, <2>1, <2>3 DEF DocRow
    <2>5. version[v].status = "PROCESSING" /\ VersionAgrees(v)
      BY <2>1 DEF Versions, RunningAgrees
    <2>6. doc[v[1]].active # v[2] /\ (overlapped \/ doc[v[1]].active < v[2])
      <3>1. doc[v[1]].active \in Nat
        BY <1>t, <2>3, ConstantsAssumption DEF DocRow
      <3>2. doc[v[1]].active # v[2]
        BY <2>5 DEF VersionAgrees
      <3>3. overlapped \/ ~(doc[v[1]].active > v[2])
        BY <1>11, NumberIsActive DEF FinalizeActivated, Outranks
      <3> HIDE DEF v
      <3> QED BY <2>3, <3>1, <3>2, <3>3, ConstantsAssumption
    <2>7. OneLiveRunPerVersion' /\ \A x \in VersionIds : Pending(x)' <=> Pending(x) /\ x # v
      <3>1. r \in LiveRuns
        BY <2>1 DEF LiveRuns, LiveStatus
      <3> QED BY <2>2, <3>1, RunEnds DEF Versions, FinishedStatus
    <2>8. /\ version'[v].status = "ACTIVE"
          /\ \A x \in VersionIds : x # v =>
               version'[x].status = IF version[x].status = "ACTIVE" /\ x[1] = v[1]
                                    THEN "SUPERSEDED" ELSE version[x].status
      <3>1. version'[v].status = "ACTIVE"
        BY <1>t, <2>1, ZenonT(40) DEF VersionRow
      <3>2. ASSUME NEW x \in VersionIds, x # v
            PROVE  version'[x].status = IF version[x].status = "ACTIVE" /\ x[1] = v[1]
                                        THEN "SUPERSEDED" ELSE version[x].status
        <4>1. x = <<x[1], x[2]>> /\ VersionAgrees(x)
          BY VersionParts DEF Versions
        <4>2. x = old /\ version[x].status = "ACTIVE" <=> x[1] = v[1] /\ version[x].status = "ACTIVE"
          BY <4>1 DEF VersionAgrees
        <4>3. version'[x] = IF x = old /\ version[x].status = "ACTIVE"
                              THEN [version[x] EXCEPT !.status = "SUPERSEDED"] ELSE version[x]
          BY <2>1, <3>2
        <4>4. [version[x] EXCEPT !.status = "SUPERSEDED"].status = "SUPERSEDED"
          BY <1>t DEF VersionRow
        <4> HIDE DEF old, v
        <4> QED BY <4>2, <4>3, <4>4
      <3> QED BY <3>1, <3>2
    <2> HIDE DEF old, v, r
    <2>9. ASSUME NEW x \in VersionIds PROVE VersionAgrees(x)'
      <3>1. x[1] \in Docs /\ x[2] \in 1 .. MaxVersion /\ x = <<x[1], x[2]>>
        BY VersionParts
      <3>2. VersionAgrees(x)
        BY DEF Versions
      <3>3. CASE x = v
        BY <2>3, <2>4, <2>5, <2>7, <2>8, <3>3 DEF VersionAgrees, Behind
      <3>4. CASE x # v /\ x[1] # v[1]
        BY <1>o, <2>4, <2>7, <2>8, <3>1, <3>2, <3>4 DEF VersionAgrees, Behind
      <3>5. CASE x # v /\ x[1] = v[1]
        <4>1. x[2] # v[2]
          BY <2>3, <3>1, <3>5
        <4>2. doc[v[1]].active \in Nat
          BY <1>t, <2>3, ConstantsAssumption DEF DocRow
        <4>3. ASSUME version'[x].status = "SUPERSEDED" PROVE Behind(x)'
          <5>1. doc'[x[1]].active = v[2] /\ v[2] \in Nat \ {0} /\ x[2] \in Nat
            BY <2>3, <2>4, <3>1, <3>5, ConstantsAssumption
          <5>2. \/ version[x].status = "ACTIVE" /\ doc[v[1]].active = x[2]
                \/ Behind(x)
            BY <2>8, <3>2, <3>5, <4>3 DEF VersionAgrees
          <5>3. overlapped \/ v[2] > x[2]
            BY <2>6, <3>5, <4>2, <5>1, <5>2 DEF Behind
          <5> QED BY <1>o, <5>1, <5>3 DEF Behind
        <4> QED BY <2>3, <2>4, <2>7, <2>8, <3>1, <3>2, <3>5, <4>1, <4>2, <4>3 DEF VersionAgrees
      <3> QED BY <3>3, <3>4, <3>5
    <2>10. RunningAgrees'
      <3>1. ASSUME NEW x \in Runs, run'[x].status = "RUNNING"
            PROVE  version'[run'[x].version].status = "PROCESSING"
        <4>1. x # r /\ run'[x] = run[x] /\ run[x].version \in VersionIds
              /\ version[run[x].version].status = "PROCESSING"
          BY <1>v, <2>2, <3>1 DEF Versions, RunningAgrees
        <4>2. run[x].version # v
          BY <2>1, <3>1, <4>1 DEF Versions, OneLiveRunPerVersion, LiveRuns, LiveStatus, v
        <4> QED BY <2>8, <4>1, <4>2
      <3> QED BY <3>1 DEF RunningAgrees
    <2> QED BY <2>7, <2>9, <2>10 DEF Versions
  <1> QED
    BY <1>1, <1>2, <1>3, <1>4, <1>5, <1>6, <1>7, <1>8, <1>9, <1>10, <1>11
       DEF Next, Register, ManualRetry, RetryRequest, RetryAnswer, Poll, Process, Finalize, Fail,
           Clock, vars, RegisterCheck, RegisterAbort, RetryBegin, RetryEnds, SetStage, BeginStore,
           BeginFinalize, StaleFence, WorkerStops

\* With the layers below, the layer holds at all times.
LEMMA VersionsAlways == Spec => [](Claims /\ Alone /\ Versions)
  <1>1. Init => Versions BY VersionsInit
  <1>2. Claims /\ Claims' /\ Alone /\ Versions /\ [Next]_vars => Versions' BY VersionsNext
  <1> QED BY <1>1, <1>2, AloneAlways, PTL DEF Spec

-----------------------------------------------------------------------------
\* Registrations, reclaims and retries never make two live runs of a version,
\* so the partial unique index of the schema is never what refuses one.
THEOREM SingleLiveRun == Spec => []OneLiveRunPerVersion
  <1>1. Versions => OneLiveRunPerVersion BY DEF Versions
  <1> QED BY <1>1, VersionsAlways, PTL

\* The statuses of a version, of its runs and the active version of its
\* document, three rows that six operations write, agree at all times; a
\* superseded version is behind an active one whatever Finalize reads, and
\* behind a higher one until claims overlap.
THEOREM VersionsAgree == Spec => []VersionsTrackRuns
  <1>1. Versions => VersionsTrackRuns
    BY DEF Versions, VersionAgrees, Behind, VersionsTrackRuns, Pending
  <1> QED BY <1>1, VersionsAlways, PTL

\* Until claims overlap, Finalize never puts a lower version in the place of
\* a higher one, in whatever order the runs of a document end, although
\* leases lapse inside it and failed versions are retried behind a higher one.
THEOREM DocumentsGoForward == Spec => ActiveGoesForward
  <1>1. ASSUME Claims, Alone, [Next]_vars, ~overlapped', NEW d \in Docs
        PROVE  doc'[d].active >= doc[d].active
    <2>t. doc \in [Docs -> DocRow] /\ doc[d].active \in Nat
      BY <1>1, ConstantsAssumption DEF Claims, Rows, TypeOK, DocRow
    <2>1. CASE doc'[d].active = doc[d].active
      BY <2>t, <2>1
    <2>2. ASSUME NEW w \in Workers, FinalizeActivated(w)
          PROVE  doc'[d].active >= doc[d].active
      <3> DEFINE v == run[worker[w].run].version
      <3>1. /\ v \in VersionIds
            /\ doc' = [doc EXCEPT ![v[1]] = [doc[v[1]] EXCEPT !.active = v[2]]]
        BY <1>1, <2>2, CurrentClaim DEF FinalizeActivated, Claims
      <3>2. ~(doc[v[1]].active > v[2])
        BY <1>1, <2>2, OverlapStays, NumberIsActive DEF FinalizeActivated, Outranks
      <3> HIDE DEF v
      <3>3. v[1] \in Docs /\ v[2] \in Nat
        BY <3>1, VersionParts, ConstantsAssumption
      <3>4. doc'[d].active = IF d = v[1] THEN v[2] ELSE doc[d].active
        BY <2>t, <3>1, <3>3 DEF DocRow
      <3> QED BY <2>t, <3>2, <3>3, <3>4
    <2> QED BY <1>1, <2>1, <2>2, OnlyFinalize DEF Claims
  <1>2. Claims /\ Alone /\ [Next]_vars =>
          [~overlapped' => \A d \in Docs : doc'[d].active >= doc[d].active]_vars
    BY <1>1
  <1> QED BY <1>2, VersionsAlways, PTL DEF Spec, ActiveGoesForward

-----------------------------------------------------------------------------
(* The chunks.                                                             *)

Through(w) == worker[w].state = "stored" \/ worker[w].stage = Activate

ChunksOf(w) ==
  LET v == run[worker[w].run].version
  IN  version[v].chunkRun = worker[w].run /\ version[v].chunkFence = worker[w].fence

\* A worker past StoreChunks that still has its claim finds its own chunks.
Staging == \A w \in Workers : Current(w) /\ Through(w) => ChunksOf(w)

\* StoreChunks and Finalize are called in their stages.
CallsInStage ==
  \A w \in Workers :
    /\ worker[w].state \in {"storing", "stored"} => worker[w].stage = Store
    /\ worker[w].state = "finalizing" => worker[w].stage = Activate

Chunks == Staging /\ CallsInStage /\ PublishedByItsClaim

Settled == Claims /\ Versions

SameChunks(v) ==
  /\ version'[v].chunkRun = version[v].chunkRun
  /\ version'[v].chunkFence = version[v].chunkFence

-----------------------------------------------------------------------------
\* A step that writes no chunks and takes no worker past StoreChunks.
LEMMA StagingKept ==
  ASSUME Claims, Staging, [Next]_vars, \A v \in VersionIds : SameChunks(v),
         \A w \in Workers : worker'[w].state # "idle" /\ Through(w)' => SameClaim(w) /\ Through(w)
  PROVE  Staging'
  <1> SUFFICES ASSUME NEW w \in Workers, Current(w)', Through(w)' PROVE ChunksOf(w)'
    BY DEF Staging
  <1>1. SameClaim(w) /\ Through(w)
    BY DEF Current
  <1>2. /\ Current(w) /\ worker[w].run \in Runs
        /\ run'[worker[w].run].version = run[worker[w].run].version
    BY <1>1, CurrentKept
  <1>3. run[worker[w].run].version \in VersionIds
    BY <1>2 DEF Current, Claims, Rows, References
  <1> QED BY <1>1, <1>2, <1>3 DEF Staging, ChunksOf, SameChunks, SameClaim

\* Versions that were active keep their chunks and the run that published them.
LEMMA PublishedKept ==
  ASSUME Claims, PublishedByItsClaim, [Next]_vars,
         NEW v \in VersionIds, version[v].status = "ACTIVE", SameChunks(v)
  PROVE  \E r \in Runs : /\ run'[r].version = v
                         /\ run'[r].status = "SUCCEEDED"
                         /\ version'[v].chunkRun = r
                         /\ version'[v].chunkFence = run'[r].fence
  <1>1. PICK r \in Runs : /\ run[r].version = v
                          /\ run[r].status = "SUCCEEDED"
                          /\ version[v].chunkRun = r
                          /\ version[v].chunkFence = run[r].fence
    BY DEF PublishedByItsClaim
  <1>2. RowStep(r)
    BY RowSteps DEF Claims
  <1>3. run'[r] = run[r]
    BY <1>1, <1>2
       DEF RowStep, RowSame, RowInserted, RowReclaimed, RowLeased, RowRenewed, RowDue, RowRetried,
           RowEnded, Expired, Claimable, LiveLeases
  <1> QED BY <1>1, <1>3 DEF SameChunks

\* The same for the whole layer, if it publishes nothing either.
LEMMA ChunksKept ==
  ASSUME Settled, Chunks, [Next]_vars, CallsInStage',
         \A v \in VersionIds :
           SameChunks(v) /\ (version'[v].status = "ACTIVE" => version[v].status = "ACTIVE"),
         \A w \in Workers : worker'[w].state # "idle" /\ Through(w)' => SameClaim(w) /\ Through(w)
  PROVE  Chunks'
  <1>1. Staging'
    BY StagingKept DEF Settled, Chunks
  <1>2. PublishedByItsClaim'
    BY PublishedKept DEF Settled, Chunks, PublishedByItsClaim
  <1> QED BY <1>1, <1>2 DEF Chunks

\* No chunks, no claims and nothing published at first.
LEMMA ChunksInit == Init => Chunks
  BY DEF Init, Chunks, Staging, CallsInStage, PublishedByItsClaim, Current, IdleWorker, NoVersion

\* Every step keeps the layer.
LEMMA ChunksNext == Settled /\ Chunks /\ [Next]_vars => Chunks'
  <1> SUFFICES ASSUME Settled, Chunks, [Next]_vars PROVE Chunks'
    OBVIOUS
  <1>t. /\ version \in [VersionIds -> VersionRow]
        /\ worker \in [Workers -> WorkerRow]
        /\ run \in [Runs -> RunRow]
    BY DEF Settled, Claims, Rows, TypeOK
  <1>n. Metadata # Activate /\ Store # Activate /\ Activate = Store + 1 /\ Metadata # Store
    BY ConstantsAssumption DEF Metadata, Store, Activate
  <1>1. ASSUME UNCHANGED version,
               \A w \in Workers : worker'[w] = worker[w] \/ worker'[w].state = "idle"
        PROVE  Chunks'
    BY <1>1, ChunksKept DEF Chunks, CallsInStage, SameChunks, SameClaim, Through
  <1>2. ASSUME \A v \in VersionIds : SameChunks(v) /\ (version'[v].status = "ACTIVE"
                                                       => version[v].status = "ACTIVE"),
               \A w \in Workers : worker'[w] = worker[w] \/ worker'[w].state = "idle"
        PROVE  Chunks'
    BY <1>2, ChunksKept DEF Chunks, CallsInStage, SameClaim, Through
  <1>3. ASSUME NEW v \in VersionIds, NEW s, s # "ACTIVE",
               version' = [version EXCEPT ![v] = [version[v] EXCEPT !.status = s]]
        PROVE  \A x \in VersionIds : SameChunks(x) /\ (version'[x].status = "ACTIVE"
                                                       => version[x].status = "ACTIVE")
    BY <1>t, <1>3 DEF SameChunks, VersionRow
  <1>4. ASSUME NEW q \in Requests, NEW d \in Docs, NEW r \in Runs, RegisterCommit(q, d, r)
        PROVE  Chunks'
    <2> DEFINE v == <<d, doc[d].next>>
    <2>1. /\ v \in VersionIds /\ UNCHANGED worker
          /\ version' = [version EXCEPT ![v] = [version[v] EXCEPT !.status = "QUEUED"]]
      BY <1>4 DEF RegisterCommit, VersionIds, Settled, Claims, Rows, TypeOK, DocRow
    <2> HIDE DEF v
    <2> QED BY <1>2, <1>3, <2>1
  <1>5. ASSUME NEW c \in Runs, Retry(c) PROVE Chunks'
    <2> DEFINE v == run[retrying.parent].version
    <2>1. /\ v \in VersionIds /\ UNCHANGED worker
          /\ version' = [version EXCEPT ![v] = [version[v] EXCEPT !.status = "QUEUED"]]
      BY <1>5, RetryingRun DEF Retry, Settled, Claims
    <2> HIDE DEF v
    <2> QED BY <1>2, <1>3, <2>1
  <1>6. ASSUME NEW w \in Workers, NEW r \in Runs, ClaimNext(w, r) PROVE Chunks'
    <2> DEFINE v == run[r].version
               s == IF version[v].status = "QUEUED" THEN "PROCESSING" ELSE version[v].status
    <2>1. /\ v \in VersionIds /\ run[r].status \in LiveStatus
          /\ version' = [version EXCEPT ![v] = [version[v] EXCEPT !.status = s]]
          /\ worker' = [worker EXCEPT ![w] = worker'[w]]
          /\ worker'[w].state = "working" /\ worker'[w].stage = Metadata
      BY <1>t, <1>6 DEF ClaimNext, Claimable, Expired, LiveStatus, Settled, Claims, Rows, References
    <2>2. s # "ACTIVE"
      <3>1. r \in LiveRuns
        BY <2>1 DEF LiveRuns
      <3> QED BY <2>1, <3>1 DEF Settled, Versions, VersionAgrees, Pending
    <2>3. \A x \in Workers : x # w => worker'[x] = worker[x]
      BY <1>t, <2>1
    <2>4. CallsInStage'
      BY <2>1, <2>3 DEF Chunks, CallsInStage
    <2> HIDE DEF v, s
    <2>5. \A x \in VersionIds : SameChunks(x) /\ (version'[x].status = "ACTIVE"
                                                 => version[x].status = "ACTIVE")
      BY <1>3, <2>1, <2>2
    <2> QED BY <1>n, <2>1, <2>3, <2>4, <2>5, ChunksKept DEF SameClaim, Through
  <1>7. ASSUME NEW w \in Workers, SetStage(w) \/ BeginStore(w) \/ BeginFinalize(w)
        PROVE  Chunks'
    <2>1. UNCHANGED version /\ worker[w].state # "idle"
      BY <1>7 DEF SetStage, BeginStore, BeginFinalize, Writable, Current
    <2>2. /\ \A x \in Workers : x # w => worker'[x] = worker[x]
          /\ worker'[w].run = worker[w].run /\ worker'[w].fence = worker[w].fence
          /\ \/ /\ worker'[w].state = "working" /\ worker'[w].stage = worker[w].stage + 1
                /\ worker[w].stage = Store => worker[w].state = "stored"
             \/ /\ worker'[w].state = "storing" /\ worker'[w].stage = worker[w].stage
                /\ worker[w].stage = Store
             \/ /\ worker'[w].state = "finalizing" /\ worker'[w].stage = worker[w].stage
                /\ worker[w].stage = Activate
      <3>1. CASE SetStage(w)
        <4>1. worker' = [worker EXCEPT ![w] = [worker[w] EXCEPT !.state = "working",
                                                               !.stage = worker[w].stage + 1]]
          BY <3>1 DEF SetStage
        <4> QED BY <1>t, <3>1, <4>1 DEF SetStage, WorkerRow
      <3>2. CASE BeginStore(w)
        <4>1. worker' = [worker EXCEPT ![w] = [worker[w] EXCEPT !.state = "storing"]]
          BY <3>2 DEF BeginStore
        <4> QED BY <1>t, <3>2, <4>1 DEF BeginStore, WorkerRow
      <3>3. CASE BeginFinalize(w)
        <4> DEFINE n == doc[run[worker[w].run].version[1]].active
        <4>1. /\ worker' = [worker EXCEPT ![w] = [worker[w] EXCEPT !.state = "finalizing",
                                                                 !.seen = n]]
              /\ worker[w].stage = Activate
          BY <3>3 DEF BeginFinalize
        <4> HIDE DEF n
        <4> QED BY <1>t, <4>1 DEF WorkerRow
      <3> QED BY <1>7, <3>1, <3>2, <3>3
    <2>3. CallsInStage'
      BY <1>n, <2>2 DEF Chunks, CallsInStage
    <2>4. SameClaim(w)
      BY <2>1, <2>2 DEF SameClaim
    <2>5. Through(w)' => Through(w)
      <3>1. worker[w].stage \in Int /\ Store \in Int
        BY <1>t, ConstantsAssumption DEF WorkerRow, Stages, Metadata, Store, Activate
      <3> QED BY <1>n, <2>2, <3>1 DEF Through
    <2>6. \A x \in Workers : worker'[x].state # "idle" /\ Through(x)' => SameClaim(x) /\ Through(x)
      BY <2>2, <2>4, <2>5 DEF SameClaim, Through
    <2> QED BY <2>1, <2>3, <2>6, ChunksKept DEF SameChunks
  <1>8. ASSUME NEW w \in Workers, CommitStore(w) PROVE Chunks'
    <2> DEFINE r == worker[w].run
               v == run[r].version
    <2>1. /\ r \in Runs /\ v \in VersionIds /\ Current(w) /\ worker[w].state = "storing"
          /\ version' = [version EXCEPT ![v] = [version[v] EXCEPT !.chunkRun = r,
                                                                !.chunkFence = worker[w].fence]]
          /\ run' = [run EXCEPT ![r] = [run[r] EXCEPT !.lease = "live"]]
          /\ worker' = [worker EXCEPT ![w] = [worker[w] EXCEPT !.state = "stored"]]
      BY <1>8 DEF CommitStore, Current, Settled, Claims, Rows, References
    <2>2. /\ version'[v].chunkRun = r /\ version'[v].chunkFence = worker[w].fence
          /\ \A x \in VersionIds : version'[x].status = version[x].status
          /\ \A x \in VersionIds : x # v => SameChunks(x)
      <3> HIDE DEF r, v
      <3> QED BY <1>t, <2>1 DEF SameChunks, VersionRow
    <2>3. /\ \A x \in Workers : x # w => worker'[x] = worker[x]
          /\ worker'[w].run = r /\ worker'[w].fence = worker[w].fence
          /\ worker'[w].state = "stored" /\ worker'[w].stage = worker[w].stage
      BY <1>t, <2>1 DEF WorkerRow
    <2>4. CallsInStage'
      BY <2>1, <2>3 DEF Chunks, CallsInStage
    <2>5. \A x \in Runs : run'[x].version = run[x].version
      BY <1>t, <2>1 DEF RunRow
    <2>6. ASSUME NEW x \in Workers, Current(x)', Through(x)'
          PROVE  ChunksOf(x)'
      <3>1. CASE x = w
        BY <2>1, <2>2, <2>3, <2>5, <3>1 DEF ChunksOf
      <3>2. CASE x # w
        <4>1. worker'[x] = worker[x]
          BY <2>3, <3>2
        <4>2. SameClaim(x) /\ Through(x)
          BY <2>6, <4>1 DEF SameClaim, Through, Current
        <4>3. Current(x) /\ worker[x].run \in Runs
          BY <2>6, <4>2, CurrentKept DEF Settled
        <4>4. run[worker[x].run].version \in VersionIds
          BY <4>3 DEF Current, Settled, Claims, Rows, References
        <4>5. run[worker[x].run].version # v
          <5> SUFFICES ASSUME run[worker[x].run].version = v PROVE FALSE
            OBVIOUS
          <5>1. worker[x].run = r
            BY <2>1, <4>3
               DEF Current, LiveRuns, LiveStatus, Settled, Versions, OneLiveRunPerVersion
          <5>2. worker[x].fence = worker[w].fence
            BY <2>1, <4>3, <5>1 DEF Current
          <5> QED BY <2>1, <3>2, <4>3, <5>2
                  DEF Current, Settled, Claims, Fences, FencesIdentifyClaims
        <4>6. ChunksOf(x)
          BY <4>2, <4>3 DEF Chunks, Staging
        <4> HIDE DEF v, r
        <4> QED BY <2>2, <2>5, <4>1, <4>3, <4>4, <4>5, <4>6 DEF ChunksOf, SameChunks
      <3> QED BY <3>1, <3>2
    <2>7. PublishedByItsClaim'
      <3> SUFFICES ASSUME NEW x \in VersionIds, version'[x].status = "ACTIVE"
                   PROVE  \E q \in Runs : /\ run'[q].version = x
                                          /\ run'[q].status = "SUCCEEDED"
                                          /\ version'[x].chunkRun = q
                                          /\ version'[x].chunkFence = run'[q].fence
        BY DEF PublishedByItsClaim
      <3>1. version[x].status = "ACTIVE"
        BY <2>2
      <3>2. x # v
        BY <2>1, <3>1 DEF Current, Settled, Versions, RunningAgrees
      <3>3. SameChunks(x)
        BY <2>2, <3>2
      <3> QED BY <3>1, <3>3, PublishedKept DEF Settled, Chunks
    <2> QED BY <2>4, <2>6, <2>7 DEF Chunks, Staging
  <1>9. ASSUME NEW w \in Workers, FinalizeSuperseded(w) PROVE Chunks'
    <2> DEFINE v == run[worker[w].run].version
    <2>1. /\ v \in VersionIds
          /\ version' = [version EXCEPT ![v] = [version[v] EXCEPT !.status = "SUPERSEDED"]]
          /\ Released(w) \/ UNCHANGED worker
      BY <1>9, CurrentClaim DEF FinalizeSuperseded, Answered, Settled, Claims
    <2>2. \A x \in Workers : worker'[x] = worker[x] \/ worker'[x].state = "idle"
      BY <1>t, <2>1, ReleasedType
    <2> HIDE DEF v
    <2> QED BY <1>2, <1>3, <2>1, <2>2
  <1>10. ASSUME NEW w \in Workers, NEW code, FailFinal(w, code) PROVE Chunks'
    <2> DEFINE v == run[worker[w].run].version
               s == IF version[v].status = "PROCESSING" THEN "FAILED" ELSE version[v].status
    <2>1. /\ v \in VersionIds /\ Released(w) /\ run[worker[w].run].status = "RUNNING"
          /\ worker[w].run \in Runs
          /\ version' = [version EXCEPT ![v] = [version[v] EXCEPT !.status = s]]
      BY <1>10
         DEF FailFinal, FailedVersion, Writable, Current, Settled, Claims, Rows, References
    <2>2. \A x \in Workers : worker'[x] = worker[x] \/ worker'[x].state = "idle"
      BY <1>t, <2>1, ReleasedType
    <2>3. s # "ACTIVE"
      BY <2>1 DEF Settled, Versions, RunningAgrees
    <2> HIDE DEF v, s
    <2> QED BY <1>2, <1>3, <2>1, <2>2, <2>3
  <1>11. ASSUME NEW w \in Workers, FinalizeActivated(w) PROVE Chunks'
    <2> DEFINE r == worker[w].run
               v == run[r].version
    <2>1. /\ r \in Runs /\ v \in VersionIds /\ Current(w) /\ Through(w)
          /\ version' = [x \in VersionIds |->
               IF x = v THEN [version[x] EXCEPT !.status = "ACTIVE"]
               ELSE IF x = <<v[1], doc[v[1]].active>> /\ version[x].status = "ACTIVE"
                 THEN [version[x] EXCEPT !.status = "SUPERSEDED"]
               ELSE version[x]]
          /\ run' = [run EXCEPT ![r] = Finished(run[r], "SUCCEEDED")]
          /\ Released(w) \/ UNCHANGED worker
      BY <1>11, CurrentClaim
         DEF FinalizeActivated, Answered, Through, Settled, Claims, Chunks, CallsInStage
    <2>2. \A x \in Workers : worker'[x] = worker[x] \/ worker'[x].state = "idle"
      BY <1>t, <2>1, ReleasedType
    <2>3. CallsInStage'
      BY <2>2 DEF Chunks, CallsInStage
    <2>4. ASSUME NEW x \in VersionIds
          PROVE  SameChunks(x) /\ (x # v /\ version'[x].status = "ACTIVE"
                                     => version[x].status = "ACTIVE")
      <3>1. version[x] \in VersionRow
        BY <1>t
      <3>2. \/ version'[x] = version[x]
            \/ x = v /\ version'[x] = [version[x] EXCEPT !.status = "ACTIVE"]
            \/ version'[x] = [version[x] EXCEPT !.status = "SUPERSEDED"]
        BY <2>1
      <3> HIDE DEF v
      <3> QED BY <3>1, <3>2 DEF SameChunks, VersionRow
    <2>5. Staging'
      BY <2>2, <2>4, StagingKept DEF Settled, Chunks, SameClaim, Through
    <2>6. /\ run'[r].version = v /\ run'[r].status = "SUCCEEDED"
          /\ run'[r].fence = worker[w].fence
      <3>1. run'[r] = Finished(run[r], "SUCCEEDED")
        BY <1>t, <2>1
      <3>2. run[r].fence = worker[w].fence
        BY <2>1 DEF Current
      <3> QED BY <1>t, <2>1, <3>1, <3>2, FinishedFields
    <2>7. version'[v].chunkRun = r /\ version'[v].chunkFence = worker[w].fence
      <3>1. version[v].chunkRun = r /\ version[v].chunkFence = worker[w].fence
        BY <2>1 DEF Chunks, Staging, ChunksOf
      <3>2. SameChunks(v)
        BY <2>1, <2>4
      <3> QED BY <3>1, <3>2 DEF SameChunks
    <2>8. PublishedByItsClaim'
      <3> SUFFICES ASSUME NEW x \in VersionIds, version'[x].status = "ACTIVE"
                   PROVE  \E q \in Runs : /\ run'[q].version = x
                                          /\ run'[q].status = "SUCCEEDED"
                                          /\ version'[x].chunkRun = q
                                          /\ version'[x].chunkFence = run'[q].fence
        BY DEF PublishedByItsClaim
      <3>1. CASE x = v
        BY <2>1, <2>6, <2>7, <3>1
      <3>2. CASE x # v
        BY <2>4, <3>2, PublishedKept DEF Settled, Chunks
      <3> QED BY <3>1, <3>2
    <2> QED BY <2>3, <2>5, <2>8 DEF Chunks
  <1>12. ASSUME NEW w \in Workers, NEW code,
                FailRetriable(w, code) \/ StaleFence(w) \/ WorkerStops(w)
         PROVE  Chunks'
    <2>1. UNCHANGED version /\ Released(w)
      BY <1>12 DEF FailRetriable, StaleFence, WorkerStops
    <2> QED BY <1>1, <1>t, <2>1, ReleasedType
  <1>13. CASE UNCHANGED <<version, worker>>
    BY <1>1, <1>13
  <1> QED
    BY <1>4, <1>5, <1>6, <1>7, <1>8, <1>9, <1>10, <1>11, <1>12, <1>13
       DEF Next, Register, ManualRetry, RetryRequest, RetryAnswer, Poll, Process, Finalize, Fail,
           Clock, vars, RegisterCheck, RegisterAbort, RetryBegin, RetryEnds, ClaimNothing,
           LeaseExpires, LeaseLapses, RetryFallsDue

\* With the layers below, the layer holds at all times.
LEMMA ChunksAlways == Spec => [](Settled /\ Chunks)
  <1>1. Init => Chunks BY ChunksInit
  <1>2. Settled /\ Chunks /\ [Next]_vars => Chunks' BY ChunksNext
  <1>3. Spec => []Settled BY VersionsAlways DEF Settled
  <1> QED BY <1>1, <1>2, <1>3, PTL DEF Spec

-----------------------------------------------------------------------------
\* The chunks a search of an active version reads were staged by the very
\* claim that finalized it, although Finalize compares only the run and a run
\* can be claimed again between StoreChunks and Finalize.
THEOREM SearchesReadOneClaim == Spec => []PublishedByItsClaim
  <1>1. Chunks => PublishedByItsClaim BY DEF Chunks
  <1> QED BY <1>1, ChunksAlways, PTL

\* No StoreChunks, of a retry or of a worker that lost its claim, replaces the
\* chunks of a version while it is active.
THEOREM PublishedChunksKept == Spec => PublishedChunksStay
  <1>1. ASSUME Settled, [Next]_vars, NEW v \in VersionIds, version[v].status = "ACTIVE"
        PROVE  SameChunks(v)
    <2>t. version \in [VersionIds -> VersionRow]
      BY <1>1 DEF Settled, Claims, Rows, TypeOK
    <2>1. CASE UNCHANGED version
      BY <2>1 DEF SameChunks
    <2>2. CASE \E x \in VersionIds : \E s : version' = [version EXCEPT ![x].status = s]
      <3>1. PICK x, s : version' = [version EXCEPT ![x] = [version[x] EXCEPT !.status = s]]
        BY <2>2
      <3> QED BY <2>t, <3>1 DEF SameChunks, VersionRow
    <2>3. ASSUME NEW q \in Requests, NEW d \in Docs, NEW r \in Runs, RegisterCommit(q, d, r)
          PROVE  SameChunks(v)
      <3>1. <<d, doc[d].next>> \in VersionIds
        BY <1>1, <2>3 DEF RegisterCommit, VersionIds, Settled, Claims, Rows, TypeOK, DocRow
      <3> QED BY <2>2, <2>3, <3>1 DEF RegisterCommit
    <2>4. ASSUME NEW c \in Runs, Retry(c) PROVE SameChunks(v)
      BY <1>1, <2>2, <2>4, RetryingRun DEF Retry, Settled, Claims
    <2>5. ASSUME NEW w \in Workers, NEW r \in Runs, ClaimNext(w, r) PROVE SameChunks(v)
      <3>1. run[r].version \in VersionIds
        BY <1>1, <2>5 DEF ClaimNext, Claimable, Expired, Settled, Claims, Rows, References
      <3> QED BY <2>2, <2>5, <3>1 DEF ClaimNext
    <2>6. ASSUME NEW w \in Workers, CommitStore(w) PROVE SameChunks(v)
      <3> DEFINE x == run[worker[w].run].version
      <3>1. /\ x \in VersionIds
            /\ version' = [version EXCEPT ![x] = [version[x] EXCEPT !.chunkRun = worker[w].run,
                                                                  !.chunkFence = worker[w].fence]]
        BY <1>1, <2>6 DEF CommitStore, Current, Settled, Claims, Rows, References
      <3>2. x # v
        BY <1>1, <2>6
           DEF CommitStore, Current, Settled, Claims, Rows, References, Versions, RunningAgrees
      <3> HIDE DEF x
      <3> QED BY <2>t, <3>1, <3>2 DEF SameChunks
    <2>7. ASSUME NEW w \in Workers, FinalizeSuperseded(w) \/ FinalizeActivated(w)
          PROVE  SameChunks(v)
      <3>1. version'[v] = version[v] \/ \E s : version'[v] = [version[v] EXCEPT !.status = s]
        <4>1. CASE FinalizeSuperseded(w)
          <5>1. version' = [version EXCEPT ![run[worker[w].run].version] =
                             [version[run[worker[w].run].version] EXCEPT !.status = "SUPERSEDED"]]
            BY <4>1 DEF FinalizeSuperseded
          <5> QED BY <2>t, <5>1
        <4>2. CASE FinalizeActivated(w)
          BY <4>2 DEF FinalizeActivated
        <4> QED BY <2>7, <4>1, <4>2
      <3> QED BY <2>t, <3>1 DEF SameChunks, VersionRow
    <2>8. ASSUME NEW w \in Workers, NEW code, FailFinal(w, code) PROVE SameChunks(v)
      <3>1. version'[v] = version[v] \/ \E s : version'[v] = [version[v] EXCEPT !.status = s]
        BY <2>8, <2>t DEF FailFinal, FailedVersion
      <3> QED BY <2>t, <3>1 DEF SameChunks, VersionRow
    <2> QED
      BY <1>1, <2>1, <2>3, <2>4, <2>5, <2>6, <2>7, <2>8
         DEF Next, Register, ManualRetry, RetryRequest, RetryAnswer, Poll, Process, Finalize, Fail,
             Clock, vars, RegisterCheck, RegisterAbort, RetryBegin, RetryEnds, ClaimNothing,
             SetStage, BeginStore, BeginFinalize, FailRetriable, StaleFence, WorkerStops,
             LeaseExpires, LeaseLapses, RetryFallsDue
  <1>2. Settled /\ [Next]_vars =>
          [\A v \in VersionIds : version[v].status = "ACTIVE" =>
             /\ version'[v].chunkRun = version[v].chunkRun
             /\ version'[v].chunkFence = version[v].chunkFence]_vars
    BY <1>1 DEF SameChunks
  <1> QED BY <1>2, VersionsAlways, PTL DEF Spec, PublishedChunksStay, Settled

-----------------------------------------------------------------------------
(* The refinement of VersionPublication.                                   *)

AbstractState == [v \in VersionIds |-> Published(version[v].status)]
AbstractShown == [d \in Docs |-> doc[d].active]

AbstractVars == <<AbstractState, AbstractShown, overlapped>>

AbstractStep == [Publication!Next]_AbstractVars

\* The refinement mapping, status by status.
LEMMA PublishedStatus ==
  /\ Published("ABSENT") = "absent"
  /\ Published("QUEUED") = "pending"
  /\ Published("PROCESSING") = "pending"
  /\ Published("ACTIVE") = "visible"
  /\ Published("SUPERSEDED") = "hidden"
  /\ Published("FAILED") = "failed"
  BY DEF Published

\* A step that publishes, accepts, drops or reopens no version stutters, or is
\* the one from which publications may overlap.
LEMMA Stutter ==
  ASSUME Rows, [Next]_vars,
         \A d \in Docs : doc'[d].active = doc[d].active,
         \A v \in VersionIds :
           \/ version'[v].status = version[v].status
           \/ {version[v].status, version'[v].status} \subseteq {"QUEUED", "PROCESSING"}
  PROVE  AbstractStep
  <1>1. AbstractState' = AbstractState
    <2>1. \A v \in VersionIds : Published(version'[v].status) = Published(version[v].status)
      BY PublishedStatus
    <2> QED BY <2>1 DEF AbstractState
  <1>2. AbstractShown' = AbstractShown
    BY DEF AbstractShown
  <1>3. overlapped' = overlapped \/ overlapped' = TRUE
    <2>1. overlapped \in BOOLEAN
      BY DEF Rows, TypeOK
    <2>2. CASE overlapped' = overlapped
      BY <2>2
    <2>3. ASSUME NEW w \in Workers, NEW r \in Runs, ClaimNext(w, r)
          PROVE  overlapped' = overlapped \/ overlapped' = TRUE
      <3>1. overlapped' = (overlapped \/ LiveLeases # {})
        BY <2>3, Zenon DEF ClaimNext
      <3> QED BY <2>1, <3>1, Zenon
    <2> QED BY <2>2, <2>3, OnlyClaims
  <1>4. CASE overlapped' = overlapped
    BY <1>1, <1>2, <1>4 DEF AbstractStep, AbstractVars
  <1>5. CASE overlapped' = TRUE
    <2>1. Publication!Overlap
      BY <1>1, <1>2, <1>5 DEF Publication!Overlap, AbstractState, AbstractShown
    <2> QED BY <2>1 DEF AbstractStep, Publication!Next
  <1> QED BY <1>3, <1>4, <1>5

\* A step of one version that overlaps nothing is a step.
LEMMA VersionStep ==
  ASSUME NEW v \in VersionIds, Publication!VersionMoves(v), overlapped' = overlapped
  PROVE  AbstractStep
  BY DEF AbstractStep, Publication!Next, Publication!Versions, VersionIds

\* A step that changes the status of one version and no document's active one.
LEMMA OneStatus ==
  ASSUME NEW v \in VersionIds,
         \A d \in Docs : doc'[d].active = doc[d].active,
         \A x \in VersionIds : x # v => version'[x].status = version[x].status
  PROVE  /\ AbstractState' = [AbstractState EXCEPT ![v] = Published(version'[v].status)]
         /\ AbstractShown' = AbstractShown
  BY DEF AbstractState, AbstractShown

\* A step that shows a pending version and hides the one shown before.
LEMMA PublishSteps ==
  ASSUME NEW v \in VersionIds,
         AbstractState[v] = "pending",
         AbstractShown[v[1]] < v[2] \/ overlapped,
         overlapped' = overlapped,
         AbstractShown' = [AbstractShown EXCEPT ![v[1]] = v[2]],
         AbstractState' = [x \in VersionIds |->
                             IF x = v THEN "visible"
                             ELSE IF x = <<v[1], AbstractShown[v[1]]>> THEN "hidden"
                             ELSE AbstractState[x]]
  PROVE  AbstractStep
  <1>1. Publication!Publish(v)
    BY DEF Publication!Publish, Publication!Versions, AbstractState, AbstractShown, VersionIds
  <1> QED BY <1>1, VersionStep DEF Publication!VersionMoves

\* The initial state maps to the initial state.
LEMMA RefinesInit == Init => Publication!Init
  BY PublishedStatus DEF Init, Publication!Init, Publication!Versions, VersionIds, NoVersion, NoDoc

\* Every step maps to a step or to none.
LEMMA RefinesNext == Claims /\ Alone /\ Versions /\ [Next]_vars => AbstractStep
  <1> SUFFICES ASSUME Claims, Alone, Versions, [Next]_vars PROVE AbstractStep
    OBVIOUS
  <1> USE DEF Publication!Versions
  <1>t. /\ run \in [Runs -> RunRow] /\ version \in [VersionIds -> VersionRow]
        /\ doc \in [Docs -> DocRow]
    BY DEF Claims, Rows, TypeOK
  <1>v. ASSUME NEW v \in VersionIds
        PROVE  /\ v[1] \in Docs /\ v[2] \in Nat /\ doc[v[1]].active \in Nat
               /\ doc[v[1]].next \in Nat /\ AbstractState[v] = Published(version[v].status)
               /\ AbstractShown[v[1]] = doc[v[1]].active
    BY <1>t, VersionParts, ConstantsAssumption DEF DocRow, AbstractState, AbstractShown
  <1>s. ASSUME NEW v \in VersionIds, NEW s,
               version' = [version EXCEPT ![v] = [version[v] EXCEPT !.status = s]]
        PROVE  /\ version'[v].status = s
               /\ \A x \in VersionIds : x # v => version'[x].status = version[x].status
    BY <1>t, <1>s DEF VersionRow
  <1>1. ASSUME UNCHANGED <<doc, version>> PROVE AbstractStep
    BY <1>1, Stutter DEF Claims
  <1>2. ASSUME NEW q \in Requests, NEW d \in Docs, NEW r \in Runs, RegisterCommit(q, d, r)
        PROVE  AbstractStep
    <2> DEFINE v == <<d, doc[d].next>>
    <2>1. /\ v \in VersionIds /\ overlapped' = overlapped
          /\ doc' = [doc EXCEPT ![d] = [doc[d] EXCEPT !.next = doc[d].next + 1]]
          /\ version' = [version EXCEPT ![v] = [version[v] EXCEPT !.status = "QUEUED"]]
      BY <1>2, <1>t DEF RegisterCommit, VersionIds, DocRow
    <2>2. \A x \in Docs : doc'[x].active = doc[x].active
      BY <1>t, <2>1 DEF DocRow
    <2>3. version[v].status = "ABSENT"
      BY <1>v, <2>1 DEF Versions, VersionAgrees
    <2>4. ASSUME NEW n \in 1 .. v[2] - 1 PROVE AbstractState[<<v[1], n>>] # "absent"
      <3>1. <<d, n>> \in VersionIds /\ n < doc[d].next
        BY <1>t, <2>1, <2>4, ConstantsAssumption DEF VersionIds, DocRow
      <3>2. version[<<d, n>>].status # "ABSENT" /\ version[<<d, n>>] \in VersionRow
        BY <1>t, <1>v, <3>1 DEF Versions, VersionAgrees
      <3> QED BY <1>v, <3>1, <3>2, PublishedStatus DEF VersionRow
    <2> HIDE DEF v
    <2>5. Publication!Accept(v)
      <3>1. /\ version'[v].status = "QUEUED"
            /\ \A x \in VersionIds : x # v => version'[x].status = version[x].status
        BY <1>s, <2>1
      <3>2. /\ AbstractState' = [AbstractState EXCEPT ![v] = "pending"]
            /\ AbstractShown' = AbstractShown
        BY <2>1, <2>2, <3>1, OneStatus, PublishedStatus
      <3>3. AbstractState[v] = "absent"
        BY <1>v, <2>1, <2>3, PublishedStatus
      <3> QED BY <2>4, <3>2, <3>3 DEF Publication!Accept, AbstractState, AbstractShown
    <2> QED BY <2>1, <2>5, VersionStep DEF Publication!VersionMoves
  <1>3. ASSUME NEW v \in VersionIds, NEW s, UNCHANGED doc,
               version' = [version EXCEPT ![v] = [version[v] EXCEPT !.status = s]]
        PROVE  /\ AbstractState' = [AbstractState EXCEPT ![v] = Published(s)]
               /\ AbstractShown' = AbstractShown
    <2>1. /\ version'[v].status = s
          /\ \A x \in VersionIds : x # v => version'[x].status = version[x].status
      BY <1>s, <1>3
    <2> QED BY <1>3, <2>1, OneStatus
  <1>4. ASSUME NEW c \in Runs, Retry(c) PROVE AbstractStep
    <2> DEFINE v == run[retrying.parent].version
    <2>1. /\ v \in VersionIds /\ UNCHANGED <<doc, overlapped>>
          /\ version' = [version EXCEPT ![v] = [version[v] EXCEPT !.status = "QUEUED"]]
          /\ version[v].status = "FAILED"
      BY <1>4, RetryingRun DEF Retry, Retriable, Claims
    <2> HIDE DEF v
    <2>2. AbstractState[v] = "failed"
      BY <1>v, <2>1, PublishedStatus
    <2>3. AbstractState' = [AbstractState EXCEPT ![v] = "pending"] /\ AbstractShown' = AbstractShown
      <3>1. v \in VersionIds /\ UNCHANGED doc
        BY <2>1
      <3> QED BY <1>3, <2>1, <3>1, PublishedStatus
    <2>4. Publication!Reopen(v)
      BY <2>2, <2>3 DEF Publication!Reopen, AbstractState, AbstractShown
    <2> QED BY <2>1, <2>4, VersionStep DEF Publication!VersionMoves
  <1>5. ASSUME NEW w \in Workers, NEW r \in Runs, ClaimNext(w, r) PROVE AbstractStep
    <2> DEFINE v == run[r].version
               s == IF version[v].status = "QUEUED" THEN "PROCESSING" ELSE version[v].status
    <2>1. /\ v \in VersionIds /\ UNCHANGED doc
          /\ version' = [version EXCEPT ![v] = [version[v] EXCEPT !.status = s]]
      BY <1>5 DEF ClaimNext, Claimable, Expired, Claims, Rows, References
    <2>2. \/ s = version[v].status
          \/ {version[v].status, s} \subseteq {"QUEUED", "PROCESSING"}
      OBVIOUS
    <2> HIDE DEF v, s
    <2>3. /\ version'[v].status = s
          /\ \A x \in VersionIds : x # v => version'[x].status = version[x].status
      BY <1>s, <2>1
    <2> QED BY <2>1, <2>2, <2>3, Stutter DEF Claims
  <1>6. ASSUME NEW w \in Workers, CommitStore(w) PROVE AbstractStep
    <2> DEFINE r == worker[w].run
               v == run[r].version
    <2>1. /\ UNCHANGED doc
          /\ version' = [version EXCEPT ![v] = [version[v] EXCEPT !.chunkRun = r,
                                                                !.chunkFence = worker[w].fence]]
      BY <1>6 DEF CommitStore
    <2> HIDE DEF r, v
    <2>2. \A x \in VersionIds : version'[x].status = version[x].status
      BY <1>t, <2>1 DEF VersionRow
    <2> QED BY <2>1, <2>2, Stutter DEF Claims
  <1>7. ASSUME NEW w \in Workers, FinalizeSuperseded(w) PROVE AbstractStep
    <2> DEFINE v == run[worker[w].run].version
    <2>1. /\ v \in VersionIds /\ UNCHANGED <<doc, overlapped>>
          /\ version' = [version EXCEPT ![v] = [version[v] EXCEPT !.status = "SUPERSEDED"]]
          /\ version[v].status = "PROCESSING"
      BY <1>7, CurrentClaim DEF FinalizeSuperseded, Claims, Versions, RunningAgrees
    <2>n. \E number \in NumbersRead(v[1], worker[w].seen) : number > v[2]
      BY <1>7 DEF FinalizeSuperseded, Outranks
    <2> HIDE DEF v
    <2>2. AbstractState[v] = "pending" /\ AbstractShown[v[1]] > v[2]
      BY <1>v, <2>1, <2>n, NumbersBounds, PublishedStatus
    <2>3. AbstractState' = [AbstractState EXCEPT ![v] = "hidden"] /\ AbstractShown' = AbstractShown
      <3>1. v \in VersionIds /\ UNCHANGED doc
        BY <2>1
      <3> QED BY <1>3, <2>1, <3>1, PublishedStatus
    <2>4. Publication!Skip(v)
      BY <2>2, <2>3 DEF Publication!Skip, AbstractState, AbstractShown
    <2> QED BY <2>1, <2>4, VersionStep DEF Publication!VersionMoves
  <1>8. ASSUME NEW w \in Workers, NEW code, FailFinal(w, code) PROVE AbstractStep
    <2> DEFINE v == run[worker[w].run].version
    <2>1. /\ v \in VersionIds /\ UNCHANGED <<doc, overlapped>>
          /\ version' = [version EXCEPT ![v] = FailedVersion(version[v])]
          /\ version[v].status = "PROCESSING"
      BY <1>8, CurrentClaim DEF FailFinal, Writable, Claims, Versions, RunningAgrees
    <2> HIDE DEF v
    <2>2. version' = [version EXCEPT ![v] = [version[v] EXCEPT !.status = "FAILED"]]
      BY <2>1 DEF FailedVersion
    <2>3. AbstractState[v] = "pending"
      BY <1>v, <2>1, PublishedStatus
    <2>4. AbstractState' = [AbstractState EXCEPT ![v] = "failed"] /\ AbstractShown' = AbstractShown
      <3>1. v \in VersionIds /\ UNCHANGED doc
        BY <2>1
      <3> QED BY <1>3, <2>2, <3>1, PublishedStatus
    <2>5. Publication!Abandon(v)
      BY <2>3, <2>4 DEF Publication!Abandon, AbstractState, AbstractShown
    <2> QED BY <2>1, <2>5, VersionStep DEF Publication!VersionMoves
  <1>9. ASSUME NEW w \in Workers, FinalizeActivated(w) PROVE AbstractStep
    <2> DEFINE v == run[worker[w].run].version
               old == <<v[1], doc[v[1]].active>>
    <2>1. /\ v \in VersionIds /\ version[v].status = "PROCESSING" /\ overlapped' = overlapped
          /\ doc' = [doc EXCEPT ![v[1]] = [doc[v[1]] EXCEPT !.active = v[2]]]
          /\ version' = [x \in VersionIds |->
               IF x = v THEN [version[x] EXCEPT !.status = "ACTIVE"]
               ELSE IF x = old /\ version[x].status = "ACTIVE"
                 THEN [version[x] EXCEPT !.status = "SUPERSEDED"]
               ELSE version[x]]
      BY <1>9, CurrentClaim DEF FinalizeActivated, Claims, Versions, RunningAgrees
    <2>n. overlapped \/ ~(doc[v[1]].active > v[2])
      BY <1>9, NumberIsActive DEF FinalizeActivated, Outranks
    <2>2. ASSUME NEW x \in VersionIds
          PROVE  Published(version'[x].status) =
                   IF x = v THEN "visible"
                   ELSE IF x = <<v[1], AbstractShown[v[1]]>> THEN "hidden"
                   ELSE AbstractState[x]
      <3>1. version[x] \in VersionRow /\ version'[x] =
               IF x = v THEN [version[x] EXCEPT !.status = "ACTIVE"]
               ELSE IF x = old /\ version[x].status = "ACTIVE"
                 THEN [version[x] EXCEPT !.status = "SUPERSEDED"]
               ELSE version[x]
        BY <1>t, <2>1
      <3>2. version'[x].status = IF x = v THEN "ACTIVE"
                                 ELSE IF x = old /\ version[x].status = "ACTIVE" THEN "SUPERSEDED"
                                 ELSE version[x].status
        <4> HIDE DEF v, old
        <4> QED BY <3>1 DEF VersionRow
      <3>3. x = old => version[x].status = "ACTIVE"
        <4>1. version[x].status = "ACTIVE" <=> doc[x[1]].active = x[2]
          BY DEF Versions, VersionAgrees
        <4>2. x = old => x[1] = v[1] /\ x[2] = doc[v[1]].active
          OBVIOUS
        <4> HIDE DEF v, old
        <4> QED BY <4>1, <4>2
      <3>4. AbstractShown[v[1]] = doc[v[1]].active /\ AbstractState[x] = Published(version[x].status)
        BY <1>v, <2>1
      <3> HIDE DEF v
      <3> QED BY <3>2, <3>3, <3>4, PublishedStatus
    <2> HIDE DEF v, old
    <2>3. AbstractState' = [x \in VersionIds |->
                              IF x = v THEN "visible"
                              ELSE IF x = <<v[1], AbstractShown[v[1]]>> THEN "hidden"
                              ELSE AbstractState[x]]
      BY <2>2 DEF AbstractState
    <2>4. AbstractShown' = [AbstractShown EXCEPT ![v[1]] = v[2]]
      <3>1. v[1] \in Docs
        BY <1>v, <2>1
      <3>2. \A d \in Docs : doc'[d].active = IF d = v[1] THEN v[2] ELSE doc[d].active
        BY <1>t, <2>1, <3>1 DEF DocRow
      <3> QED BY <3>1, <3>2 DEF AbstractShown
    <2>5. AbstractState[v] = "pending" /\ AbstractShown[v[1]] = doc[v[1]].active
      BY <1>v, <2>1, PublishedStatus
    <2>6. AbstractShown[v[1]] < v[2] \/ overlapped
      <3>1. doc[v[1]].active # v[2]
        BY <2>1 DEF Versions, VersionAgrees
      <3>2. v[2] \in Nat /\ doc[v[1]].active \in Nat
        BY <1>v, <2>1
      <3> QED BY <2>n, <2>5, <3>1, <3>2
    <2>7. v \in VersionIds /\ overlapped' = overlapped
      BY <2>1
    <2> QED BY <2>3, <2>4, <2>5, <2>6, <2>7, PublishSteps
  <1> QED
    BY <1>1, <1>2, <1>4, <1>5, <1>6, <1>7, <1>8, <1>9
       DEF Next, Register, ManualRetry, RetryRequest, RetryAnswer, Poll, Process, Finalize, Fail,
           Clock, vars, RegisterCheck, RegisterAbort, RetryBegin, RetryEnds, ClaimNothing,
           SetStage, BeginStore, BeginFinalize, FailRetriable, StaleFence, WorkerStops,
           LeaseExpires, LeaseLapses, RetryFallsDue

-----------------------------------------------------------------------------
\* Whatever the queue and its workers do, the versions of the documents behave
\* as VersionPublication says: accepted in order, each ending visible, hidden
\* or failed, a document showing one version for good once it shows one, and
\* replacing it by a higher one until claims overlap; although Finalize and
\* Retry may read a number that is out of date.
THEOREM QueueImplementsPublication == Spec => ImplementsPublication
  <1>1. Init => Publication!Init
    BY RefinesInit
  <1>2. Claims /\ Alone /\ Versions /\ [Next]_vars => [Publication!Next]_(Publication!vars)
    BY RefinesNext DEF AbstractStep, AbstractVars, AbstractState, AbstractShown, Publication!vars
  <1> QED BY <1>1, <1>2, VersionsAlways, PTL DEF Spec, ImplementsPublication, Publication!Spec
=============================================================================
