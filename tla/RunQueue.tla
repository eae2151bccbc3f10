------------------------------ MODULE RunQueue ------------------------------
(***************************************************************************)
(* The processing-run queue of the Postgres store and the workers that     *)
(* drain it (internal/adapters/postgres/store.go, internal/modules/        *)
(* processing/processor.go, cmd/worker/main.go).                           *)
(*                                                                         *)
(* The store keeps one row per document, document version and processing   *)
(* run.  A worker leases the next claimable run under a fresh fencing      *)
(* token, moves it through its stages, stages the version's search chunks  *)
(* and finalizes the run, which publishes the version, or fails it.  A     *)
(* lease is renewed by a heartbeat and can expire at any moment (a slow    *)
(* worker, a lost heartbeat, a crash); the next poll of any worker then    *)
(* puts the run back in the queue.                                         *)
(*                                                                         *)
(* Granularity: a store call is one step, its transaction, with four       *)
(* exceptions that the code makes long or unprotected:                     *)
(*   - StoreChunks verifies the claim and locks the run's row, writes in   *)
(*     batches, and renews the lease before its commit: BeginStore and     *)
(*     CommitStore;                                                        *)
(*   - Register counts the live runs and inserts its own without a lock    *)
(*     between them: RegisterCheck and RegisterCommit;                     *)
(*   - Finalize and Retry lock the document's row and read the number of   *)
(*     its active version through an outer join in one statement.  If the  *)
(*     document changes while the statement waits for the lock, the join   *)
(*     finds nothing and the number is 0 (RowLocks has the statements one  *)
(*     by one): BeginFinalize, RetryBegin, and the steps that end them.    *)
(* The order in which claimable runs are taken (their timestamps) is       *)
(* abstracted: any claimable run can be the next one.                      *)
(***************************************************************************)
EXTENDS Integers, Sequences, FiniteSets

CONSTANTS
  Docs,        \* documents that may be registered
  Runs,        \* identities of processing runs
  Workers,     \* worker processes
  Requests,    \* registration transactions that can be open at once
  RetryKeys,   \* idempotency keys of manual retries
  None,        \* SQL NULL
  NumCompute,  \* stages between METADATA and STORE (PARSE, CHUNK, EMBED)
  MaxLive,     \* maxLiveRuns (21)
  MaxAttempts, \* automatic attempts of a run (3)
  MaxVersion,  \* bound: versions of a document
  MaxFaults    \* bound: stopped workers and lapsed leases

ASSUME ConstantsAssumption ==
  /\ None \notin Runs
  /\ None \notin RetryKeys
  /\ None \notin Docs \X (1 .. MaxVersion)
  /\ NumCompute \in Nat
  /\ MaxLive \in Nat
  /\ MaxAttempts \in Nat \ {0}
  /\ MaxVersion \in Nat
  /\ MaxFaults \in Nat

VARIABLES
  doc,         \* document rows
  version,     \* document_version rows, and the search_chunk rows staged for each
  run,         \* processing_run rows
  changeLog,   \* change_log, the events of each run in order
  nextFence,   \* queue_control.next_fencing_token
  registering, \* registrations that passed the queue check and did not insert yet
  retrying,    \* the retry that holds queue_control's lock, if any
  worker,      \* the claim each worker process holds in memory
  faults,      \* stopped workers and lapsed leases so far
  overlapped   \* history: a run was leased in the gap another lease left (SingleFlight)

vars == <<doc, version, run, changeLog, nextFence, registering, retrying, worker, faults,
          overlapped>>

-----------------------------------------------------------------------------
(* The rows.  A version is identified by its document and its number.  A   *)
(* stage is its position in the pipeline.                                  *)

VersionIds == Docs \X (1 .. MaxVersion)

Metadata == 1
Store    == NumCompute + 2
Activate == NumCompute + 3
Stages   == Metadata .. Activate

RetriableCodes == {"INTERNAL"}       \* stands for TEMPORARILY_UNAVAILABLE too
FinalCodes     == {"INVALID_INPUT"}  \* stands for PROFILE_MISMATCH too
ErrorCodes     == RetriableCodes \cup FinalCodes \cup {"TRANSIENT_EXHAUSTED"}

LiveStatus     == {"QUEUED", "RUNNING"}
FinishedStatus == {"SUCCEEDED", "FAILED", "SUPERSEDED"}

\* next = 1 and active = 0 stand for a document that does not exist.
DocRow == [next : 1 .. MaxVersion + 1, active : 0 .. MaxVersion]

\* chunkRun is staged_by_run_id of the version's chunks; chunkFence records
\* the claim that wrote them.
VersionRow ==
  [status : {"ABSENT", "QUEUED", "PROCESSING", "ACTIVE", "FAILED", "SUPERSEDED"},
   chunkRun : Runs \cup {None}, chunkFence : Nat]

\* lease joins lease_owner and lease_until, which are set and cleared
\* together; retryAt is next_automatic_retry_at.
RunRow ==
  [status : {"ABSENT"} \cup LiveStatus \cup FinishedStatus,
   version : VersionIds \cup {None}, fence : Nat,
   lease : {"none", "live", "expired"}, attempts : 0 .. MaxAttempts,
   retryAt : {"none", "waiting", "due"}, error : ErrorCodes \cup {None},
   parent : Runs \cup {None}, key : RetryKeys \cup {None}]

Events == {"VERSION_REGISTERED", "VERSION_RETRY_QUEUED", "AUTOMATIC_RETRY_SCHEDULED",
           "VERSION_ACTIVATED", "VERSION_SUPERSEDED", "VERSION_FAILED"}

\* What a worker knows of its claim: knowledge.ClaimedRun and the stage
\* variable of Processor.Process.  "storing" is inside StoreChunks, "stored"
\* after it, "finalizing" inside Finalize; seen is the document's active
\* version when Finalize verified the claim.
WorkerRow ==
  [state : {"idle", "working", "storing", "stored", "finalizing"}, run : Runs \cup {None},
   fence : Nat, attempt : 0 .. MaxAttempts, stage : Stages, seen : 0 .. MaxVersion]

\* The transaction of Retry; seen as in WorkerRow.
RetryRow == [parent : Runs, key : RetryKeys, seen : 0 .. MaxVersion]

NoDoc     == [next |-> 1, active |-> 0]
NoVersion == [status |-> "ABSENT", chunkRun |-> None, chunkFence |-> 0]
NoRun     == [status |-> "ABSENT", version |-> None, fence |-> 0,
              lease |-> "none", attempts |-> 0, retryAt |-> "none", error |-> None,
              parent |-> None, key |-> None]
NoRetry   == [parent |-> None, key |-> None, seen |-> 0]
IdleWorker == [state |-> "idle", run |-> None, fence |-> 0, attempt |-> 0,
               stage |-> Metadata, seen |-> 0]

-----------------------------------------------------------------------------
(* What the queries select.                                                *)

LiveRuns == {r \in Runs : run[r].status \in LiveStatus}

Expired == {r \in Runs : run[r].status = "RUNNING" /\ run[r].lease = "expired"}

LiveLeases == {r \in Runs : run[r].status = "RUNNING" /\ run[r].lease = "live"}

\* Mutant: a run that waits for its automatic retry is not looked at.
ClaimableQueued == {r \in Runs : run[r].status = "QUEUED"}

Claimable == {r \in Runs : \/ run[r].status = "QUEUED"
                           \/ /\ run[r].status = "RUNNING"
                              /\ run[r].lease = "none"
                              /\ run[r].retryAt = "due"}

\* Rows locked by a StoreChunks or Finalize transaction.
Locked == {r \in Runs : \E w \in Workers :
             worker[w].state \in {"storing", "finalizing"} /\ worker[w].run = r}

\* Mutant: the fence is not compared.
CurrentByRun(w) ==
  worker[w].state # "idle" /\ run[worker[w].run].status = "RUNNING"

\* Mutant: neither the fence nor the status is compared.
CurrentUnchecked(w) == worker[w].state # "idle"

\* The worker still has the claim it thinks it has: same fence, run not ended.
Current(w) ==
  /\ worker[w].state # "idle"
  /\ run[worker[w].run].status = "RUNNING"
  /\ run[worker[w].run].fence = worker[w].fence

\* Mutant: the fence alone is compared.
WritableByFence(w) ==
  worker[w].state # "idle" /\ run[worker[w].run].fence = worker[w].fence

\* verifyWritableClaim, and the WHERE of SetStage and Heartbeat.
Writable(w) == Current(w) /\ run[worker[w].run].lease = "live"

Held(r) == \E w \in Workers : worker[w].run = r /\ Current(w)

\* What "SELECT ... COALESCE(active.version_number, 0) ... FOR UPDATE OF d" may
\* read of a document whose active version was seen before the statement: the
\* active version's number, or 0 if the document has changed while the
\* statement waited for its row, which is read again, unlike the row joined to it.
NumbersRead(d, seen) == {doc[d].active} \cup IF doc[d].active = seen THEN {} ELSE {0}

\* Mutant: the number read is not looked at.
OutranksNever(number, v) == FALSE

\* The number read is that of a higher version.
Outranks(number, v) == number > v[2]

-----------------------------------------------------------------------------
(* How the inserts and updates write a row.                                *)

\* Mutant: the run is inserted for the document's first version.
InsertedFirst(v, parent, key) ==
  [status |-> "QUEUED", version |-> <<v[1], 1>>, fence |-> 0, lease |-> "none", attempts |-> 0,
   retryAt |-> "none", error |-> None, parent |-> parent, key |-> key]

Inserted(v, parent, key) ==
  [status |-> "QUEUED", version |-> v, fence |-> 0, lease |-> "none", attempts |-> 0,
   retryAt |-> "none", error |-> None, parent |-> parent, key |-> key]

\* Mutant: a reclaim leaves the attempt counted.
ReclaimedCounted(row) ==
  [row EXCEPT !.status = "QUEUED", !.fence = 0, !.lease = "none", !.retryAt = "none"]

\* Mutant: a reclaim starts the count afresh.
ReclaimedAfresh(row) ==
  [row EXCEPT !.status = "QUEUED", !.fence = 0, !.lease = "none", !.attempts = 0,
              !.retryAt = "none"]

Reclaimed(row) ==
  [row EXCEPT !.status = "QUEUED", !.fence = 0, !.lease = "none",
              !.attempts = IF @ > 0 THEN @ - 1 ELSE 0, !.retryAt = "none"]

\* Mutant: a claim counts twice.
LeasedTwice(row, token) ==
  [row EXCEPT !.status = "RUNNING", !.fence = token, !.lease = "live",
              !.attempts = @ + 2, !.retryAt = "none"]

Leased(row, token) ==
  [row EXCEPT !.status = "RUNNING", !.fence = token, !.lease = "live",
              !.attempts = @ + 1, !.retryAt = "none"]

RetryScheduled(row, code) ==
  [row EXCEPT !.error = code, !.fence = 0, !.lease = "none", !.retryAt = "waiting"]

Failed(row, code) ==
  [row EXCEPT !.status = "FAILED", !.error = code, !.lease = "none"]

\* finishRun
Finished(row, status) ==
  [row EXCEPT !.status = status, !.lease = "none"]

\* Mutant: the version is looked for in the wrong state.
FailedVersionQueued(row) ==
  [row EXCEPT !.status = IF @ = "QUEUED" THEN "FAILED" ELSE @]

FailedVersion(row) ==
  [row EXCEPT !.status = IF @ = "PROCESSING" THEN "FAILED" ELSE @]

Logged(r, event) == changeLog' = [changeLog EXCEPT ![r] = Append(@, event)]

Released(w) == worker' = [worker EXCEPT ![w] = IdleWorker]

Init ==
  /\ doc = [d \in Docs |-> NoDoc]
  /\ version = [v \in VersionIds |-> NoVersion]
  /\ run = [r \in Runs |-> NoRun]
  /\ changeLog = [r \in Runs |-> <<>>]
  /\ nextFence = 1
  /\ registering = {}
  /\ retrying = NoRetry
  /\ worker = [w \in Workers |-> IdleWorker]
  /\ faults = 0
  /\ overlapped = FALSE

-----------------------------------------------------------------------------
(* The web server: registrations and manual retries.                       *)

\* Mutant: whoever asks is admitted.
HasRoomAlways == TRUE

HasRoom == Cardinality(LiveRuns) < MaxLive

\* Bounds: transactions that insert begin only as long as there is something
\* left to insert.
RunLeft     == \E r \in Runs : run[r].status = "ABSENT"
VersionLeft == \E d \in Docs : doc[d].next <= MaxVersion

\* Register counts the live runs and refuses when the queue is full.
RegisterCheck(q) ==
  /\ q \notin registering
  /\ RunLeft /\ VersionLeft
  /\ HasRoom
  /\ registering' = registering \cup {q}
  /\ UNCHANGED <<doc, version, run, changeLog, nextFence, retrying, worker, faults,
                 overlapped>>

\* ... then takes the document's next version number under the document's row
\* lock (a new document starts with version 1) and inserts version and run.
RegisterCommit(q, d, r) ==
  LET v == <<d, doc[d].next>> IN
  /\ q \in registering
  /\ run[r].status = "ABSENT"
  /\ doc[d].next <= MaxVersion
  /\ doc' = [doc EXCEPT ![d].next = @ + 1]
  /\ version' = [version EXCEPT ![v].status = "QUEUED"]
  /\ run' = [run EXCEPT ![r] = Inserted(v, None, None)]
  /\ Logged(r, "VERSION_REGISTERED")
  /\ registering' = registering \ {q}
  /\ UNCHANGED <<nextFence, retrying, worker, faults, overlapped>>

\* A lock timeout, a lost connection or a cancelled request: rollback.
RegisterAbort(q) ==
  /\ q \in registering
  /\ registering' = registering \ {q}
  /\ UNCHANGED <<doc, version, run, changeLog, nextFence, retrying, worker, faults,
                 overlapped>>

\* Retry of a run under a request key not seen before.  A known key answers
\* with the run it created, or with a conflict, and changes nothing.
RetryBegin(parent, key) ==
  /\ retrying = NoRetry
  /\ \A r \in Runs : run[r].key # key
  /\ run[parent].status # "ABSENT"
  /\ RunLeft
  /\ retrying' = [parent |-> parent, key |-> key,
                  seen |-> doc[run[parent].version[1]].active]
  /\ UNCHANGED <<doc, version, run, changeLog, nextFence, registering, worker, faults,
                 overlapped>>

\* Mutant: the version is not looked at.
RetriableAnyVersion(parent) ==
  /\ run[parent].status = "FAILED"
  /\ run[parent].error = "TRANSIENT_EXHAUSTED"

\* A run the operator may retry, by its row and its version's, which are read
\* under their locks.
Retriable(parent) ==
  /\ run[parent].status = "FAILED"
  /\ run[parent].error = "TRANSIENT_EXHAUSTED"
  /\ version[run[parent].version].status = "FAILED"

Retry(child) ==
  LET parent == retrying.parent
      v      == run[parent].version
  IN
  /\ retrying # NoRetry
  /\ Retriable(parent)
  /\ \E number \in NumbersRead(v[1], retrying.seen) : ~Outranks(number, v)
  /\ HasRoom
  /\ run[child].status = "ABSENT"
  /\ run' = [run EXCEPT ![child] = Inserted(v, parent, retrying.key)]
  /\ version' = [version EXCEPT ![v].status = "QUEUED"]
  /\ Logged(child, "VERSION_RETRY_QUEUED")
  /\ retrying' = NoRetry
  /\ UNCHANGED <<doc, nextFence, registering, worker, faults, overlapped>>

\* Retry refuses, or its transaction is rolled back.
RetryEnds ==
  /\ retrying # NoRetry
  /\ retrying' = NoRetry
  /\ UNCHANGED <<doc, version, run, changeLog, nextFence, registering, worker, faults,
                 overlapped>>

-----------------------------------------------------------------------------
(* ClaimNext.  It waits for queue_control's lock, which a retry may hold.  *)
(* Its first statement then reclaims the expired runs, waiting for those   *)
(* whose row a StoreChunks or Finalize transaction has locked; its second  *)
(* looks for a live lease.                                                 *)

\* A lease is live: the poll commits its reclaims and returns nothing.  The
\* same when nothing is claimable.
ClaimNothing(w) ==
  /\ worker[w].state = "idle"
  /\ retrying = NoRetry
  /\ Expired \cap Locked = {}
  /\ LiveLeases # {} \/ Claimable \cup Expired = {}
  /\ run' = [r \in Runs |-> IF r \in Expired THEN Reclaimed(run[r]) ELSE run[r]]
  /\ UNCHANGED <<doc, version, changeLog, nextFence, registering, retrying, worker,
                 faults, overlapped>>

\* Mutant: the token is read but not advanced.
ReuseFence == UNCHANGED nextFence

AllocateFence == nextFence' = nextFence + 1

\* No lease is live at the second statement: one that still was at the first
\* has run out in between, too late to be reclaimed by this poll.
ClaimNext(w, r) ==
  LET base == IF r \in Expired THEN Reclaimed(run[r]) ELSE run[r]
      v    == run[r].version
  IN
  /\ worker[w].state = "idle"
  /\ retrying = NoRetry
  /\ Expired \cap Locked = {}
  /\ LiveLeases # {} => faults < MaxFaults
  /\ faults' = IF LiveLeases # {} THEN faults + 1 ELSE faults
  /\ overlapped' = (overlapped \/ LiveLeases # {})
  /\ r \in Claimable \cup Expired
  /\ base.attempts < MaxAttempts
  /\ run' = [x \in Runs |->
               IF x = r THEN Leased(base, nextFence)
               ELSE IF x \in Expired THEN Reclaimed(run[x])
               ELSE IF x \in LiveLeases THEN [run[x] EXCEPT !.lease = "expired"]
               ELSE run[x]]
  /\ AllocateFence
  /\ version' = [version EXCEPT ![v].status = IF @ = "QUEUED" THEN "PROCESSING" ELSE @]
  /\ worker' = [worker EXCEPT ![w] = [state |-> "working", run |-> r, fence |-> nextFence,
                                      attempt |-> base.attempts + 1, stage |-> Metadata,
                                      seen |-> 0]]
  /\ UNCHANGED <<doc, changeLog, registering, retrying>>

-----------------------------------------------------------------------------
(* A worker processing its claim.                                          *)

\* SetStage: the claim is verified, the lease renewed, and the worker takes up
\* the next stage.  STORE is left only after StoreChunks.
SetStage(w) ==
  /\ worker[w].state = IF worker[w].stage = Store THEN "stored" ELSE "working"
  /\ worker[w].stage < Activate
  /\ Writable(w)
  /\ worker' = [worker EXCEPT ![w].state = "working", ![w].stage = @ + 1]
  /\ UNCHANGED <<doc, version, run, changeLog, nextFence, registering, retrying,
                 faults, overlapped>>

\* StoreChunks: the claim is verified and the run's row locked ...
BeginStore(w) ==
  /\ worker[w].state = "working"
  /\ worker[w].stage = Store
  /\ Writable(w)
  /\ worker' = [worker EXCEPT ![w].state = "storing"]
  /\ UNCHANGED <<doc, version, run, changeLog, nextFence, registering, retrying,
                 faults, overlapped>>

\* ... the version's chunks are replaced, and the lease is renewed whether or
\* not it has expired meanwhile.
CommitStore(w) ==
  LET r == worker[w].run
      v == run[r].version
  IN
  /\ worker[w].state = "storing"
  /\ Current(w)
  /\ version' = [version EXCEPT ![v].chunkRun = r, ![v].chunkFence = worker[w].fence]
  /\ run' = [run EXCEPT ![r].lease = "live"]
  /\ worker' = [worker EXCEPT ![w].state = "stored"]
  /\ UNCHANGED <<doc, changeLog, nextFence, registering, retrying, faults, overlapped>>

\* The answer to a committed call can be lost: the worker then calls Fail.
Answered(w) == Released(w) \/ UNCHANGED worker

\* Finalize: the claim is verified, the run's row locked and the run's chunks
\* counted; the statement that locks the document's row begins ...
BeginFinalize(w) ==
  LET r == worker[w].run
      v == run[r].version
  IN
  /\ worker[w].state = "working"
  /\ worker[w].stage = Activate
  /\ Writable(w)
  /\ version[v].chunkRun = r
  /\ worker' = [worker EXCEPT ![w].state = "finalizing", ![w].seen = doc[v[1]].active]
  /\ UNCHANGED <<doc, version, run, changeLog, nextFence, registering, retrying, faults,
                 overlapped>>

\* ... and reads the number of a higher version: the version is skipped.  As
\* in CommitStore the lease is not looked at again.
FinalizeSuperseded(w) ==
  LET r == worker[w].run
      v == run[r].version
  IN
  /\ worker[w].state = "finalizing"
  /\ Current(w)
  /\ \E number \in NumbersRead(v[1], worker[w].seen) : Outranks(number, v)
  /\ version' = [version EXCEPT ![v].status = "SUPERSEDED"]
  /\ run' = [run EXCEPT ![r] = Finished(@, "SUPERSEDED")]
  /\ Logged(r, "VERSION_SUPERSEDED")
  /\ Answered(w)
  /\ UNCHANGED <<doc, nextFence, registering, retrying, faults, overlapped>>

\* ... or does not: the version replaces the active one.
FinalizeActivated(w) ==
  LET r == worker[w].run
      v == run[r].version
  IN
  /\ worker[w].state = "finalizing"
  /\ Current(w)
  /\ \E number \in NumbersRead(v[1], worker[w].seen) : ~Outranks(number, v)
  /\ version' = [x \in VersionIds |->
       IF x = v THEN [version[x] EXCEPT !.status = "ACTIVE"]
       ELSE IF x = <<v[1], doc[v[1]].active>> /\ version[x].status = "ACTIVE"
         THEN [version[x] EXCEPT !.status = "SUPERSEDED"]
       ELSE version[x]]
  /\ doc' = [doc EXCEPT ![v[1]].active = v[2]]
  /\ run' = [run EXCEPT ![r] = Finished(@, "SUCCEEDED")]
  /\ Logged(r, "VERSION_ACTIVATED")
  /\ Answered(w)
  /\ UNCHANGED <<nextFence, registering, retrying, faults, overlapped>>

\* Fail, after whichever call failed, and rolled back, or between calls.  With
\* a retriable code before the last attempt the run waits for its automatic
\* retry.  It stays RUNNING, owned by nobody.
FailRetriable(w, code) ==
  LET r == worker[w].run IN
  /\ Writable(w)
  /\ code \in RetriableCodes
  /\ worker[w].attempt < MaxAttempts
  /\ run' = [run EXCEPT ![r] = RetryScheduled(@, code)]
  /\ Logged(r, "AUTOMATIC_RETRY_SCHEDULED")
  /\ Released(w)
  /\ UNCHANGED <<doc, version, nextFence, registering, retrying, faults, overlapped>>

\* Fail otherwise: run and version end FAILED.
FailFinal(w, code) ==
  LET r == worker[w].run
      v == run[r].version
  IN
  /\ Writable(w)
  /\ code \in RetriableCodes => worker[w].attempt >= MaxAttempts
  /\ run' = [run EXCEPT ![r] =
               Failed(@, IF code \in RetriableCodes THEN "TRANSIENT_EXHAUSTED" ELSE code)]
  /\ version' = [version EXCEPT ![v] = FailedVersion(@)]
  /\ Logged(r, "VERSION_FAILED")
  /\ Released(w)
  /\ UNCHANGED <<doc, nextFence, registering, retrying, faults, overlapped>>

\* Any call of a worker that lost its claim answers ErrStaleFence, and the
\* worker gives the claim up without a call to Fail.
StaleFence(w) ==
  /\ worker[w].state # "idle"
  /\ ~Writable(w)
  /\ ~(worker[w].state \in {"storing", "finalizing"} /\ Current(w))
  /\ Released(w)
  /\ UNCHANGED <<doc, version, run, changeLog, nextFence, registering, retrying,
                 faults, overlapped>>

-----------------------------------------------------------------------------
(* The environment: stopped workers and the database clock.                *)

\* A crash, a shutdown, a failed heartbeat, or a Fail that did not get through.
WorkerStops(w) ==
  /\ worker[w].state # "idle"
  /\ faults < MaxFaults
  /\ faults' = faults + 1
  /\ Released(w)
  /\ UNCHANGED <<doc, version, run, changeLog, nextFence, registering, retrying,
                 overlapped>>

\* The lease of a claim its worker has given up runs out.
LeaseExpires(r) ==
  /\ r \in LiveLeases
  /\ ~Held(r)
  /\ run' = [run EXCEPT ![r].lease = "expired"]
  /\ UNCHANGED <<doc, version, changeLog, nextFence, registering, retrying, worker,
                 faults, overlapped>>

\* No heartbeat renewed the lease in time although its worker is at work.
LeaseLapses(r) ==
  /\ r \in LiveLeases
  /\ Held(r)
  /\ faults < MaxFaults
  /\ faults' = faults + 1
  /\ run' = [run EXCEPT ![r].lease = "expired"]
  /\ UNCHANGED <<doc, version, changeLog, nextFence, registering, retrying, worker,
                 overlapped>>

\* The automatic retry's delay is over.
RetryFallsDue(r) ==
  /\ run[r].status = "RUNNING"
  /\ run[r].retryAt = "waiting"
  /\ run' = [run EXCEPT ![r].retryAt = "due"]
  /\ UNCHANGED <<doc, version, changeLog, nextFence, registering, retrying, worker,
                 faults, overlapped>>

-----------------------------------------------------------------------------
Register == \E q \in Requests : \/ RegisterCheck(q)
                                \/ \E d \in Docs, r \in Runs : RegisterCommit(q, d, r)
                                \/ RegisterAbort(q)

RetryRequest == \E parent \in Runs, key \in RetryKeys : RetryBegin(parent, key)

RetryAnswer == (\E child \in Runs : Retry(child)) \/ RetryEnds

ManualRetry == RetryRequest \/ RetryAnswer

Poll(w) == ClaimNothing(w) \/ \E r \in Runs : ClaimNext(w, r)

Finalize(w) == BeginFinalize(w) \/ FinalizeSuperseded(w) \/ FinalizeActivated(w)

Fail(w) == \E code \in RetriableCodes \cup FinalCodes : FailRetriable(w, code) \/ FailFinal(w, code)

Process(w) == SetStage(w) \/ BeginStore(w) \/ CommitStore(w) \/ Finalize(w) \/ Fail(w)
                \/ StaleFence(w)

Clock == \E r \in Runs : LeaseExpires(r) \/ LeaseLapses(r) \/ RetryFallsDue(r)

Next ==
  \/ Register
  \/ ManualRetry
  \/ \E w \in Workers : Poll(w) \/ Process(w) \/ WorkerStops(w)
  \/ Clock

Spec == Init /\ [][Next]_vars

\* The worker processes keep polling and working, the database clock advances,
\* transactions end.  A poll that waits for queue_control's lock gets it in the
\* end (PostgreSQL queues waiters), however many retries also take it.  Nobody
\* has to register, retry, or keep a lease from lapsing.
Fairness ==
  /\ \A w \in Workers : WF_vars(Process(w))
  /\ SF_vars(\E w \in Workers, r \in Runs : ClaimNext(w, r))
  /\ WF_vars(RetryAnswer)
  /\ \A r \in Runs : WF_vars(LeaseExpires(r)) /\ WF_vars(RetryFallsDue(r))

FairSpec == Spec /\ Fairness

-----------------------------------------------------------------------------
(* Properties.                                                             *)

\* Every row has the columns' types; in particular attempts never exceeds the
\* bound the schema's CHECK enforces.
TypeOK ==
  /\ doc \in [Docs -> DocRow]
  /\ version \in [VersionIds -> VersionRow]
  /\ run \in [Runs -> RunRow]
  /\ changeLog \in [Runs -> Seq(Events)]
  /\ nextFence \in Nat \ {0}
  /\ registering \subseteq Requests
  /\ retrying \in RetryRow \cup {NoRetry}
  /\ worker \in [Workers -> WorkerRow]
  /\ faults \in Nat
  /\ overlapped \in BOOLEAN

\* A fencing token names one claim for ever: no two runs and no two workers
\* have the same one, and the worker whose token is on a running run knows
\* that run's attempt number, on which Fail decides between retrying and
\* giving up.
FencesIdentifyClaims ==
  /\ \A r, s \in Runs : run[r].fence # 0 /\ run[r].fence = run[s].fence => r = s
  /\ \A w, x \in Workers :
       worker[w].state # "idle" /\ worker[x].state # "idle"
         /\ worker[w].fence = worker[x].fence => w = x
  /\ \A w \in Workers, r \in Runs :
       worker[w].state # "idle" /\ worker[w].fence = run[r].fence
         => worker[w].run = r /\ worker[w].attempt = run[r].attempts

\* Retries, reclaims and registrations never leave two live runs on a version:
\* the unique index processing_run_one_live_per_version is never what stops one.
OneLiveRunPerVersion ==
  \A r, s \in LiveRuns : run[r].version = run[s].version => r = s

\* A version waits or is processed exactly as long as a run is live for it,
\* is ACTIVE exactly if its document points to it, and is SUPERSEDED only
\* behind an active version, a higher one unless claims have overlapped.
VersionsTrackRuns ==
  \A v \in VersionIds :
    /\ version[v].status \in {"QUEUED", "PROCESSING"} <=> \E r \in LiveRuns : run[r].version = v
    /\ version[v].status = "ACTIVE" <=> doc[v[1]].active = v[2]
    /\ version[v].status = "SUPERSEDED" =>
         /\ doc[v[1]].active # 0
         /\ overlapped \/ doc[v[1]].active > v[2]

\* The chunks a search of the active version reads were staged by the claim
\* that finalized it, not by a claim that was reclaimed in between.
PublishedByItsClaim ==
  \A v \in VersionIds : version[v].status = "ACTIVE" =>
    \E r \in Runs : /\ run[r].version = v
                    /\ run[r].status = "SUCCEEDED"
                    /\ version[v].chunkRun = r
                    /\ version[v].chunkFence = run[r].fence

\* A claimable run has an attempt left.  ClaimNext fails on one that has none,
\* and would fail on it at every poll, for it stays at the head of the queue.
NoPoisonedRun ==
  \A r \in Claimable \cup Expired :
    (IF r \in Expired THEN Reclaimed(run[r]) ELSE run[r]).attempts < MaxAttempts

\* automatic_attempts counts the failures of a run and its current claim, and
\* nothing else: a lease that ran out costs no attempt, however often it does.
FailuresAreCounted ==
  \A r \in Runs :
    LET claims == IF run[r].fence # 0 THEN run[r].attempts ELSE run[r].attempts + 1
        ended  == IF run[r].status \in FinishedStatus THEN 1 ELSE 0
    IN run[r].status # "ABSENT" => Len(changeLog[r]) = claims + ended

\* Until claims overlap no document returns to a lower version, although
\* Finalize may read a number that is out of date, leases lapse inside it, and
\* failed versions are retried behind a higher one.
ActiveGoesForward ==
  [][~overlapped' => \A d \in Docs : doc'[d].active >= doc[d].active]_vars

\* A run that has ended is never written again: not by a worker whose lease
\* was reclaimed, nor by the Fail of one that missed the answer to Finalize.
FinishedRunsStay ==
  [][\A r \in Runs : run[r].status \in FinishedStatus =>
       run'[r] = run[r] /\ changeLog'[r] = changeLog[r]]_vars

\* The chunks of an active version are not replaced while it is active.
PublishedChunksStay ==
  [][\A v \in VersionIds : version[v].status = "ACTIVE" =>
       /\ version'[v].chunkRun = version[v].chunkRun
       /\ version'[v].chunkFence = version[v].chunkFence]_vars

\* "The queue is deliberately single-flight" (comment on ClaimNext).
SingleFlight == \A r, s \in LiveLeases : r = s

\* The queue takes no more than its bound, and the registrations that had
\* passed the check when a retry or another registration took the last place.
QueueIsBounded == Cardinality(LiveRuns) <= MaxLive + Cardinality(Requests)

\* Every accepted upload ends: its run succeeds, fails or is superseded,
\* although workers stop, leases lapse and attempts fail.
EveryRunEnds ==
  \A r \in Runs : run[r].status \in LiveStatus ~> run[r].status \in FinishedStatus

-----------------------------------------------------------------------------
(* The store implements VersionPublication.                                *)

Published(status) ==
  CASE status = "ABSENT"                     -> "absent"
    [] status \in {"QUEUED", "PROCESSING"}   -> "pending"
    [] status = "ACTIVE"                     -> "visible"
    [] status = "SUPERSEDED"                 -> "hidden"
    [] status = "FAILED"                     -> "failed"

Publication == INSTANCE VersionPublication
  WITH state <- [v \in VersionIds |-> Published(version[v].status)],
       shown <- [d \in Docs |-> doc[d].active]

\* Every step of the queue is a step of VersionPublication or leaves it alone.
ImplementsPublication == Publication!Spec
=============================================================================
