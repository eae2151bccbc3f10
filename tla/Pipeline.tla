------------------------------ MODULE Pipeline ------------------------------
(***************************************************************************)
(* One processing run on its way through the pipeline: what its claims     *)
(* leave behind for the next one (internal/modules/processing/             *)
(* processor.go, internal/adapters/postgres/store.go).                     *)
(*                                                                         *)
(* RunQueue has the queue of runs and treats the work of a claim as a      *)
(* walk through stages.  Here is that walk: each computing stage (PARSE,   *)
(* CHUNK, EMBED) looks for a checkpoint of an earlier claim whose input    *)
(* has the digest of its own input and whose artifact is still what it     *)
(* was, and otherwise computes, puts its output on disk and records it.    *)
(* Every claim also leaves a history, the rows of processing_step_attempt. *)
(*                                                                         *)
(* Content is abstracted to how it came about: the output of a stage is    *)
(* its input followed by the variant the stage made of it, so the pages,   *)
(* the chunks and the indexed chunks of one document are sequences of      *)
(* length 1, 2 and 3.  Equal content is equal digest and equal key.  A     *)
(* stage can compute different variants at different times (another        *)
(* release of the parser, the floating point of another machine).          *)
(***************************************************************************)
EXTENDS Integers, Sequences, SequencesExt

CONSTANTS
  Workers,     \* worker processes
  Variants,    \* what a computing stage can make of its input
  Unusable,    \* those without searchable text, or with a vector that is no number
  None,        \* SQL NULL
  MaxAttempts, \* automatic attempts of a run (3)
  MaxClaims,   \* bound: fencing tokens
  MaxFaults    \* bound: stopped workers, lapsed leases, lost artifacts

ASSUME ConstantsAssumption ==
  /\ Unusable \subseteq Variants
  /\ None \notin Seq(Variants)
  /\ None \notin [input : Seq(Variants), output : Seq(Variants), fence : Nat]
  /\ MaxAttempts \in Nat \ {0}
  /\ MaxClaims \in Nat
  /\ MaxFaults \in Nat

VARIABLES
  run,        \* the processing_run row
  nextFence,  \* queue_control.next_fencing_token
  checkpoint, \* processing_checkpoint rows by stage
  attempt,    \* processing_step_attempt rows by fencing token and stage
  artifacts,  \* content the object store can read back
  damaged,    \* content whose file is there and is not what it was
  staged,     \* search_chunk rows of the version
  published,  \* what Finalize made visible: page count and chunks
  worker,     \* the claim each worker process has in memory
  faults      \* faults so far

vars == <<run, nextFence, checkpoint, attempt, artifacts, damaged, staged, published,
          worker, faults>>

-----------------------------------------------------------------------------
Metadata == 1
Parse    == 2
Chunk    == 3
Embed    == 4
Store    == 5
Activate == 6
Stages   == Metadata .. Activate
Computing == Parse .. Embed

Fences == 1 .. MaxClaims

\* The output of stage s; the input of PARSE, the original, is <<>>.
Output(s) == [1 .. s - 1 -> Variants]
Content   == UNION {Output(s) : s \in Computing}

NoMemory == [s \in Computing |-> None]
Idle     == [state |-> "idle", fence |-> 0, attempt |-> 0, stage |-> Metadata,
             output |-> NoMemory]

Absent == [outcome |-> "ABSENT", attempt |-> 0]

Init ==
  /\ run = [status |-> "QUEUED", fence |-> 0, lease |-> "none", attempts |-> 0,
            retryAt |-> "none", stage |-> Metadata]
  /\ nextFence = 1
  /\ checkpoint = [s \in Computing |-> None]
  /\ attempt = [k \in Fences \X Stages |-> Absent]
  /\ artifacts = {}
  /\ damaged = {}
  /\ staged = None
  /\ published = None
  /\ worker = [w \in Workers |-> Idle]
  /\ faults = 0

-----------------------------------------------------------------------------
(* Who may write, and what the rows become.                                *)

Current(w) == /\ worker[w].state # "idle"
              /\ run.status = "RUNNING"
              /\ run.fence = worker[w].fence

\* Mutant: the lease and the fence are not looked at.
WritableByStatus(w) == worker[w].state # "idle" /\ run.status = "RUNNING"

\* verifyWritableClaim
Writable(w) == Current(w) /\ run.lease = "live"

\* Primary key of processing_step_attempt (within the run).
AttemptKey(fence, number, stage) == <<fence, stage>>

\* recordAttemptOutcome: an upsert under the claim's key.
Recorded(rows, w, stage, outcome) ==
  [rows EXCEPT ![AttemptKey(worker[w].fence, worker[w].attempt, stage)] =
     [outcome |-> outcome, attempt |-> worker[w].attempt]]

\* Mutant: the reclaim leaves the history of the lost claim alone.
SupersededNone(rows) == rows

\* superseded_attempts: what the claim whose lease ran out was doing.
SupersededOf(rows) ==
  [k \in DOMAIN rows |->
     IF k[1] = run.fence /\ rows[k].outcome = "RUNNING"
     THEN [rows[k] EXCEPT !.outcome = "SUPERSEDED"]
     ELSE rows[k]]

\* Mutant: the stage before is left open.
CompletedNothing(rows, next) == rows

\* completed_previous: the run's stage is done.  It is looked for by attempt
\* number, not by fencing token.
Completed(rows, next) ==
  [k \in DOMAIN rows |->
     IF /\ rows[k].attempt = run.attempts
        /\ k[2] = run.stage /\ run.stage # next
        /\ rows[k].outcome = "RUNNING"
     THEN [rows[k] EXCEPT !.outcome = "SUCCEEDED"]
     ELSE rows[k]]

\* A call answers, or its answer is lost after its commit: the worker then
\* reports a failure.
Returns(w, row) ==
  worker' \in {[worker EXCEPT ![w] = row], [worker EXCEPT ![w] = [row EXCEPT !.state = "failing"]]}

Released(w) == worker' = [worker EXCEPT ![w] = Idle]

-----------------------------------------------------------------------------
(* ClaimNext.                                                              *)

Expired == run.status = "RUNNING" /\ run.lease = "expired"

Claimable == \/ run.status = "QUEUED"
             \/ run.status = "RUNNING" /\ run.lease = "none" /\ run.retryAt = "due"

Queued(row) == [row EXCEPT !.status = "QUEUED", !.fence = 0, !.lease = "none",
                           !.attempts = IF @ > 0 THEN @ - 1 ELSE 0, !.retryAt = "none"]

Base == IF Expired THEN Queued(run) ELSE run

\* A poll reclaims the run and takes another, or finds a live lease.
Reclaim ==
  /\ Expired
  /\ run' = Queued(run)
  /\ attempt' = SupersededOf(attempt)
  /\ UNCHANGED <<nextFence, checkpoint, artifacts, damaged, staged, published, worker, faults>>

\* A poll leases the run, reclaiming it first if its lease is over.
Claim(w) ==
  LET row  == [Idle EXCEPT !.state = "done", !.fence = nextFence, !.attempt = Base.attempts + 1]
      rows == IF Expired THEN SupersededOf(attempt) ELSE attempt
  IN
  /\ worker[w].state = "idle"
  /\ Claimable \/ Expired
  /\ Base.attempts < MaxAttempts
  /\ nextFence <= MaxClaims
  /\ run' = [Base EXCEPT !.status = "RUNNING", !.fence = nextFence, !.lease = "live",
                         !.attempts = @ + 1, !.retryAt = "none", !.stage = Metadata]
  /\ nextFence' = nextFence + 1
  /\ attempt' = [rows EXCEPT ![AttemptKey(nextFence, Base.attempts + 1, Metadata)] =
                   [outcome |-> "RUNNING", attempt |-> Base.attempts + 1]]
  /\ worker' = [worker EXCEPT ![w] = row]
  /\ UNCHANGED <<checkpoint, artifacts, damaged, staged, published, faults>>

-----------------------------------------------------------------------------
(* Processor.Process.  "done" is after a stage's work, "loading", "computing"
   and "saving" are inside a computing stage, "writing" before the store call
   of STORE and ACTIVATE, "failing" before the call of Fail.               *)

\* Process moves its own stage variable first; then SetStage moves the run's.
Entering(w) ==
  LET next == worker[w].stage + 1 IN
  [worker[w] EXCEPT !.stage = next,
                    !.state = IF next \in Computing THEN "loading" ELSE "writing"]

SetStage(w) ==
  LET next == worker[w].stage + 1
      opened == [outcome |-> "RUNNING", attempt |-> run.attempts]
  IN
  /\ worker[w].state = "done"
  /\ Writable(w)
  /\ run' = [run EXCEPT !.stage = next, !.lease = "live"]
  /\ attempt' = [Completed(attempt, next) EXCEPT
                   ![AttemptKey(run.fence, run.attempts, next)] = opened]
  /\ Returns(w, Entering(w))
  /\ UNCHANGED <<nextFence, checkpoint, artifacts, damaged, staged, published, faults>>

\* A call that did not reach the database.
CallFails(w) ==
  /\ worker[w].state \notin {"idle", "failing"}
  /\ worker' = [worker EXCEPT ![w] =
                  [(IF worker[w].state = "done" THEN Entering(w) ELSE worker[w])
                     EXCEPT !.state = "failing"]]
  /\ UNCHANGED <<run, nextFence, checkpoint, attempt, artifacts, damaged, staged, published,
                 faults>>

\* Mutant: every later stage is keyed by the pages.
InputPages(w) == IF worker[w].stage = Parse THEN <<>> ELSE worker[w].output[Parse]

\* The input of the stage a worker is in.
Input(w) == IF worker[w].stage = Parse THEN <<>> ELSE worker[w].output[worker[w].stage - 1]

\* Mutant: the checkpoint's input is not compared.
MatchesAnyInput(w) == Current(w) /\ checkpoint[worker[w].stage] # None

\* What LoadCheckpoint's query selects.  It compares the fence, not the lease.
Matches(w) == /\ Current(w)
              /\ checkpoint[worker[w].stage] # None
              /\ checkpoint[worker[w].stage].input = Input(w)

Readable(content) == content \in artifacts \ damaged

\* validCheckpointPayload, and what the stage after a computed output demands.
Usable(content) == Last(content) \notin Unusable

\* loadCheckpoint finds a row whose artifact is still what it was and usable ...
LoadResumes(w) ==
  LET s == worker[w].stage IN
  /\ worker[w].state = "loading"
  /\ Matches(w)
  /\ Readable(checkpoint[s].output)
  /\ Usable(checkpoint[s].output)
  /\ worker' = [worker EXCEPT ![w].state = "done", ![w].output[s] = checkpoint[s].output]
  /\ UNCHANGED <<run, nextFence, checkpoint, attempt, artifacts, damaged, staged, published,
                 faults>>

\* ... or does not: the stage has to compute.
LoadMisses(w) ==
  LET s == worker[w].stage IN
  /\ worker[w].state = "loading"
  /\ Matches(w) => ~Readable(checkpoint[s].output) \/ ~Usable(checkpoint[s].output)
  /\ worker' = [worker EXCEPT ![w].state = "computing"]
  /\ UNCHANGED <<run, nextFence, checkpoint, attempt, artifacts, damaged, staged, published,
                 faults>>

\* The stage computes one of its variants, and saveCheckpoint puts it on disk.
\* Put leaves alone a file that is there, damaged or not.  CHUNK fails on
\* pages without text, and its own output is never empty.
Compute(w, t) ==
  LET s == worker[w].stage
      output == Append(Input(w), t)
  IN
  /\ worker[w].state = "computing"
  /\ s = Chunk => Usable(Input(w)) /\ t \notin Unusable
  /\ artifacts' = artifacts \cup {output}
  /\ worker' = [worker EXCEPT ![w].state = "saving", ![w].output[s] = output]
  /\ UNCHANGED <<run, nextFence, checkpoint, attempt, damaged, staged, published, faults>>

\* SaveCheckpoint replaces the row of an older claim.
SaveCheckpoint(w) ==
  LET s == worker[w].stage IN
  /\ worker[w].state = "saving"
  /\ Writable(w)
  /\ checkpoint' = [checkpoint EXCEPT ![s] =
       [input |-> Input(w), output |-> worker[w].output[s], fence |-> worker[w].fence]]
  /\ Returns(w, [worker[w] EXCEPT !.state = "done"])
  /\ UNCHANGED <<run, nextFence, attempt, artifacts, damaged, staged, published, faults>>

\* StoreChunks; the database refuses a vector that is no number.
StoreChunks(w) ==
  /\ worker[w].state = "writing"
  /\ worker[w].stage = Store
  /\ Usable(worker[w].output[Embed])
  /\ Writable(w)
  /\ staged' = worker[w].output[Embed]
  /\ run' = [run EXCEPT !.stage = Store, !.lease = "live"]
  /\ Returns(w, [worker[w] EXCEPT !.state = "done"])
  /\ UNCHANGED <<nextFence, checkpoint, attempt, artifacts, damaged, published, faults>>

\* Finalize counts the staged chunks, which different content may have the
\* same number of, and takes the number of pages from the worker.  Whether a
\* higher version is active already is up to the other runs.
Finalize(w) ==
  /\ worker[w].state = "writing"
  /\ worker[w].stage = Activate
  /\ Writable(w)
  /\ staged # None
  /\ \E outcome \in {"SUCCEEDED", "SUPERSEDED"} :
       /\ run' = [run EXCEPT !.status = outcome, !.lease = "none"]
       /\ attempt' = Recorded(attempt, w, Activate, outcome)
       /\ published' = IF outcome = "SUCCEEDED"
                       THEN [pages |-> worker[w].output[Parse], chunks |-> staged]
                       ELSE None
  /\ Returns(w, Idle)
  /\ UNCHANGED <<nextFence, checkpoint, artifacts, damaged, staged, faults>>

\* Fail, with a code that is retried or with one that is not.  The outcome is
\* recorded for the stage Process was in, whether or not the run was.
Fail(w) ==
  LET s == worker[w].stage IN
  /\ \/ worker[w].state = "failing"
     \/ worker[w].state = "done" /\ s = Metadata   \* profile mismatch
  /\ Writable(w)
  /\ \/ /\ worker[w].attempt < MaxAttempts
        /\ run' = [run EXCEPT !.stage = s, !.fence = 0, !.lease = "none", !.retryAt = "waiting"]
        /\ attempt' = Recorded(attempt, w, s, "RETRY_SCHEDULED")
     \/ /\ run' = [run EXCEPT !.status = "FAILED", !.stage = s, !.lease = "none"]
        /\ attempt' = Recorded(attempt, w, s, "FAILED")
  /\ Released(w)
  /\ UNCHANGED <<nextFence, checkpoint, artifacts, damaged, staged, published, faults>>

\* A store call of a worker that lost its claim answers ErrStaleFence.  Neither
\* a load nor a computation notices.
StaleFence(w) ==
  /\ worker[w].state \in {"done", "saving", "writing", "failing"}
  /\ ~Writable(w)
  /\ Released(w)
  /\ UNCHANGED <<run, nextFence, checkpoint, attempt, artifacts, damaged, staged, published,
                 faults>>

-----------------------------------------------------------------------------
(* The environment.                                                        *)

Fault == faults < MaxFaults /\ faults' = faults + 1

\* A crash, a shutdown, or the heartbeat that found the claim gone.
WorkerStops(w) ==
  /\ worker[w].state # "idle"
  /\ Fault
  /\ Released(w)
  /\ UNCHANGED <<run, nextFence, checkpoint, attempt, artifacts, damaged, staged, published>>

Held == \E w \in Workers : Current(w)

\* The lease of a claim nobody works on runs out.
LeaseExpires ==
  /\ run.lease = "live"
  /\ ~Held
  /\ run' = [run EXCEPT !.lease = "expired"]
  /\ UNCHANGED <<nextFence, checkpoint, attempt, artifacts, damaged, staged, published, worker,
                 faults>>

\* The lease of a claim at work was not renewed in time.
LeaseLapses ==
  /\ run.lease = "live"
  /\ Held
  /\ Fault
  /\ run' = [run EXCEPT !.lease = "expired"]
  /\ UNCHANGED <<nextFence, checkpoint, attempt, artifacts, damaged, staged, published, worker>>

RetryFallsDue ==
  /\ run.retryAt = "waiting"
  /\ run' = [run EXCEPT !.retryAt = "due"]
  /\ UNCHANGED <<nextFence, checkpoint, attempt, artifacts, damaged, staged, published, worker,
                 faults>>

\* A file of the object store is lost, or altered.
ArtifactLost(content) ==
  /\ content \in artifacts
  /\ Fault
  /\ \/ artifacts' = artifacts \ {content} /\ damaged' = damaged \ {content}
     \/ damaged' = damaged \cup {content} /\ UNCHANGED artifacts
  /\ UNCHANGED <<run, nextFence, checkpoint, attempt, staged, published, worker>>

-----------------------------------------------------------------------------
Process(w) == \/ SetStage(w) \/ CallFails(w) \/ LoadResumes(w) \/ LoadMisses(w)
              \/ \E t \in Variants : Compute(w, t)
              \/ SaveCheckpoint(w) \/ StoreChunks(w) \/ Finalize(w) \/ Fail(w) \/ StaleFence(w)

Next ==
  \/ Reclaim
  \/ \E w \in Workers : Claim(w) \/ Process(w) \/ WorkerStops(w)
  \/ LeaseExpires \/ LeaseLapses \/ RetryFallsDue
  \/ \E content \in Content : ArtifactLost(content)

Spec == Init /\ [][Next]_vars

-----------------------------------------------------------------------------
(* Properties.                                                             *)

Outcomes == {"ABSENT", "RUNNING", "RETRY_SCHEDULED", "SUCCEEDED", "FAILED", "SUPERSEDED"}

Remembered(s) == Output(s) \cup {None}

CheckpointRow(s) ==
  [input : IF s = Parse THEN {<<>>} ELSE Output(s - 1), output : Output(s), fence : Fences]

WorkerRow ==
  [state : {"idle", "done", "loading", "computing", "saving", "writing", "failing"},
   fence : {0} \cup Fences, attempt : 0 .. MaxAttempts, stage : Stages,
   output : [Computing -> Content \cup {None}]]

\* Rows and memories have their types; in particular what is remembered,
\* recorded and staged for a stage is an output of that stage.
TypeOK ==
  /\ run \in [status : {"QUEUED", "RUNNING", "SUCCEEDED", "FAILED", "SUPERSEDED"},
              fence : {0} \cup Fences, lease : {"none", "live", "expired"},
              attempts : 0 .. MaxAttempts, retryAt : {"none", "waiting", "due"}, stage : Stages]
  /\ nextFence \in 1 .. MaxClaims + 1
  /\ DOMAIN checkpoint = Computing
  /\ \A s \in Computing : checkpoint[s] \in CheckpointRow(s) \cup {None}
  /\ attempt \in [Fences \X Stages -> [outcome : Outcomes, attempt : 0 .. MaxAttempts]]
  /\ artifacts \subseteq Content /\ damaged \subseteq artifacts
  /\ staged \in Remembered(Embed)
  /\ published \in [pages : Output(Parse), chunks : Output(Embed)] \cup {None}
  /\ worker \in [Workers -> WorkerRow]
  /\ \A w \in Workers, s \in Computing : worker[w].output[s] \in Remembered(s)
  /\ faults \in 0 .. MaxFaults

\* What a version shows comes from one parse: the chunks a search reads were
\* cut from the pages whose number Finalize recorded, although the pages, the
\* chunks and the embeddings may have been computed by three different claims
\* and some of their artifacts lost in between.
PublishedFromOneParse ==
  published # None => IsPrefix(published.pages, published.chunks)

\* A stage the history calls SUCCEEDED was left for the next one by the same
\* claim, or published the version.  SetStage looks for the stage to complete
\* by attempt number, which claims can share (a reclaim gives the attempt
\* back), so this rests on what the reclaim did to the lost claim's rows.
HistoryIsTrue ==
  \A f \in Fences, s \in Stages : attempt[<<f, s>>].outcome = "SUCCEEDED" =>
    IF s = Activate
    THEN run.status = "SUCCEEDED" /\ run.fence = f
    ELSE attempt[<<f, s + 1>>].outcome # "ABSENT"

\* A claim that is over has no stage RUNNING in the history, except the one
\* before the stage its Fail recorded: there SetStage did not get through, and
\* Fail closes the stage of the worker, not that of the run.
OpenAttemptsExplained ==
  \A f \in Fences, s \in Stages :
    attempt[<<f, s>>].outcome = "RUNNING" =>
      \/ run.status = "RUNNING" /\ run.fence = f
      \/ s < Activate /\ attempt[<<f, s + 1>>].outcome \in {"RETRY_SCHEDULED", "FAILED"}

\* "Reclaims may replace an older fence's checkpoint" (SaveCheckpoint), and
\* nothing else: a claim that was reclaimed never writes over a newer one's.
CheckpointsAdvance ==
  \A s \in Computing : checkpoint[s] # None =>
    /\ checkpoint'[s] # None
    /\ checkpoint'[s].fence >= checkpoint[s].fence
    /\ checkpoint'[s] # checkpoint[s] => checkpoint'[s].fence = run.fence

\* The history of a claim is written while it has the run, by its own calls or
\* by the poll that reclaims it, and never again.
HistoryOfOthersStays ==
  \A f \in Fences, s \in Stages :
    f \notin {run.fence, run'.fence} => attempt'[<<f, s>>] = attempt[<<f, s>>]

\* No claim writes over what another left: neither a checkpoint of a newer one
\* nor the history of any other.
FencesSeparateClaims == [][CheckpointsAdvance /\ HistoryOfOthersStays]_vars
=============================================================================
