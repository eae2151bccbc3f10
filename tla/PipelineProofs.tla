--------------------------- MODULE PipelineProofs ---------------------------
(***************************************************************************)
(* Proofs about Pipeline, for any workers, variants and bounds: claims do  *)
(* not write over each other, a version shows the work of one parse, and   *)
(* the history of the claims is true.                                      *)
(***************************************************************************)
EXTENDS Pipeline, TLAPS

-----------------------------------------------------------------------------
(* The inductive invariant: each table with what holds of its rows.        *)

RunRow ==
  [status : {"QUEUED", "RUNNING", "SUCCEEDED", "FAILED", "SUPERSEDED"},
   fence : {0} \cup Fences, lease : {"none", "live", "expired"},
   attempts : 0 .. MaxAttempts, retryAt : {"none", "waiting", "due"}, stage : Stages]

Leased == run.lease # "none"

\* The run has the newest fence while it is leased, and none while it waits.
RunInv ==
  /\ run \in RunRow
  /\ nextFence \in 1 .. MaxClaims + 1
  /\ run.fence < nextFence
  /\ Leased => /\ run.status = "RUNNING" /\ run.attempts > 0
               /\ run.fence = nextFence - 1 /\ run.fence > 0
  /\ ~Leased /\ run.status \in {"QUEUED", "RUNNING"} => run.fence = 0

AttemptRows == [Fences \X Stages -> [outcome : Outcomes, attempt : 0 .. MaxAttempts]]

FilesInv == artifacts \subseteq Content /\ damaged \subseteq artifacts

\* long begins with all of short, an output of stage s.
Begins(short, long, s) == \A i \in 1 .. s - 1 : long[i] = short[i]

\* The output of a checkpoint was made of its input.
CheckpointInv ==
  /\ DOMAIN checkpoint = Computing
  /\ \A s \in Computing : checkpoint[s] \in CheckpointRow(s) \cup {None}
  /\ \A s \in Computing : checkpoint[s] # None =>
       /\ checkpoint[s].fence < nextFence
       /\ Begins(checkpoint[s].input, checkpoint[s].output, s - 1)

\* Where Process is in each of its states; a claim has a fence.
Placed(row) ==
  /\ row.fence = 0 => row.state \in {"idle", "failing"}
  /\ row.state \in {"loading", "computing", "saving"} => row.stage \in Computing
  /\ row.state = "writing" => row.stage \in {Store, Activate}
  /\ row.state = "done" => row.stage # Activate

\* What is remembered for a stage is an output of it, there once the stage is
\* over, and made of what is remembered for the stage before.
Remembers(row) ==
  \A s \in Computing :
    /\ row.output[s] \in Remembered(s)
    /\ row.output[s] # None => s <= row.stage
    /\ s < row.stage \/ (s = row.stage /\ row.state \in {"saving", "done"})
         => row.output[s] # None
    /\ s # Parse /\ row.output[s] # None =>
         row.output[s - 1] # None /\ Begins(row.output[s - 1], row.output[s], s - 1)

RowOK(row) == row \in WorkerRow /\ Placed(row) /\ Remembers(row)

\* Each claim in memory is another one.
WorkersInv ==
  /\ worker \in [Workers -> WorkerRow]
  /\ \A w \in Workers :
       /\ RowOK(worker[w])
       /\ worker[w].fence < nextFence
       /\ \A v \in Workers \ {w} : worker[v].fence = worker[w].fence => worker[w].fence = 0

\* The holder of the lease that is past STORE staged what it remembers.
PastStore(row) ==
  \/ row.stage = Store /\ row.state = "done"
  \/ row.stage = Activate

StagedInv ==
  \A w \in Workers :
    Leased /\ Current(w) /\ PastStore(worker[w]) => staged = worker[w].output[Embed]

VersionInv ==
  /\ staged \in Remembered(Embed)
  /\ published \in [pages : Output(Parse), chunks : Output(Embed)] \cup {None}
  /\ published # None => Begins(published.pages, published.chunks, Parse)

PInv ==
  /\ RunInv
  /\ attempt \in AttemptRows
  /\ FilesInv
  /\ CheckpointInv
  /\ WorkersInv
  /\ StagedInv
  /\ VersionInv
  /\ faults \in 0 .. MaxFaults

\* The run is in the stage of the holder of its lease, or in the one before
\* when the call that was to move it failed.
StageInv ==
  \A w \in Workers : Leased /\ Current(w) =>
    /\ worker[w].stage \in {run.stage, run.stage + 1}
    /\ worker[w].state # "failing" => worker[w].stage = run.stage

\* The claim at work has one stage open, its last, under the run's attempt.
LeaseHistory ==
  Leased => \A s \in Stages :
    /\ attempt[<<run.fence, s>>].outcome = "RUNNING" =>
         s = run.stage /\ attempt[<<run.fence, s>>].attempt = run.attempts
    /\ s > run.stage => attempt[<<run.fence, s>>].outcome = "ABSENT"

\* A stage that stays open is of an earlier attempt: no later claim gets its
\* number.
OpenInv ==
  \A f \in Fences, s \in Stages : attempt[<<f, s>>].outcome = "RUNNING" =>
    \/ Leased /\ run.fence = f
    \/ /\ s < Activate /\ attempt[<<f, s + 1>>].outcome \in {"RETRY_SCHEDULED", "FAILED"}
       /\ attempt[<<f, s>>].attempt <= (IF Leased THEN run.attempts - 1 ELSE run.attempts)

FutureInv ==
  \A f \in Fences, s \in Stages : f >= nextFence => attempt[<<f, s>>].outcome = "ABSENT"

HInv == StageInv /\ LeaseHistory /\ OpenInv /\ FutureInv /\ HistoryIsTrue

IInv == PInv /\ HInv

-----------------------------------------------------------------------------
(* Content: sequences of variants.                                         *)

LEMMA StageNumbers ==
  /\ Metadata = 1 /\ Parse = 2 /\ Chunk = 3 /\ Embed = 4 /\ Store = 5 /\ Activate = 6
  /\ Stages = 1 .. 6 /\ Computing = 2 .. 4
BY DEF Metadata, Parse, Chunk, Embed, Store, Activate, Stages, Computing

LEMMA OutputIsSeq ==
  ASSUME NEW s \in 1 .. 4, NEW x \in Output(s)
  PROVE  x \in Seq(Variants) /\ Len(x) = s - 1 /\ x # None
<1>1. x \in Seq(Variants) /\ Len(x) = s - 1
  BY DEF Output
<1>2. QED  BY <1>1, ConstantsAssumption

LEMMA EmptyIsOutput == <<>> \in Output(1)
BY DEF Output

\* What a stage makes of its input is an output that begins with it.
LEMMA OutputGrows ==
  ASSUME NEW s \in Computing, NEW x \in Output(s - 1), NEW t \in Variants
  PROVE  /\ Append(x, t) \in Output(s)
         /\ Append(x, t) \in Content
         /\ Append(x, t) # None
         /\ Begins(x, Append(x, t), s - 1)
<1>1. s - 1 \in 1 .. 3 /\ s \in 2 .. 4
  BY StageNumbers
<1>2. x \in Seq(Variants) /\ Len(x) = s - 2
  BY <1>1, OutputIsSeq
<1>3. Append(x, t) \in [1 .. s - 1 -> Variants]
  <2>1. Append(x, t) \in Seq(Variants) /\ Len(Append(x, t)) = s - 1
    BY <1>1, <1>2
  <2>2. \A y \in Seq(Variants) : y \in [1 .. Len(y) -> Variants]
    OBVIOUS
  <2>3. QED  BY <2>1, <2>2
<1>4. \A i \in 1 .. s - 2 : Append(x, t)[i] = x[i]
  BY <1>1, <1>2
<1>5. Append(x, t) \in Output(s)
  BY <1>3 DEF Output
<1>6. Append(x, t) \in Content /\ Append(x, t) # None
  <2>1. s \in 1 .. 4
    BY <1>1
  <2>2. Append(x, t) # None
    BY <1>5, <2>1, OutputIsSeq, Zenon
  <2>3. QED  BY <1>5, <2>2 DEF Content
<1>7. Begins(x, Append(x, t), s - 1)
  <2>1. s - 1 - 1 = s - 2
    BY <1>1
  <2>2. QED  BY <1>4, <2>1, Zenon DEF Begins
<1>8. QED  BY <1>5, <1>6, <1>7

\* In terms of the property: who begins with the pages has them as prefix.
LEMMA BeginsIsPrefix ==
  ASSUME NEW x \in Output(Parse), NEW y \in Output(Embed), Begins(x, y, Parse)
  PROVE  IsPrefix(x, y)
<1>1. /\ x \in Seq(Variants) /\ Len(x) = 1
      /\ y \in Seq(Variants) /\ Len(y) = 3
  <2>1. x \in Output(2) /\ y \in Output(4)
    BY StageNumbers
  <2>2. 2 \in 1 .. 4 /\ 4 \in 1 .. 4
    OBVIOUS
  <2>3. x \in Seq(Variants) /\ Len(x) = 2 - 1
    BY <2>1, <2>2, OutputIsSeq, Zenon
  <2>4. y \in Seq(Variants) /\ Len(y) = 4 - 1
    BY <2>1, <2>2, OutputIsSeq, Zenon
  <2>5. QED  BY <2>3, <2>4
<1>2. y[1] = x[1]
  BY StageNumbers DEF Begins
<1>3. /\ SubSeq(x, 1, 1) \in Seq(Variants) /\ Len(SubSeq(x, 1, 1)) = 1
      /\ SubSeq(y, 1, 1) \in Seq(Variants) /\ Len(SubSeq(y, 1, 1)) = 1
      /\ SubSeq(x, 1, 1)[1] = x[1] /\ SubSeq(y, 1, 1)[1] = y[1]
  BY <1>1
<1>4. SubSeq(x, 1, 1) = SubSeq(y, 1, 1)
  BY <1>2, <1>3
<1>5. QED  BY <1>1, <1>4 DEF IsPrefix

LEMMA TypesAndParse == PInv => TypeOK /\ PublishedFromOneParse
<1> SUFFICES ASSUME PInv PROVE TypeOK /\ PublishedFromOneParse
  OBVIOUS
<1>1. \A w \in Workers, s \in Computing : worker[w].output[s] \in Remembered(s)
  BY DEF PInv, WorkersInv, RowOK, Remembers
<1>2. TypeOK
  BY <1>1 DEF PInv, RunInv, RunRow, AttemptRows, FilesInv, CheckpointInv, WorkersInv,
              VersionInv, TypeOK
<1>3. ASSUME published # None PROVE IsPrefix(published.pages, published.chunks)
  <2>1. /\ published.pages \in Output(Parse) /\ published.chunks \in Output(Embed)
        /\ Begins(published.pages, published.chunks, Parse)
    BY <1>3 DEF PInv, VersionInv
  <2>2. QED  BY <2>1, BeginsIsPrefix
<1>4. QED  BY <1>2, <1>3 DEF PublishedFromOneParse

-----------------------------------------------------------------------------
(* Rows of workers.                                                        *)

LEMMA IdleRow ==
  /\ RowOK(Idle) /\ RowOK([Idle EXCEPT !.state = "failing"])
  /\ Idle.fence = 0 /\ [Idle EXCEPT !.state = "failing"].fence = 0
  /\ Idle.state = "idle" /\ Idle.stage = Metadata
  /\ [Idle EXCEPT !.state = "failing"].stage = Metadata
BY StageNumbers, ConstantsAssumption
   DEF RowOK, Placed, Remembers, Idle, NoMemory, WorkerRow, Remembered

LEMMA FailingRow ==
  ASSUME NEW row, RowOK(row)
  PROVE  LET fails == [row EXCEPT !.state = "failing"]
         IN RowOK(fails) /\ fails.fence = row.fence /\ fails.stage = row.stage
            /\ fails.state = "failing" /\ fails.output = row.output
BY DEF RowOK, Placed, Remembers, WorkerRow

LEMMA EnteringRow ==
  ASSUME NEW w \in Workers, RowOK(worker[w]), worker[w].state = "done"
  PROVE  /\ RowOK(Entering(w))
         /\ Entering(w).fence = worker[w].fence
         /\ Entering(w).stage = worker[w].stage + 1
         /\ Entering(w).output = worker[w].output
         /\ Entering(w).state \in {"loading", "writing"}
<1> DEFINE old == worker[w]
           new == Entering(w)
<1>1. old \in WorkerRow /\ old.stage \in 1 .. 5
  BY StageNumbers DEF RowOK, Placed, WorkerRow
<1>2. /\ new \in WorkerRow /\ new.fence = old.fence /\ new.stage = old.stage + 1
      /\ new.output = old.output
      /\ new.state = IF old.stage + 1 \in Computing THEN "loading" ELSE "writing"
  <2>1. PICK state \in {"loading", "writing"} :
          /\ state = IF old.stage + 1 \in Computing THEN "loading" ELSE "writing"
          /\ new = [old EXCEPT !.stage = old.stage + 1, !.state = state]
    BY DEF Entering
  <2>2. old.stage + 1 \in Stages
    BY <1>1, StageNumbers
  <2>3. QED  BY <1>1, <2>1, <2>2 DEF WorkerRow
<1> HIDE DEF new
<1>3. Placed(new)
  BY <1>1, <1>2, StageNumbers DEF RowOK, Placed
<1>4. Remembers(new)
  BY <1>1, <1>2, StageNumbers DEF RowOK, Remembers
<1>5. QED  BY <1>2, <1>3, <1>4 DEF RowOK, new

\* A stage's output, computed or found, enters the memory.
LEMMA OutputRow ==
  ASSUME NEW row, RowOK(row), NEW state \in {"saving", "done"},
         row.state \in {"loading", "computing"},
         NEW x \in Output(row.stage), x # None,
         row.stage # Parse => Begins(row.output[row.stage - 1], x, row.stage - 1)
  PROVE  LET new == [row EXCEPT !.state = state, !.output[row.stage] = x]
         IN RowOK(new) /\ new.fence = row.fence /\ new.stage = row.stage /\ new.state = state
<1> DEFINE s == row.stage
           new == [row EXCEPT !.state = state, !.output[s] = x]
<1>1. row \in WorkerRow /\ s \in Computing /\ row.output \in [Computing -> Content \cup {None}]
      /\ row.fence # 0
  BY DEF RowOK, Placed, WorkerRow
<1>2. x \in Content
  BY <1>1 DEF Content
<1>3. new.output = [row.output EXCEPT ![s] = x] /\ new.output \in [Computing -> Content \cup {None}]
  BY <1>1, <1>2 DEF WorkerRow
<1>4. /\ new \in WorkerRow /\ new.fence = row.fence /\ new.stage = s /\ new.state = state
  BY <1>1, <1>3 DEF WorkerRow
<1>5. \A q \in Computing : new.output[q] = IF q = s THEN x ELSE row.output[q]
  BY <1>1, <1>3
<1> HIDE DEF new
<1>6. Placed(new)
  BY <1>1, <1>4, StageNumbers DEF Placed
<1>7. Remembers(new)
  <2>1. /\ \A q \in Computing : row.output[q] \in Remembered(q)
        /\ \A q \in Computing : row.output[q] # None => q <= s
        /\ \A q \in Computing : q < s => row.output[q] # None
        /\ \A q \in Computing : q # Parse /\ row.output[q] # None =>
             row.output[q - 1] # None /\ Begins(row.output[q - 1], row.output[q], q - 1)
    BY DEF RowOK, Remembers
  <2>2. \A q \in Computing : q # Parse => q - 1 \in Computing
    BY StageNumbers
  <2> SUFFICES ASSUME NEW q \in Computing
               PROVE  /\ new.output[q] \in Remembered(q)
                      /\ new.output[q] # None => q <= s
                      /\ q < s \/ (q = s /\ new.state \in {"saving", "done"})
                           => new.output[q] # None
                      /\ q # Parse /\ new.output[q] # None =>
                           new.output[q - 1] # None
                           /\ Begins(new.output[q - 1], new.output[q], q - 1)
    BY <1>4 DEF Remembers
  <2>3. CASE q = s
    BY <1>1, <1>5, <2>1, <2>2, <2>3, StageNumbers DEF Remembered
  <2>4. CASE q # s /\ q <= s
    BY <1>1, <1>5, <2>1, <2>2, <2>4, StageNumbers
  <2>5. CASE q > s
    BY <1>1, <1>5, <2>1, <2>2, <2>5, StageNumbers
  <2>6. QED  BY <1>1, <2>3, <2>4, <2>5, StageNumbers
<1>8. QED  BY <1>4, <1>6, <1>7 DEF RowOK, new

\* A stage's work is done: its checkpoint is recorded, or its chunks staged.
LEMMA DoneRow ==
  ASSUME NEW row, RowOK(row),
         row.state = "saving" \/ (row.state = "writing" /\ row.stage = Store)
  PROVE  LET new == [row EXCEPT !.state = "done"]
         IN RowOK(new) /\ new.fence = row.fence /\ new.stage = row.stage
            /\ new.state = "done" /\ new.output = row.output
BY StageNumbers DEF RowOK, Placed, Remembers, WorkerRow

\* One worker's row changes, with its claim or without one.
LEMMA OneRow ==
  ASSUME PInv, NEW w \in Workers, NEW row, RowOK(row), row.fence \in {0, worker[w].fence},
         worker' = [worker EXCEPT ![w] = row], nextFence' = nextFence
  PROVE  WorkersInv' /\ \A v \in Workers : worker'[v] = IF v = w THEN row ELSE worker[v]
<1>1. \A v \in Workers : worker'[v] = IF v = w THEN row ELSE worker[v]
  BY DEF PInv, WorkersInv
<1>2. worker' \in [Workers -> WorkerRow]
  BY DEF PInv, WorkersInv, RowOK
<1>3. \A v \in Workers : RowOK(worker'[v])
  BY <1>1 DEF PInv, WorkersInv
<1>4. \A v \in Workers : worker'[v].fence < nextFence'
  BY <1>1 DEF PInv, WorkersInv, RunInv
<1>5. \A v \in Workers : \A u \in Workers \ {v} :
        worker'[u].fence = worker'[v].fence => worker'[v].fence = 0
  BY <1>1 DEF PInv, WorkersInv
<1>6. QED  BY <1>1, <1>2, <1>3, <1>4, <1>5 DEF WorkersInv

-----------------------------------------------------------------------------
(* One lemma per action: the tables.                                       *)

LEMMA InitPInv == Init => PInv
<1> SUFFICES ASSUME Init PROVE PInv
  OBVIOUS
<1>1. RunInv /\ attempt \in AttemptRows /\ FilesInv /\ faults \in 0 .. MaxFaults
  BY StageNumbers, ConstantsAssumption
     DEF Init, RunInv, RunRow, Leased, AttemptRows, Absent, Outcomes, FilesInv
<1>2. CheckpointInv /\ VersionInv
  BY DEF Init, CheckpointInv, VersionInv, Remembered
<1>3. WorkersInv
  BY IdleRow DEF Init, WorkersInv, RowOK
<1>4. StagedInv
  BY IdleRow DEF Init, StagedInv, Current
<1>5. QED  BY <1>1, <1>2, <1>3, <1>4 DEF PInv

\* What a reclaim leaves of the run and of the history.
LEMMA ReclaimTypes ==
  ASSUME PInv
  PROVE  /\ Queued(run) \in RunRow
         /\ Queued(run).status = "QUEUED" /\ Queued(run).fence = 0
         /\ Queued(run).lease = "none"
         /\ Leased => Queued(run).attempts = run.attempts - 1
         /\ SupersededOf(attempt) \in AttemptRows
<1>1. run \in RunRow /\ (Leased => run.attempts > 0) /\ MaxAttempts \in Nat
  BY ConstantsAssumption DEF PInv, RunInv
<1>2. (IF run.attempts > 0 THEN run.attempts - 1 ELSE 0) \in 0 .. MaxAttempts
  BY <1>1 DEF RunRow
<1>3. /\ Queued(run) \in RunRow
      /\ Queued(run).status = "QUEUED" /\ Queued(run).fence = 0
      /\ Queued(run).lease = "none"
      /\ Leased => Queued(run).attempts = run.attempts - 1
  BY <1>1, <1>2 DEF RunRow, Queued
<1>4. \A k \in Fences \X Stages :
        SupersededOf(attempt)[k] \in [outcome : Outcomes, attempt : 0 .. MaxAttempts]
  BY DEF PInv, AttemptRows, SupersededOf, Outcomes
<1>5. SupersededOf(attempt) \in AttemptRows
  <2>1. /\ DOMAIN SupersededOf(attempt) = Fences \X Stages
        /\ SupersededOf(attempt) = [k \in Fences \X Stages |-> SupersededOf(attempt)[k]]
    BY DEF SupersededOf, PInv, AttemptRows
  <2>2. QED  BY <1>4, <2>1 DEF AttemptRows
<1>6. QED  BY <1>3, <1>5

LEMMA ReclaimKeepsP ==
  ASSUME PInv, Reclaim
  PROVE  PInv'
<1>1. Leased
  BY DEF Reclaim, Expired, Leased
<1>2. RunInv'
  BY <1>1, ReclaimTypes DEF Reclaim, RunInv, Leased, PInv, RunRow
<1>3. attempt' \in AttemptRows
  BY ReclaimTypes DEF Reclaim
<1>4. StagedInv'
  BY ReclaimTypes DEF Reclaim, StagedInv, Leased
<1>5. FilesInv' /\ CheckpointInv' /\ WorkersInv' /\ VersionInv'
  BY DEF Reclaim, PInv, FilesInv, CheckpointInv, WorkersInv, VersionInv
<1>6. QED  BY <1>2, <1>3, <1>4, <1>5 DEF PInv, Reclaim

\* The run that a claim starts from.
LEMMA BaseTypes ==
  ASSUME PInv
  PROVE  Base \in RunRow /\ (Claimable \/ Expired => Base.fence = 0 /\ Base.lease = "none")
<1>1. CASE Expired
  BY <1>1, ReclaimTypes DEF Base
<1>2. CASE ~Expired
  BY <1>2 DEF Base, Claimable, PInv, RunInv, Leased
<1>3. QED  BY <1>1, <1>2

LEMMA ClaimKeepsP ==
  ASSUME PInv, NEW w \in Workers, Claim(w)
  PROVE  PInv'
<1> DEFINE n == Base.attempts + 1
           row == [Idle EXCEPT !.state = "done", !.fence = nextFence, !.attempt = n]
           rows == IF Expired THEN SupersededOf(attempt) ELSE attempt
<1>1. /\ Base \in RunRow /\ n \in 1 .. MaxAttempts /\ nextFence \in Fences /\ MaxClaims \in Nat
  BY BaseTypes, ConstantsAssumption DEF Claim, PInv, RunInv, RunRow, Fences
<1>2. RowOK(row) /\ row.fence = nextFence /\ row.stage = Metadata /\ row.state = "done"
  <2>1. /\ Idle \in WorkerRow /\ Idle.stage = Metadata /\ Idle.output = NoMemory
    BY IdleRow DEF RowOK, Idle
  <2> HIDE DEF n
  <2>2. /\ row \in WorkerRow /\ row.fence = nextFence /\ row.stage = Metadata
        /\ row.state = "done" /\ row.output = NoMemory
    <3>1. n \in 0 .. MaxAttempts /\ nextFence \in {0} \cup Fences
      BY <1>1 DEF n
    <3>2. QED  BY <2>1, <3>1 DEF WorkerRow
  <2> HIDE DEF row
  <2>3. Placed(row) /\ Remembers(row)
    BY <1>1, <2>2, StageNumbers DEF Placed, Remembers, NoMemory, Remembered, Fences
  <2>4. QED  BY <2>2, <2>3 DEF RowOK
<1>3. /\ run' \in RunRow /\ run'.status = "RUNNING" /\ run'.fence = nextFence
      /\ run'.lease = "live" /\ run'.attempts = n
  <2>1. run' = [Base EXCEPT !.status = "RUNNING", !.fence = nextFence, !.lease = "live",
                            !.attempts = n, !.retryAt = "none", !.stage = Metadata]
    BY DEF Claim
  <2>2. Metadata \in Stages /\ n \in 0 .. MaxAttempts
    BY <1>1, StageNumbers
  <2> HIDE DEF n
  <2>3. QED  BY <1>1, <2>1, <2>2 DEF RunRow
<1>4. nextFence' = nextFence + 1 /\ nextFence \in 1 .. MaxClaims
  BY <1>1 DEF Claim, Fences
<1>5. RunInv'
  BY <1>1, <1>3, <1>4 DEF RunInv, Leased
<1>6. attempt' \in AttemptRows
  <2>1. rows \in AttemptRows
    BY ReclaimTypes DEF PInv
  <2>2. [outcome |-> "RUNNING", attempt |-> n] \in [outcome : Outcomes, attempt : 0 .. MaxAttempts]
    BY <1>1 DEF Outcomes
  <2> HIDE DEF n, rows
  <2>3. attempt' = [rows EXCEPT ![<<nextFence, Metadata>>] = [outcome |-> "RUNNING", attempt |-> n]]
    BY DEF Claim, AttemptKey, n, rows
  <2>4. QED  BY <2>1, <2>2, <2>3 DEF AttemptRows
<1> HIDE DEF row
<1>7. worker' = [worker EXCEPT ![w] = row]
  BY DEF Claim, row
<1>8. \A v \in Workers : worker'[v] = IF v = w THEN row ELSE worker[v]
  BY <1>7 DEF PInv, WorkersInv
<1>9. WorkersInv'
  <2>1. worker' \in [Workers -> WorkerRow]
    BY <1>2, <1>7 DEF PInv, WorkersInv, RowOK
  <2>2. \A v \in Workers : RowOK(worker'[v]) /\ worker'[v].fence < nextFence'
    BY <1>2, <1>4, <1>8 DEF PInv, WorkersInv, WorkerRow, Fences
  <2>3. \A v \in Workers : \A u \in Workers \ {v} :
          worker'[u].fence = worker'[v].fence => worker'[v].fence = 0
    BY <1>2, <1>4, <1>8 DEF PInv, WorkersInv
  <2>4. QED  BY <2>1, <2>2, <2>3 DEF WorkersInv
<1>10. StagedInv'
  <2>1. \A v \in Workers : Current(v)' => v = w
    BY <1>3, <1>4, <1>8 DEF Current, PInv, WorkersInv
  <2>2. QED  BY <2>1, <1>2, <1>8, StageNumbers DEF StagedInv, PastStore
<1>11. CheckpointInv'
  BY <1>4 DEF Claim, PInv, CheckpointInv, CheckpointRow, Fences
<1>12. FilesInv' /\ VersionInv' /\ faults' \in 0 .. MaxFaults
  BY DEF Claim, PInv, FilesInv, VersionInv
<1>13. QED  BY <1>5, <1>6, <1>9, <1>10, <1>11, <1>12 DEF PInv

\* The calls that a worker's own row is all they change, besides the tables
\* that the caller names.
LEMMA SameTables ==
  ASSUME PInv
  PROVE  /\ UNCHANGED <<run, nextFence>> => RunInv'
         /\ UNCHANGED attempt => (attempt \in AttemptRows)'
         /\ UNCHANGED <<artifacts, damaged>> => FilesInv'
         /\ UNCHANGED <<checkpoint, nextFence>> => CheckpointInv'
         /\ UNCHANGED <<worker, nextFence>> => WorkersInv'
         /\ UNCHANGED <<run, worker, staged>> => StagedInv'
         /\ UNCHANGED <<staged, published>> => VersionInv'
         /\ UNCHANGED faults => (faults \in 0 .. MaxFaults)'
BY DEF PInv, RunInv, Leased, FilesInv, CheckpointInv, WorkersInv, StagedInv, Current, VersionInv

\* One worker's row changes while the run's claim stays the same: only a row
\* that was past STORE already may be past STORE.
LEMMA StagedStays ==
  ASSUME PInv, NEW w \in Workers, NEW row,
         \A v \in Workers : worker'[v] = IF v = w THEN row ELSE worker[v],
         run'.fence = run.fence, run'.status = run.status, Leased' => Leased,
         staged' = staged,
         PastStore(row) => /\ PastStore(worker[w]) /\ worker[w].state # "idle"
                           /\ row.fence = worker[w].fence /\ row.output = worker[w].output
  PROVE  StagedInv'
<1> SUFFICES ASSUME NEW v \in Workers, Leased', Current(v)', PastStore(worker'[v])
             PROVE  staged' = worker'[v].output[Embed]
  BY DEF StagedInv, PastStore
<1>1. CASE v = w
  BY <1>1 DEF PInv, StagedInv, Current
<1>2. CASE v # w
  BY <1>2 DEF PInv, StagedInv, Current
<1>3. QED  BY <1>1, <1>2

\* The input of a computing stage is an output of the one before.
LEMMA InputIsOutput ==
  ASSUME NEW w \in Workers, RowOK(worker[w]), worker[w].stage \in Computing
  PROVE  Input(w) \in Output(worker[w].stage - 1)
<1>1. CASE worker[w].stage = Parse
  BY <1>1, EmptyIsOutput, StageNumbers DEF Input
<1>2. CASE worker[w].stage # Parse
  BY <1>2, StageNumbers DEF Input, RowOK, Remembers, Remembered
<1>3. QED  BY <1>1, <1>2

LEMMA SetStageKeepsP ==
  ASSUME PInv, NEW w \in Workers, SetStage(w)
  PROVE  PInv'
<1> DEFINE next == worker[w].stage + 1
           fails == [Entering(w) EXCEPT !.state = "failing"]
<1>1. /\ worker[w].state = "done" /\ RowOK(worker[w]) /\ worker[w].stage \in 1 .. 5
      /\ next \in Stages /\ Leased /\ Current(w)
  BY StageNumbers
     DEF SetStage, PInv, WorkersInv, RowOK, Placed, WorkerRow, Writable, Current, Leased
<1>2. /\ run' \in RunRow /\ run'.stage = next /\ run'.lease = "live"
      /\ run'.status = run.status /\ run'.fence = run.fence /\ run'.attempts = run.attempts
  BY <1>1 DEF SetStage, PInv, RunInv, RunRow
<1>3. RunInv'
  BY <1>1, <1>2 DEF SetStage, PInv, RunInv, Leased
<1>4. attempt' \in AttemptRows
  <2> DEFINE rows == Completed(attempt, next)
             opened == [outcome |-> "RUNNING", attempt |-> run.attempts]
  <2>1. opened \in [outcome : Outcomes, attempt : 0 .. MaxAttempts]
    BY DEF PInv, RunInv, RunRow, Outcomes
  <2>2. /\ DOMAIN rows = Fences \X Stages
        /\ \A k \in Fences \X Stages :
             rows[k] \in [outcome : Outcomes, attempt : 0 .. MaxAttempts]
    BY DEF PInv, AttemptRows, Completed, Outcomes
  <2>3. rows = [k \in Fences \X Stages |-> rows[k]]
    BY DEF PInv, AttemptRows, Completed
  <2>4. attempt' = [rows EXCEPT ![<<run.fence, next>>] = opened]
    BY DEF SetStage, AttemptKey
  <2> HIDE DEF rows, opened
  <2>5. rows \in AttemptRows
    BY <2>2, <2>3 DEF AttemptRows
  <2>6. QED  BY <2>1, <2>4, <2>5 DEF AttemptRows
<1>5. PICK row \in {Entering(w), fails} : worker' = [worker EXCEPT ![w] = row]
  BY DEF SetStage, Returns
<1>6. /\ RowOK(row) /\ row.fence = worker[w].fence /\ row.stage = next
      /\ row.output = worker[w].output /\ row.state # "done"
  <2>1. CASE row = Entering(w)
    BY <1>1, <2>1, EnteringRow
  <2>2. CASE row = fails
    <3>1. /\ RowOK(Entering(w)) /\ Entering(w).fence = worker[w].fence
          /\ Entering(w).stage = next /\ Entering(w).output = worker[w].output
      BY <1>1, EnteringRow
    <3>2. QED  BY <2>2, <3>1, FailingRow
  <2>3. QED  BY <2>1, <2>2
<1> HIDE DEF fails
<1>7. WorkersInv' /\ \A v \in Workers : worker'[v] = IF v = w THEN row ELSE worker[v]
  BY <1>5, <1>6, OneRow DEF SetStage
<1>8. PastStore(row) => PastStore(worker[w])
  BY <1>1, <1>6, StageNumbers DEF PastStore
<1>9. staged' = staged
  BY DEF SetStage
<1>10. StagedInv'
  BY <1>1, <1>2, <1>6, <1>7, <1>8, <1>9, StagedStays
<1>11. QED  BY <1>3, <1>4, <1>7, <1>10, SameTables DEF SetStage, PInv

LEMMA CallFailsKeepsP ==
  ASSUME PInv, NEW w \in Workers, CallFails(w)
  PROVE  PInv'
<1> DEFINE from == IF worker[w].state = "done" THEN Entering(w) ELSE worker[w]
           row == [from EXCEPT !.state = "failing"]
<1>1. RowOK(worker[w]) /\ worker[w].stage \in Stages /\ worker[w].state # "idle"
  BY DEF CallFails, PInv, WorkersInv, RowOK, WorkerRow
<1>2. /\ RowOK(from) /\ from.fence = worker[w].fence /\ from.output = worker[w].output
      /\ from.stage = IF worker[w].state = "done" THEN worker[w].stage + 1 ELSE worker[w].stage
  BY <1>1, EnteringRow
<1>3. worker' = [worker EXCEPT ![w] = row] /\ UNCHANGED <<run, nextFence, staged>>
  BY DEF CallFails
<1> HIDE DEF from
<1>4. /\ RowOK(row) /\ row.fence = worker[w].fence /\ row.stage = from.stage
      /\ row.state = "failing" /\ row.output = worker[w].output
  BY <1>2, FailingRow
<1> HIDE DEF row
<1>5. WorkersInv' /\ \A v \in Workers : worker'[v] = IF v = w THEN row ELSE worker[v]
  BY <1>3, <1>4, OneRow
<1>6. PastStore(row) => PastStore(worker[w])
  BY <1>1, <1>2, <1>4, StageNumbers DEF PastStore
<1>7. StagedInv'
  BY <1>1, <1>3, <1>4, <1>5, <1>6, StagedStays DEF Leased
<1>8. QED  BY <1>5, <1>7, SameTables DEF CallFails, PInv

LEMMA LoadKeepsP ==
  ASSUME PInv, NEW w \in Workers, LoadResumes(w) \/ LoadMisses(w)
  PROVE  PInv'
<1>1. RowOK(worker[w]) /\ worker[w].state = "loading" /\ worker[w].stage \in Computing
      /\ worker[w] \in WorkerRow
  BY DEF LoadResumes, LoadMisses, PInv, WorkersInv, RowOK, Placed
<1>2. UNCHANGED <<run, nextFence, staged>>
  BY DEF LoadResumes, LoadMisses
<1>3. PICK row : /\ worker' = [worker EXCEPT ![w] = row]
                 /\ RowOK(row) /\ row.fence = worker[w].fence /\ row.stage = worker[w].stage
  <2>1. CASE LoadResumes(w)
    <3> DEFINE s == worker[w].stage
               x == checkpoint[s].output
               row == [worker[w] EXCEPT !.state = "done", !.output[s] = x]
    <3>1. checkpoint[s] # None /\ checkpoint[s].input = Input(w)
      BY <2>1 DEF LoadResumes, Matches
    <3>2. x \in Output(s) /\ Begins(Input(w), x, s - 1)
      BY <1>1, <3>1 DEF PInv, CheckpointInv, CheckpointRow
    <3>3. x # None /\ s \in 1 .. 4
      BY <1>1, <3>2, OutputIsSeq, StageNumbers
    <3>4. s # Parse => Begins(worker[w].output[s - 1], x, s - 1)
      BY <3>2 DEF Input
    <3>5. worker' = [worker EXCEPT ![w] = row]
      BY <2>1 DEF LoadResumes, PInv, WorkersInv
    <3>6. RowOK(row) /\ row.fence = worker[w].fence /\ row.stage = s
      <4> HIDE DEF x
      <4>1. QED  BY <1>1, <3>2, <3>3, <3>4, OutputRow
    <3>7. QED  BY <3>5, <3>6
  <2>2. CASE LoadMisses(w)
    <3> DEFINE row == [worker[w] EXCEPT !.state = "computing"]
    <3>1. worker' = [worker EXCEPT ![w] = row]
      BY <2>2 DEF LoadMisses
    <3>2. RowOK(row) /\ row.fence = worker[w].fence /\ row.stage = worker[w].stage
      BY <1>1, StageNumbers DEF RowOK, Placed, Remembers, WorkerRow
    <3>3. QED  BY <3>1, <3>2
  <2>3. QED  BY <2>1, <2>2
<1>4. WorkersInv' /\ \A v \in Workers : worker'[v] = IF v = w THEN row ELSE worker[v]
  BY <1>2, <1>3, OneRow
<1>5. ~PastStore(row)
  BY <1>1, <1>3, StageNumbers DEF PastStore
<1>6. StagedInv'
  BY <1>2, <1>4, <1>5, StagedStays DEF Leased
<1>7. QED  BY <1>2, <1>4, <1>6, SameTables DEF LoadResumes, LoadMisses, PInv

LEMMA ComputeKeepsP ==
  ASSUME PInv, NEW w \in Workers, NEW t \in Variants, Compute(w, t)
  PROVE  PInv'
<1> DEFINE s == worker[w].stage
           x == Append(Input(w), t)
           row == [worker[w] EXCEPT !.state = "saving", !.output[s] = x]
<1>1. RowOK(worker[w]) /\ worker[w].state = "computing" /\ s \in Computing
      /\ worker[w] \in WorkerRow
  BY DEF Compute, PInv, WorkersInv, RowOK, Placed
<1>2. UNCHANGED <<run, nextFence, staged>>
  BY DEF Compute
<1>3. Input(w) \in Output(s - 1)
  BY <1>1, InputIsOutput
<1>4. x \in Output(s) /\ x \in Content /\ x # None /\ Begins(Input(w), x, s - 1)
  BY <1>1, <1>3, OutputGrows
<1>5. s # Parse => Begins(worker[w].output[s - 1], x, s - 1)
  BY <1>4 DEF Input
<1>6. worker' = [worker EXCEPT ![w] = row]
  BY DEF Compute, PInv, WorkersInv
<1>7. artifacts' = artifacts \cup {x} /\ UNCHANGED damaged
  BY DEF Compute
<1> HIDE DEF x
<1>8. RowOK(row) /\ row.fence = worker[w].fence /\ row.stage = s
  BY <1>1, <1>4, <1>5, OutputRow, ZenonT(40)
<1>9. WorkersInv' /\ \A v \in Workers : worker'[v] = IF v = w THEN row ELSE worker[v]
  <2> HIDE DEF row
  <2>1. QED  BY <1>2, <1>6, <1>8, OneRow
<1>10. ~PastStore(row)
  BY <1>1, <1>8, StageNumbers DEF PastStore
<1> HIDE DEF row
<1>11. StagedInv'
  BY <1>2, <1>9, <1>10, StagedStays DEF Leased
<1>12. FilesInv'
  BY <1>4, <1>7 DEF PInv, FilesInv
<1>13. QED  BY <1>2, <1>9, <1>11, <1>12, SameTables DEF Compute, PInv

LEMMA SaveCheckpointKeepsP ==
  ASSUME PInv, NEW w \in Workers, SaveCheckpoint(w)
  PROVE  PInv'
<1> DEFINE s == worker[w].stage
           done == [worker[w] EXCEPT !.state = "done"]
           fails == [done EXCEPT !.state = "failing"]
           saved == [input |-> Input(w), output |-> worker[w].output[s], fence |-> worker[w].fence]
<1>1. /\ RowOK(worker[w]) /\ worker[w].state = "saving" /\ s \in Computing
      /\ worker[w] \in WorkerRow /\ worker[w].fence \in Fences
      /\ worker[w].fence < nextFence
  BY DEF SaveCheckpoint, PInv, WorkersInv, RowOK, Placed, WorkerRow
<1>2. /\ UNCHANGED <<run, nextFence, staged>>
      /\ checkpoint' = [checkpoint EXCEPT ![s] = saved]
  BY DEF SaveCheckpoint
<1>3. Input(w) \in Output(s - 1)
  BY <1>1, InputIsOutput
<1>4. /\ worker[w].output[s] \in Output(s)
      /\ s # Parse => Begins(worker[w].output[s - 1], worker[w].output[s], s - 1)
  BY <1>1 DEF RowOK, Remembers, Remembered
<1>5. saved \in CheckpointRow(s)
  <2>1. s = Parse => Input(w) = <<>>
    BY DEF Input
  <2>2. QED  BY <1>1, <1>3, <1>4, <2>1 DEF CheckpointRow
<1>6. Begins(Input(w), worker[w].output[s], s - 1)
  BY <1>1, <1>4, StageNumbers DEF Input, Begins
<1>7. CheckpointInv'
  <2>1. \A q \in Computing : checkpoint'[q] = IF q = s THEN saved ELSE checkpoint[q]
    BY <1>2 DEF PInv, CheckpointInv
  <2>2. DOMAIN checkpoint' = Computing
    BY <1>2 DEF PInv, CheckpointInv
  <2>3. /\ saved.fence < nextFence'
        /\ Begins(saved.input, saved.output, s - 1)
    BY <1>1, <1>2, <1>6
  <2> HIDE DEF saved
  <2>4. QED  BY <1>2, <1>5, <2>1, <2>2, <2>3 DEF PInv, CheckpointInv
<1>8. PICK row \in {done, fails} : worker' = [worker EXCEPT ![w] = row]
  BY DEF SaveCheckpoint, Returns
<1>9. RowOK(row) /\ row.fence = worker[w].fence /\ row.stage = s
  <2>1. RowOK(done) /\ done.fence = worker[w].fence /\ done.stage = s
    BY <1>1, DoneRow
  <2> HIDE DEF done
  <2>2. RowOK(fails) /\ fails.fence = worker[w].fence /\ fails.stage = s
    BY <2>1, FailingRow
  <2>3. QED  BY <2>1, <2>2
<1> HIDE DEF done, fails
<1>10. WorkersInv' /\ \A v \in Workers : worker'[v] = IF v = w THEN row ELSE worker[v]
  BY <1>2, <1>8, <1>9, OneRow
<1>11. ~PastStore(row)
  BY <1>1, <1>9, StageNumbers DEF PastStore
<1>12. StagedInv'
  BY <1>2, <1>10, <1>11, StagedStays DEF Leased
<1>13. QED  BY <1>7, <1>10, <1>12, <1>2, SameTables DEF SaveCheckpoint, PInv

LEMMA StoreChunksKeepsP ==
  ASSUME PInv, NEW w \in Workers, StoreChunks(w)
  PROVE  PInv'
<1> DEFINE done == [worker[w] EXCEPT !.state = "done"]
           fails == [done EXCEPT !.state = "failing"]
<1>1. /\ RowOK(worker[w]) /\ worker[w].state = "writing" /\ worker[w].stage = Store
      /\ Leased /\ Current(w) /\ worker[w].fence # 0
  BY DEF StoreChunks, PInv, WorkersInv, RowOK, Placed, Writable, Leased
<1>2. /\ run' \in RunRow /\ run'.lease = "live" /\ run'.status = run.status
      /\ run'.fence = run.fence /\ run'.attempts = run.attempts
  <2>1. run' = [run EXCEPT !.stage = Store, !.lease = "live"] /\ run \in RunRow /\ Store \in Stages
    BY StageNumbers DEF StoreChunks, PInv, RunInv
  <2>2. QED  BY <2>1 DEF RunRow
<1>3. RunInv'
  BY <1>1, <1>2 DEF StoreChunks, PInv, RunInv, Leased
<1>4. staged' = worker[w].output[Embed] /\ worker[w].output[Embed] \in Remembered(Embed)
  BY <1>1, StageNumbers DEF StoreChunks, RowOK, Remembers
<1>5. VersionInv'
  BY <1>4 DEF StoreChunks, PInv, VersionInv
<1>6. PICK row \in {done, fails} : worker' = [worker EXCEPT ![w] = row]
  BY DEF StoreChunks, Returns
<1>7. RowOK(row) /\ row.fence = worker[w].fence /\ row.output = worker[w].output
  <2>1. RowOK(done) /\ done.fence = worker[w].fence /\ done.output = worker[w].output
    BY <1>1, DoneRow
  <2> HIDE DEF done
  <2>2. RowOK(fails) /\ fails.fence = worker[w].fence /\ fails.output = worker[w].output
    BY <2>1, FailingRow
  <2>3. QED  BY <2>1, <2>2
<1> HIDE DEF done, fails
<1>8. WorkersInv' /\ \A v \in Workers : worker'[v] = IF v = w THEN row ELSE worker[v]
  BY <1>6, <1>7, OneRow DEF StoreChunks
<1>9. StagedInv'
  <2> SUFFICES ASSUME NEW v \in Workers, Current(v)'
               PROVE  staged' = worker'[v].output[Embed]
    BY DEF StagedInv
  <2>1. v = w
    BY <1>1, <1>2, <1>7, <1>8 DEF Current, PInv, WorkersInv
  <2>2. QED  BY <2>1, <1>4, <1>7, <1>8
<1>10. QED  BY <1>3, <1>5, <1>8, <1>9, SameTables DEF StoreChunks, PInv

LEMMA RecordedTypes ==
  ASSUME PInv, NEW w \in Workers, NEW s \in Stages, NEW outcome \in Outcomes
  PROVE  Recorded(attempt, w, s, outcome) \in AttemptRows
<1>1. [outcome |-> outcome, attempt |-> worker[w].attempt]
        \in [outcome : Outcomes, attempt : 0 .. MaxAttempts]
  BY DEF PInv, WorkersInv, WorkerRow
<1>2. QED  BY <1>1 DEF PInv, AttemptRows, Recorded

LEMMA FinalizeKeepsP ==
  ASSUME PInv, NEW w \in Workers, Finalize(w)
  PROVE  PInv'
<1> DEFINE fails == [Idle EXCEPT !.state = "failing"]
<1>1. /\ RowOK(worker[w]) /\ worker[w].stage = Activate /\ staged # None
      /\ Leased /\ Current(w)
  BY DEF Finalize, PInv, WorkersInv, Writable, Leased
<1>2. staged = worker[w].output[Embed]
  BY <1>1 DEF PInv, StagedInv, PastStore
<1>3. PICK outcome \in {"SUCCEEDED", "SUPERSEDED"} :
        /\ run' = [run EXCEPT !.status = outcome, !.lease = "none"]
        /\ attempt' = Recorded(attempt, w, Activate, outcome)
        /\ published' = IF outcome = "SUCCEEDED"
                        THEN [pages |-> worker[w].output[Parse], chunks |-> staged]
                        ELSE None
  BY DEF Finalize
<1>4. RunInv'
  <2>1. run' \in RunRow /\ run'.status = outcome /\ run'.lease = "none" /\ run'.fence = run.fence
    BY <1>3 DEF PInv, RunInv, RunRow
  <2>2. QED  BY <2>1 DEF Finalize, PInv, RunInv, Leased
<1>5. attempt' \in AttemptRows
  BY <1>3, RecordedTypes, StageNumbers DEF Outcomes
<1>6. VersionInv'
  <2>1. /\ worker[w].output[Parse] \in Output(Parse)
        /\ worker[w].output[Embed] \in Output(Embed)
        /\ Begins(worker[w].output[Parse], worker[w].output[Chunk], Parse)
        /\ Begins(worker[w].output[Chunk], worker[w].output[Embed], Chunk)
    BY <1>1, StageNumbers DEF RowOK, Remembers, Remembered
  <2>2. Begins(worker[w].output[Parse], worker[w].output[Embed], Parse)
    BY <2>1, StageNumbers DEF Begins
  <2>3. CASE outcome = "SUCCEEDED"
    <3>1. published' = [pages |-> worker[w].output[Parse], chunks |-> worker[w].output[Embed]]
      BY <1>2, <1>3, <2>3
    <3>2. QED  BY <2>1, <2>2, <3>1 DEF Finalize, PInv, VersionInv
  <2>4. CASE outcome # "SUCCEEDED"
    BY <1>3, <2>4 DEF Finalize, PInv, VersionInv
  <2>5. QED  BY <2>3, <2>4
<1>7. PICK row \in {Idle, fails} : worker' = [worker EXCEPT ![w] = row]
  BY DEF Finalize, Returns
<1>8. RowOK(row) /\ row.fence = 0
  BY IdleRow
<1> HIDE DEF fails
<1>9. WorkersInv'
  BY <1>7, <1>8, OneRow DEF Finalize
<1>10. StagedInv'
  BY <1>3 DEF StagedInv, Leased, PInv, RunInv, RunRow
<1>11. QED  BY <1>4, <1>5, <1>6, <1>9, <1>10, SameTables DEF Finalize, PInv

LEMMA FailKeepsP ==
  ASSUME PInv, NEW w \in Workers, Fail(w)
  PROVE  PInv'
<1> DEFINE s == worker[w].stage
<1>1. Leased /\ Current(w) /\ s \in Stages
  BY DEF Fail, PInv, WorkersInv, WorkerRow, Writable, Leased
<1>2. /\ run' \in RunRow /\ run'.lease = "none"
      /\ \/ run'.fence = 0
         \/ run'.status = "FAILED" /\ run'.fence = run.fence
  <2>1. \/ run' = [run EXCEPT !.stage = s, !.fence = 0, !.lease = "none", !.retryAt = "waiting"]
        \/ run' = [run EXCEPT !.status = "FAILED", !.stage = s, !.lease = "none"]
    BY DEF Fail
  <2>2. run \in RunRow
    BY DEF PInv, RunInv
  <2> HIDE DEF s
  <2>3. QED  BY <1>1, <2>1, <2>2 DEF RunRow, Fences
<1>3. RunInv'
  BY <1>2 DEF Fail, PInv, RunInv, Leased
<1>4. attempt' \in AttemptRows
  BY <1>1, RecordedTypes DEF Fail, Outcomes
<1>5. WorkersInv'
  BY IdleRow, OneRow DEF Fail, Released
<1>6. StagedInv'
  BY <1>2 DEF StagedInv, Leased
<1>7. QED  BY <1>3, <1>4, <1>5, <1>6, SameTables DEF Fail, PInv

\* A worker that lost its claim, or that stops, forgets it.
LEMMA ReleaseKeepsP ==
  ASSUME PInv, NEW w \in Workers, StaleFence(w) \/ WorkerStops(w)
  PROVE  PInv'
<1>1. /\ worker' = [worker EXCEPT ![w] = Idle]
      /\ UNCHANGED <<run, nextFence, staged>>
  BY DEF StaleFence, WorkerStops, Released
<1>2. WorkersInv' /\ \A v \in Workers : worker'[v] = IF v = w THEN Idle ELSE worker[v]
  BY <1>1, IdleRow, OneRow
<1>3. StagedInv'
  BY <1>1, <1>2, IdleRow, StageNumbers, StagedStays DEF Leased, PastStore
<1>4. faults' \in 0 .. MaxFaults
  BY ConstantsAssumption DEF StaleFence, WorkerStops, Fault, PInv
<1>5. QED  BY <1>1, <1>2, <1>3, <1>4, SameTables DEF StaleFence, WorkerStops, PInv

LEMMA TimeKeepsP ==
  ASSUME PInv, LeaseExpires \/ LeaseLapses \/ RetryFallsDue
  PROVE  PInv'
<1>1. /\ run' \in RunRow /\ run'.status = run.status /\ run'.fence = run.fence
      /\ run'.attempts = run.attempts /\ (Leased' <=> Leased)
      /\ UNCHANGED <<nextFence, staged, worker>>
  BY DEF LeaseExpires, LeaseLapses, RetryFallsDue, PInv, RunInv, RunRow, Leased
<1>2. RunInv'
  BY <1>1 DEF PInv, RunInv
<1>3. StagedInv'
  BY <1>1 DEF PInv, StagedInv, Current
<1>4. faults' \in 0 .. MaxFaults
  BY ConstantsAssumption DEF LeaseExpires, LeaseLapses, RetryFallsDue, Fault, PInv
<1>5. QED
  BY <1>2, <1>3, <1>4, SameTables DEF LeaseExpires, LeaseLapses, RetryFallsDue, PInv

LEMMA ArtifactLostKeepsP ==
  ASSUME PInv, NEW content \in Content, ArtifactLost(content)
  PROVE  PInv'
<1>1. FilesInv'
  BY DEF ArtifactLost, PInv, FilesInv
<1>2. faults' \in 0 .. MaxFaults
  BY ConstantsAssumption DEF ArtifactLost, Fault, PInv
<1>3. QED  BY <1>1, <1>2, SameTables DEF ArtifactLost, PInv

LEMMA NextKeepsP == PInv /\ [Next]_vars => PInv'
<1> SUFFICES ASSUME PInv, [Next]_vars PROVE PInv'
  OBVIOUS
<1>1. ASSUME NEW w \in Workers, Claim(w) \/ Process(w) \/ WorkerStops(w)
      PROVE  PInv'
  BY <1>1, ClaimKeepsP, SetStageKeepsP, CallFailsKeepsP, LoadKeepsP, ComputeKeepsP,
     SaveCheckpointKeepsP, StoreChunksKeepsP, FinalizeKeepsP, FailKeepsP, ReleaseKeepsP
     DEF Process
<1>2. CASE UNCHANGED vars
  BY <1>2, SameTables DEF vars, PInv
<1>3. QED
  BY <1>1, <1>2, ReclaimKeepsP, TimeKeepsP, ArtifactLostKeepsP DEF Next

LEMMA TablesInductive == Spec => []PInv
BY InitPInv, NextKeepsP, PTL DEF Spec

\* The rows of the run, its checkpoints and its history, and what workers and
\* the version hold of its content, have their types.
THEOREM TypeCorrect == Spec => []TypeOK
BY TablesInductive, TypesAndParse, PTL

\* What Finalize makes visible was cut from the pages whose number it records,
\* whichever claims computed it and whichever artifacts were lost.
THEOREM OneParse == Spec => []PublishedFromOneParse
BY TablesInductive, TypesAndParse, PTL

-----------------------------------------------------------------------------
(* The history.                                                            *)

LEMMA InitHInv == Init => HInv
<1> SUFFICES ASSUME Init PROVE HInv
  OBVIOUS
<1>1. ~Leased
  BY DEF Init, Leased
<1>2. \A f \in Fences, s \in Stages : attempt[<<f, s>>].outcome = "ABSENT"
  BY DEF Init, Absent
<1>3. QED
  BY <1>1, <1>2 DEF HInv, StageInv, LeaseHistory, OpenInv, FutureInv, HistoryIsTrue

\* Steps that leave the history and what of the run it is about alone.
LEMMA HistoryStays ==
  ASSUME HInv, run'.status = run.status, run'.fence = run.fence, run'.stage = run.stage,
         run'.attempts = run.attempts, Leased' <=> Leased, UNCHANGED <<attempt, nextFence>>
  PROVE  LeaseHistory' /\ OpenInv' /\ FutureInv' /\ HistoryIsTrue'
BY DEF HInv, LeaseHistory, OpenInv, FutureInv, HistoryIsTrue

\* One worker's row changes and the run's stage does not: the worker stays in
\* its stage, or fails to move the run to the next.
LEMMA StageStays ==
  ASSUME HInv, NEW w \in Workers, NEW row,
         \A v \in Workers : worker'[v] = IF v = w THEN row ELSE worker[v],
         run'.status = run.status, run'.fence = run.fence, run'.stage = run.stage,
         Leased' <=> Leased,
         row.state # "idle" =>
           /\ worker[w].state # "idle" /\ row.fence = worker[w].fence
           /\ \/ row.stage = worker[w].stage
                 /\ (row.state # "failing" => worker[w].state # "failing")
              \/ /\ row.stage = worker[w].stage + 1
                 /\ row.state = "failing" /\ worker[w].state # "failing"
  PROVE  StageInv'
<1> SUFFICES ASSUME NEW v \in Workers, Leased', Current(v)'
             PROVE  /\ worker'[v].stage \in {run'.stage, run'.stage + 1}
                    /\ worker'[v].state # "failing" => worker'[v].stage = run'.stage
  BY DEF StageInv
<1>1. CASE v = w
  BY <1>1 DEF HInv, StageInv, Current
<1>2. CASE v # w
  BY <1>2 DEF HInv, StageInv, Current
<1>3. QED  BY <1>1, <1>2

\* StoreChunks finds the run in STORE: it renews the lease, no more.
LEMMA QuietKeepsH ==
  ASSUME PInv, HInv, NEW w \in Workers,
         \/ CallFails(w) \/ LoadResumes(w) \/ LoadMisses(w)
         \/ \E t \in Variants : Compute(w, t)
         \/ SaveCheckpoint(w) \/ StoreChunks(w) \/ StaleFence(w) \/ WorkerStops(w)
  PROVE  HInv'
<1>1. UNCHANGED <<attempt, nextFence>>
  BY DEF CallFails, LoadResumes, LoadMisses, Compute, SaveCheckpoint, StoreChunks, StaleFence,
         WorkerStops
<1>2. /\ run'.status = run.status /\ run'.fence = run.fence /\ run'.stage = run.stage
      /\ run'.attempts = run.attempts /\ (Leased' <=> Leased)
  <2>1. CASE StoreChunks(w)
    <3>1. Leased /\ run.stage = Store
      BY <2>1 DEF StoreChunks, Writable, Leased, HInv, StageInv
    <3>2. run' = [run EXCEPT !.stage = Store, !.lease = "live"] /\ run \in RunRow
      BY <2>1 DEF StoreChunks, PInv, RunInv
    <3>3. QED  BY <3>1, <3>2 DEF RunRow, Leased
  <2>2. CASE ~StoreChunks(w)
    <3>1. run' = run
      BY <2>2 DEF CallFails, LoadResumes, LoadMisses, Compute, SaveCheckpoint, StaleFence,
                  WorkerStops
    <3>2. QED  BY <3>1 DEF Leased
  <2>3. QED  BY <2>1, <2>2
<1>3. worker \in [Workers -> WorkerRow] /\ worker[w] \in WorkerRow /\ RowOK(worker[w])
  BY DEF PInv, WorkersInv, RowOK
<1>4. PICK row :
        /\ worker' = [worker EXCEPT ![w] = row]
        /\ row.state # "idle" =>
             /\ worker[w].state # "idle" /\ row.fence = worker[w].fence
             /\ \/ row.stage = worker[w].stage
                   /\ (row.state # "failing" => worker[w].state # "failing")
                \/ /\ row.stage = worker[w].stage + 1
                   /\ row.state = "failing" /\ worker[w].state # "failing"
  <2>1. CASE CallFails(w)
    <3> DEFINE from == IF worker[w].state = "done" THEN Entering(w) ELSE worker[w]
               row == [from EXCEPT !.state = "failing"]
    <3>1. /\ RowOK(from) /\ from.fence = worker[w].fence
          /\ from.stage = IF worker[w].state = "done" THEN worker[w].stage + 1
                          ELSE worker[w].stage
      BY <1>3, EnteringRow
    <3>2. worker' = [worker EXCEPT ![w] = row] /\ worker[w].state \notin {"idle", "failing"}
      BY <2>1 DEF CallFails
    <3> HIDE DEF from
    <3>3. row.fence = from.fence /\ row.stage = from.stage /\ row.state = "failing"
      BY <3>1, FailingRow
    <3> HIDE DEF row
    <3>4. QED  BY <3>1, <3>2, <3>3
  <2>2. CASE LoadResumes(w) \/ LoadMisses(w) \/ \E t \in Variants : Compute(w, t)
    <3> DEFINE q == worker[w].stage
    <3>1. CASE LoadResumes(w)
      <4> DEFINE row == [worker[w] EXCEPT !.state = "done", !.output[q] = checkpoint[q].output]
      <4>1. worker' = [worker EXCEPT ![w] = row] /\ worker[w].state = "loading"
        BY <1>3, <3>1 DEF LoadResumes
      <4>2. row.fence = worker[w].fence /\ row.stage = q /\ row.state = "done"
        BY <1>3 DEF WorkerRow
      <4> HIDE DEF row
      <4>3. QED  BY <4>1, <4>2
    <3>2. CASE LoadMisses(w)
      <4> DEFINE row == [worker[w] EXCEPT !.state = "computing"]
      <4>1. worker' = [worker EXCEPT ![w] = row] /\ worker[w].state = "loading"
        BY <3>2 DEF LoadMisses
      <4>2. row.fence = worker[w].fence /\ row.stage = q /\ row.state = "computing"
        BY <1>3 DEF WorkerRow
      <4> HIDE DEF row
      <4>3. QED  BY <4>1, <4>2
    <3>3. ASSUME NEW t \in Variants, Compute(w, t)
          PROVE  \E row : /\ worker' = [worker EXCEPT ![w] = row]
                          /\ row.fence = worker[w].fence /\ row.stage = q
                          /\ row.state = "saving" /\ worker[w].state = "computing"
      <4> DEFINE x == Append(Input(w), t)
                 row == [worker[w] EXCEPT !.state = "saving", !.output[q] = x]
      <4>1. worker' = [worker EXCEPT ![w] = row] /\ worker[w].state = "computing"
        BY <1>3, <3>3 DEF Compute
      <4> HIDE DEF x
      <4>2. row.fence = worker[w].fence /\ row.stage = q /\ row.state = "saving"
        BY <1>3 DEF WorkerRow
      <4> HIDE DEF row
      <4>3. QED  BY <4>1, <4>2
    <3>4. QED  BY <2>2, <3>1, <3>2, <3>3
  <2>3. CASE SaveCheckpoint(w) \/ StoreChunks(w)
    <3> DEFINE done == [worker[w] EXCEPT !.state = "done"]
               fails == [done EXCEPT !.state = "failing"]
    <3>1. PICK row \in {done, fails} : worker' = [worker EXCEPT ![w] = row]
      BY <2>3 DEF SaveCheckpoint, StoreChunks, Returns
    <3>2. row.fence = worker[w].fence /\ row.stage = worker[w].stage
      BY <1>3 DEF WorkerRow
    <3>3. worker[w].state \in {"saving", "writing"}
      BY <2>3 DEF SaveCheckpoint, StoreChunks
    <3> HIDE DEF done, fails
    <3>4. QED  BY <3>1, <3>2, <3>3
  <2>4. CASE StaleFence(w) \/ WorkerStops(w)
    BY <2>4, IdleRow DEF StaleFence, WorkerStops, Released
  <2>5. QED  BY <2>1, <2>2, <2>3, <2>4
<1>5. \A v \in Workers : worker'[v] = IF v = w THEN row ELSE worker[v]
  BY <1>3, <1>4
<1>6. StageInv'
  BY <1>2, <1>4, <1>5, StageStays
<1>7. QED  BY <1>1, <1>2, <1>6, HistoryStays DEF HInv

LEMMA TimeKeepsH ==
  ASSUME PInv, HInv,
         \/ LeaseExpires \/ LeaseLapses \/ RetryFallsDue
         \/ \E content \in Content : ArtifactLost(content)
  PROVE  HInv'
<1>1. /\ run'.status = run.status /\ run'.fence = run.fence /\ run'.stage = run.stage
      /\ run'.attempts = run.attempts /\ (Leased' <=> Leased)
      /\ UNCHANGED <<attempt, nextFence, worker>>
  BY DEF LeaseExpires, LeaseLapses, RetryFallsDue, ArtifactLost, PInv, RunInv, RunRow, Leased
<1>2. StageInv'
  BY <1>1 DEF HInv, StageInv, Current
<1>3. QED  BY <1>1, <1>2, HistoryStays DEF HInv

\* The rows after a reclaim.
LEMMA SupersededRows ==
  ASSUME PInv, NEW f \in Fences, NEW s \in Stages
  PROVE  /\ SupersededOf(attempt)[<<f, s>>].attempt = attempt[<<f, s>>].attempt
         /\ SupersededOf(attempt)[<<f, s>>].outcome =
              IF f = run.fence /\ attempt[<<f, s>>].outcome = "RUNNING" THEN "SUPERSEDED"
              ELSE attempt[<<f, s>>].outcome
         /\ f # run.fence => SupersededOf(attempt)[<<f, s>>] = attempt[<<f, s>>]
<1>1. <<f, s>> \in Fences \X Stages /\ DOMAIN attempt = Fences \X Stages
      /\ attempt[<<f, s>>] \in [outcome : Outcomes, attempt : 0 .. MaxAttempts]
  BY DEF PInv, AttemptRows
<1>2. SupersededOf(attempt)[<<f, s>>] =
        IF f = run.fence /\ attempt[<<f, s>>].outcome = "RUNNING"
        THEN [attempt[<<f, s>>] EXCEPT !.outcome = "SUPERSEDED"]
        ELSE attempt[<<f, s>>]
  BY <1>1 DEF SupersededOf
<1>3. QED  BY <1>1, <1>2

LEMMA ReclaimKeepsH ==
  ASSUME PInv, HInv, Reclaim
  PROVE  HInv'
<1>1. /\ Leased /\ ~Leased' /\ run' = Queued(run) /\ run'.fence = 0
      /\ run'.attempts = run.attempts - 1
      /\ attempt' = SupersededOf(attempt) /\ UNCHANGED nextFence
  BY ReclaimTypes DEF Reclaim, Expired, Leased
<1>2. \A f \in Fences, s \in Stages :
        /\ attempt'[<<f, s>>].attempt = attempt[<<f, s>>].attempt
        /\ attempt'[<<f, s>>].outcome =
             IF f = run.fence /\ attempt[<<f, s>>].outcome = "RUNNING" THEN "SUPERSEDED"
             ELSE attempt[<<f, s>>].outcome
  BY <1>1, SupersededRows
<1>3. StageInv' /\ LeaseHistory'
  BY <1>1 DEF StageInv, LeaseHistory
<1>4. FutureInv'
  BY <1>1, <1>2 DEF HInv, FutureInv
<1>5. OpenInv'
  <2> SUFFICES ASSUME NEW f \in Fences, NEW s \in Stages, attempt'[<<f, s>>].outcome = "RUNNING"
               PROVE  /\ s < Activate
                      /\ attempt'[<<f, s + 1>>].outcome \in {"RETRY_SCHEDULED", "FAILED"}
                      /\ attempt'[<<f, s>>].attempt <= run'.attempts
    BY <1>1 DEF OpenInv
  <2>1. /\ attempt[<<f, s>>].outcome = "RUNNING" /\ s < Activate
        /\ attempt[<<f, s + 1>>].outcome \in {"RETRY_SCHEDULED", "FAILED"}
        /\ attempt[<<f, s>>].attempt <= run.attempts - 1
    BY <1>1, <1>2 DEF HInv, OpenInv
  <2>2. s + 1 \in Stages
    BY <2>1, StageNumbers
  <2>3. QED  BY <1>1, <1>2, <2>1, <2>2
<1>6. HistoryIsTrue'
  <2> SUFFICES ASSUME NEW f \in Fences, NEW s \in Stages,
                      attempt'[<<f, s>>].outcome = "SUCCEEDED"
               PROVE  IF s = Activate
                      THEN run'.status = "SUCCEEDED" /\ run'.fence = f
                      ELSE attempt'[<<f, s + 1>>].outcome # "ABSENT"
    BY DEF HistoryIsTrue
  <2>1. attempt[<<f, s>>].outcome = "SUCCEEDED"
    BY <1>2
  <2>2. s # Activate
    BY <1>1, <2>1 DEF HInv, HistoryIsTrue, PInv, RunInv
  <2>3. s + 1 \in Stages /\ attempt[<<f, s + 1>>].outcome # "ABSENT"
    <3>1. attempt[<<f, s + 1>>].outcome # "ABSENT"
      BY <2>1, <2>2 DEF HInv, HistoryIsTrue
    <3>2. QED  BY <2>2, <3>1, StageNumbers
  <2>4. QED  BY <1>2, <2>2, <2>3
<1>7. QED  BY <1>3, <1>4, <1>5, <1>6 DEF HInv

\* A claim opens a row that is not there yet, and leaves all others to the
\* reclaim.
LEMMA ClaimKeepsH ==
  ASSUME PInv, HInv, NEW w \in Workers, Claim(w)
  PROVE  HInv'
<1> DEFINE n == Base.attempts + 1
           rows == IF Expired THEN SupersededOf(attempt) ELSE attempt
           opened == [outcome |-> "RUNNING", attempt |-> n]
<1>1. /\ nextFence \in Fences /\ nextFence' = nextFence + 1
      /\ run'.status = "RUNNING" /\ run'.fence = nextFence /\ run'.attempts = n
      /\ run'.stage = Metadata /\ Leased' /\ n \in Nat
  <2>1. Base \in RunRow
    BY BaseTypes
  <2>2. run' = [Base EXCEPT !.status = "RUNNING", !.fence = nextFence, !.lease = "live",
                            !.attempts = @ + 1, !.retryAt = "none", !.stage = Metadata]
        /\ nextFence <= MaxClaims /\ nextFence' = nextFence + 1
    BY DEF Claim
  <2>3. QED
    BY <2>1, <2>2, ConstantsAssumption DEF RunRow, PInv, RunInv, Fences, Leased
<1>2. rows \in AttemptRows
  BY ReclaimTypes DEF PInv
<1>3. attempt' = [rows EXCEPT ![<<nextFence, Metadata>>] = opened]
  BY DEF Claim, AttemptKey
<1>4. \A f \in Fences, s \in Stages :
        /\ rows[<<f, s>>].attempt = attempt[<<f, s>>].attempt
        /\ rows[<<f, s>>].outcome =
             IF Expired /\ f = run.fence /\ attempt[<<f, s>>].outcome = "RUNNING"
             THEN "SUPERSEDED" ELSE attempt[<<f, s>>].outcome
  BY SupersededRows
<1>5. IF Expired THEN Leased /\ n = run.attempts ELSE ~Leased /\ n = run.attempts + 1
  <2>1. CASE Expired
    BY <2>1, ReclaimTypes DEF Base, Expired, Leased, PInv, RunInv, RunRow
  <2>2. CASE ~Expired
    BY <2>2 DEF Claim, Claimable, Base, Leased, PInv, RunInv
  <2>3. QED  BY <2>1, <2>2
<1> HIDE DEF n, rows
<1>6. \A f \in Fences, s \in Stages :
        attempt'[<<f, s>>] = IF f = nextFence /\ s = Metadata THEN opened ELSE rows[<<f, s>>]
  BY <1>2, <1>3 DEF AttemptRows
<1>7. \A s \in Stages : rows[<<nextFence, s>>].outcome = "ABSENT"
  BY <1>1, <1>4 DEF HInv, FutureInv, PInv, RunInv
<1>8. StageInv'
  <2> DEFINE row == [Idle EXCEPT !.state = "done", !.fence = nextFence, !.attempt = n]
  <2>1. /\ row.stage = Metadata /\ row.state = "done"
        /\ worker' = [worker EXCEPT ![w] = row]
    BY IdleRow DEF Claim, Idle, n
  <2> HIDE DEF row
  <2>2. \A v \in Workers : worker'[v] = IF v = w THEN row ELSE worker[v]
    BY <2>1 DEF PInv, WorkersInv
  <2>3. \A v \in Workers : Current(v)' => v = w
    <3>1. nextFence \in Nat /\ \A v \in Workers : worker[v].fence < nextFence
      BY DEF PInv, WorkersInv, RunInv
    <3>2. QED  BY <1>1, <2>2, <3>1 DEF Current
  <2>4. QED  BY <1>1, <2>1, <2>2, <2>3 DEF StageInv
<1>9. LeaseHistory'
  <2> SUFFICES ASSUME NEW s \in Stages
               PROVE  /\ attempt'[<<nextFence, s>>].outcome = "RUNNING" =>
                           s = Metadata /\ attempt'[<<nextFence, s>>].attempt = n
                      /\ s > Metadata => attempt'[<<nextFence, s>>].outcome = "ABSENT"
    BY <1>1 DEF LeaseHistory
  <2>1. CASE s = Metadata
    <3>1. attempt'[<<nextFence, s>>] = opened
      BY <1>1, <1>6, <2>1
    <3>2. ~(s > Metadata)
      BY <2>1, StageNumbers
    <3>3. QED  BY <2>1, <3>1, <3>2
  <2>2. CASE s # Metadata
    BY <1>1, <1>6, <1>7, <2>2
  <2>3. QED  BY <2>1, <2>2
<1>10. FutureInv'
  BY <1>1, <1>4, <1>6 DEF HInv, FutureInv, PInv, RunInv, Fences
<1>11. OpenInv'
  <2> SUFFICES ASSUME NEW f \in Fences, NEW s \in Stages,
                      attempt'[<<f, s>>].outcome = "RUNNING", f # nextFence
               PROVE  /\ s < Activate
                      /\ attempt'[<<f, s + 1>>].outcome \in {"RETRY_SCHEDULED", "FAILED"}
                      /\ attempt'[<<f, s>>].attempt <= run'.attempts - 1
    BY <1>1 DEF OpenInv
  <2>1. attempt[<<f, s>>].outcome = "RUNNING" /\ ~(Expired /\ f = run.fence)
    BY <1>4, <1>6
  <2>2. ~(Leased /\ run.fence = f)
    BY <2>1, <1>5
  <2>3. /\ s < Activate /\ attempt[<<f, s + 1>>].outcome \in {"RETRY_SCHEDULED", "FAILED"}
        /\ attempt[<<f, s>>].attempt <= n - 1
    BY <2>1, <2>2, <1>5 DEF HInv, OpenInv, PInv, RunInv, RunRow
  <2>4. s + 1 \in Stages
    BY <2>3, StageNumbers
  <2>5. QED  BY <1>1, <1>4, <1>6, <2>3, <2>4
<1>12. HistoryIsTrue'
  <2> SUFFICES ASSUME NEW f \in Fences, NEW s \in Stages,
                      attempt'[<<f, s>>].outcome = "SUCCEEDED"
               PROVE  s # Activate /\ attempt'[<<f, s + 1>>].outcome # "ABSENT"
    BY DEF HistoryIsTrue
  <2>1. attempt[<<f, s>>].outcome = "SUCCEEDED"
    BY <1>4, <1>6
  <2>2. s # Activate
    BY <2>1 DEF HInv, HistoryIsTrue, Claim, Claimable, Expired
  <2>3. s + 1 \in Stages /\ attempt[<<f, s + 1>>].outcome # "ABSENT"
    <3>1. attempt[<<f, s + 1>>].outcome # "ABSENT"
      BY <2>1, <2>2 DEF HInv, HistoryIsTrue
    <3>2. QED  BY <2>2, <3>1, StageNumbers
  <2>4. QED  BY <1>4, <1>6, <2>2, <2>3
<1>13. QED  BY <1>8, <1>9, <1>10, <1>11, <1>12 DEF HInv

\* SetStage completes the stage of its own claim and no other: the rows that
\* other claims left open have earlier attempt numbers.
LEMMA CompletedRows ==
  ASSUME PInv, HInv, Leased, NEW f \in Fences, NEW s \in Stages
  PROVE  LET rows == Completed(attempt, run.stage + 1)
         IN /\ f = run.fence /\ s = run.stage /\ attempt[<<f, s>>].outcome = "RUNNING"
                 => rows[<<f, s>>].outcome = "SUCCEEDED"
            /\ ~(f = run.fence /\ s = run.stage /\ attempt[<<f, s>>].outcome = "RUNNING")
                 => rows[<<f, s>>] = attempt[<<f, s>>]
<1>1. <<f, s>> \in Fences \X Stages /\ DOMAIN attempt = Fences \X Stages
      /\ attempt[<<f, s>>] \in [outcome : Outcomes, attempt : 0 .. MaxAttempts]
      /\ run.attempts \in Nat /\ run.stage \in 1 .. 6
  BY StageNumbers DEF PInv, AttemptRows, RunInv, RunRow
<1> DEFINE closed == /\ attempt[<<f, s>>].attempt = run.attempts
                     /\ s = run.stage /\ run.stage # run.stage + 1
                     /\ attempt[<<f, s>>].outcome = "RUNNING"
<1>2. Completed(attempt, run.stage + 1)[<<f, s>>] =
        IF closed THEN [attempt[<<f, s>>] EXCEPT !.outcome = "SUCCEEDED"] ELSE attempt[<<f, s>>]
  BY <1>1 DEF Completed
<1>3. closed <=> f = run.fence /\ s = run.stage /\ attempt[<<f, s>>].outcome = "RUNNING"
  <2>1. CASE attempt[<<f, s>>].outcome = "RUNNING" /\ f = run.fence
    BY <1>1, <2>1 DEF HInv, LeaseHistory
  <2>2. CASE attempt[<<f, s>>].outcome = "RUNNING" /\ f # run.fence
    <3>1. attempt[<<f, s>>].attempt <= run.attempts - 1
      BY <2>2 DEF HInv, OpenInv
    <3>2. attempt[<<f, s>>].attempt # run.attempts
      BY <1>1, <3>1, ConstantsAssumption
    <3>3. QED  BY <2>2, <3>2
  <2>3. CASE attempt[<<f, s>>].outcome # "RUNNING"
    BY <2>3
  <2>4. QED  BY <2>1, <2>2, <2>3
<1> HIDE DEF closed
<1>4. QED  BY <1>1, <1>2, <1>3

\* What SetStage does, in terms of the run.
LEMMA SetStageFacts ==
  ASSUME PInv, HInv, NEW w \in Workers, SetStage(w)
  PROVE  /\ Leased /\ Leased' /\ Current(w) /\ worker[w].stage = run.stage
         /\ run.stage \in 1 .. 5 /\ run.fence \in Fences
         /\ run'.stage = run.stage + 1 /\ run'.status = run.status
         /\ run'.fence = run.fence /\ run'.attempts = run.attempts /\ nextFence' = nextFence
         /\ \A f \in Fences, s \in Stages :
              attempt'[<<f, s>>] =
                IF f = run.fence /\ s = run.stage + 1
                THEN [outcome |-> "RUNNING", attempt |-> run.attempts]
                ELSE Completed(attempt, run.stage + 1)[<<f, s>>]
<1>1. /\ Leased /\ Current(w) /\ worker[w].stage = run.stage /\ worker[w].state = "done"
  BY DEF SetStage, Writable, Leased, HInv, StageInv
<1>2. run.stage \in 1 .. 5
  BY <1>1, StageNumbers DEF PInv, WorkersInv, RowOK, Placed, WorkerRow
<1>3. run' = [run EXCEPT !.stage = run.stage + 1, !.lease = "live"] /\ nextFence' = nextFence
  BY <1>1 DEF SetStage
<1>4. /\ run'.stage = run.stage + 1 /\ run'.status = run.status /\ run'.lease = "live"
      /\ run'.fence = run.fence /\ run'.attempts = run.attempts /\ run.fence \in Fences
  BY <1>1, <1>3 DEF PInv, RunInv, RunRow
<1> DEFINE rows == Completed(attempt, run.stage + 1)
           opened == [outcome |-> "RUNNING", attempt |-> run.attempts]
<1>5. attempt' = [rows EXCEPT ![<<run.fence, run.stage + 1>>] = opened]
  BY <1>1 DEF SetStage, AttemptKey
<1>6. DOMAIN rows = Fences \X Stages
  BY DEF PInv, AttemptRows, Completed
<1> HIDE DEF rows, opened
<1>7. \A f \in Fences, s \in Stages :
        attempt'[<<f, s>>] = IF f = run.fence /\ s = run.stage + 1 THEN opened ELSE rows[<<f, s>>]
  BY <1>5, <1>6
<1>8. QED  BY <1>1, <1>2, <1>3, <1>4, <1>7 DEF rows, opened, Leased

LEMMA SetStageKeepsH ==
  ASSUME PInv, HInv, NEW w \in Workers, SetStage(w)
  PROVE  HInv'
<1> DEFINE next == run.stage + 1
           rows == Completed(attempt, next)
           opened == [outcome |-> "RUNNING", attempt |-> run.attempts]
<1>1. /\ Leased /\ Leased' /\ Current(w) /\ worker[w].stage = run.stage
      /\ run.stage \in 1 .. 5 /\ run.fence \in Fences /\ next \in Stages
      /\ run'.stage = next /\ run'.status = run.status /\ run.status = "RUNNING"
      /\ run'.fence = run.fence /\ run'.attempts = run.attempts /\ nextFence' = nextFence
  BY SetStageFacts, StageNumbers DEF PInv, RunInv
<1>2. \A f \in Fences, s \in Stages :
        attempt'[<<f, s>>] = IF f = run.fence /\ s = next THEN opened ELSE rows[<<f, s>>]
  BY SetStageFacts
<1>3. \A f \in Fences, s \in Stages :
        /\ f = run.fence /\ s = run.stage /\ attempt[<<f, s>>].outcome = "RUNNING"
             => rows[<<f, s>>].outcome = "SUCCEEDED"
        /\ ~(f = run.fence /\ s = run.stage /\ attempt[<<f, s>>].outcome = "RUNNING")
             => rows[<<f, s>>] = attempt[<<f, s>>]
  BY <1>1, CompletedRows
<1>4. opened.outcome = "RUNNING" /\ opened.attempt = run.attempts
  OBVIOUS
<1> HIDE DEF rows, opened
<1>5. StageInv'
  <2>1. PICK row \in {Entering(w), [Entering(w) EXCEPT !.state = "failing"]} :
          worker' = [worker EXCEPT ![w] = row]
    BY DEF SetStage, Returns
  <2>2. row.stage = next
    <3>1. /\ RowOK(Entering(w)) /\ Entering(w).stage = next
      BY <1>1, EnteringRow DEF SetStage, PInv, WorkersInv
    <3>2. QED  BY <2>1, <3>1 DEF RowOK, WorkerRow
  <2>3. \A v \in Workers : worker'[v] = IF v = w THEN row ELSE worker[v]
    BY <2>1 DEF PInv, WorkersInv
  <2>4. \A v \in Workers : Current(v)' => v = w
    <3>1. run.fence # 0
      BY <1>1 DEF PInv, RunInv
    <3>2. \A v \in Workers \ {w} : worker[v].fence # run.fence
      BY <1>1, <3>1 DEF Current, PInv, WorkersInv
    <3>3. QED  BY <1>1, <2>3, <3>2 DEF Current
  <2>5. QED  BY <1>1, <2>2, <2>3, <2>4, StageNumbers DEF StageInv
<1>6. LeaseHistory'
  <2> SUFFICES ASSUME NEW s \in Stages
               PROVE  /\ attempt'[<<run.fence, s>>].outcome = "RUNNING" =>
                           s = next /\ attempt'[<<run.fence, s>>].attempt = run.attempts
                      /\ s > next => attempt'[<<run.fence, s>>].outcome = "ABSENT"
    BY <1>1 DEF LeaseHistory
  <2>1. /\ attempt[<<run.fence, s>>].outcome = "RUNNING" => s = run.stage
        /\ s > run.stage => attempt[<<run.fence, s>>].outcome = "ABSENT"
    BY <1>1 DEF HInv, LeaseHistory
  <2>2. CASE s = next
    <3>1. attempt'[<<run.fence, s>>] = opened
      BY <1>1, <1>2, <2>2
    <3>2. ~(s > next)
      BY <1>1, <2>2
    <3>3. QED  BY <1>4, <2>2, <3>1, <3>2
  <2>3. CASE s # next
    <3>1. attempt'[<<run.fence, s>>] = rows[<<run.fence, s>>]
      BY <1>1, <1>2, <2>3
    <3>2. s > next => s > run.stage
      BY <1>1, StageNumbers
    <3>3. CASE attempt[<<run.fence, s>>].outcome = "RUNNING"
      <4>1. rows[<<run.fence, s>>].outcome = "SUCCEEDED"
        BY <1>1, <1>3, <2>1, <3>3
      <4>2. ~(s > next)
        BY <2>1, <3>2, <3>3
      <4>3. QED  BY <3>1, <4>1, <4>2
    <3>4. CASE attempt[<<run.fence, s>>].outcome # "RUNNING"
      <4>1. rows[<<run.fence, s>>] = attempt[<<run.fence, s>>]
        BY <1>1, <1>3, <3>4
      <4>2. QED  BY <2>1, <3>1, <3>2, <3>4, <4>1
    <3>5. QED  BY <3>3, <3>4
  <2>4. QED  BY <2>2, <2>3
<1>7. FutureInv'
  BY <1>1, <1>2, <1>3 DEF HInv, FutureInv, PInv, RunInv, RunRow, Fences
<1>8. OpenInv'
  <2> SUFFICES ASSUME NEW f \in Fences, NEW s \in Stages,
                      attempt'[<<f, s>>].outcome = "RUNNING", f # run.fence
               PROVE  /\ s < Activate
                      /\ attempt'[<<f, s + 1>>].outcome \in {"RETRY_SCHEDULED", "FAILED"}
                      /\ attempt'[<<f, s>>].attempt <= run.attempts - 1
    BY <1>1 DEF OpenInv
  <2>1. attempt'[<<f, s>>] = attempt[<<f, s>>]
    BY <1>2, <1>3
  <2>2. /\ s < Activate /\ attempt[<<f, s + 1>>].outcome \in {"RETRY_SCHEDULED", "FAILED"}
        /\ attempt[<<f, s>>].attempt <= run.attempts - 1
    BY <1>1, <2>1 DEF HInv, OpenInv
  <2>3. s + 1 \in Stages
    BY <2>2, StageNumbers
  <2>4. QED  BY <1>2, <1>3, <2>1, <2>2, <2>3
<1>9. HistoryIsTrue'
  <2> SUFFICES ASSUME NEW f \in Fences, NEW s \in Stages,
                      attempt'[<<f, s>>].outcome = "SUCCEEDED"
               PROVE  s # Activate /\ attempt'[<<f, s + 1>>].outcome # "ABSENT"
    BY DEF HistoryIsTrue
  <2>1. CASE f = run.fence /\ s = run.stage
    <3>1. s # Activate /\ s + 1 = next
      BY <1>1, <2>1, StageNumbers
    <3>2. attempt'[<<f, next>>] = opened
      BY <1>1, <1>2, <2>1
    <3>3. QED  BY <1>4, <3>1, <3>2
  <2>2. CASE ~(f = run.fence /\ s = run.stage)
    <3>1. attempt[<<f, s>>].outcome = "SUCCEEDED"
      BY <1>2, <1>3, <1>4, <2>2
    <3>2. s # Activate /\ attempt[<<f, s + 1>>].outcome # "ABSENT"
      BY <1>1, <3>1 DEF HInv, HistoryIsTrue
    <3>3. s + 1 \in Stages
      BY <3>2, StageNumbers
    <3>4. QED  BY <1>2, <1>3, <1>4, <3>2, <3>3
  <2>3. QED  BY <2>1, <2>2
<1>10. QED  BY <1>5, <1>6, <1>7, <1>8, <1>9 DEF HInv

\* Finalize and Fail close the row of the worker's stage, and the claim with
\* it: stage s of claim f gets its outcome, all other rows stay.
ClosesRow(f, s, outcome) ==
  \A g \in Fences, r \in Stages :
    /\ g = f /\ r = s => attempt'[<<g, r>>].outcome = outcome
    /\ ~(g = f /\ r = s) => attempt'[<<g, r>>] = attempt[<<g, r>>]

LEMMA RecordedRows ==
  ASSUME PInv, NEW w \in Workers, NEW q \in Stages, NEW outcome, Current(w),
         attempt' = Recorded(attempt, w, q, outcome)
  PROVE  ClosesRow(run.fence, q, outcome)
<1> DEFINE row == [outcome |-> outcome, attempt |-> worker[w].attempt]
<1>1. attempt' = [attempt EXCEPT ![<<run.fence, q>>] = row]
  BY DEF Recorded, AttemptKey, Current
<1>2. row.outcome = outcome
  OBVIOUS
<1> HIDE DEF row
<1>3. \A f \in Fences, s \in Stages :
        attempt'[<<f, s>>] = IF f = run.fence /\ s = q THEN row ELSE attempt[<<f, s>>]
  BY <1>1 DEF PInv, AttemptRows
<1>4. QED  BY <1>2, <1>3 DEF ClosesRow

\* The end of a claim by Finalize or Fail at stage q: other stages it leaves
\* open are the one before, which a failure of q explains.
LEMMA EndKeepsH ==
  ASSUME PInv, HInv, NEW w \in Workers, NEW q \in Stages, NEW outcome, Current(w), Leased,
         ClosesRow(run.fence, q, outcome), nextFence' = nextFence,
         ~Leased', run'.attempts = run.attempts,
         q = worker[w].stage,
         \/ outcome \in {"RETRY_SCHEDULED", "FAILED"}
         \/ outcome = "SUPERSEDED" /\ worker[w].state # "failing" /\ q = Activate
         \/ /\ outcome = "SUCCEEDED" /\ worker[w].state # "failing" /\ q = Activate
            /\ run'.status = "SUCCEEDED" /\ run'.fence = run.fence
  PROVE  HInv'
<1>1. /\ q \in {run.stage, run.stage + 1} /\ (worker[w].state # "failing" => q = run.stage)
      /\ run.stage \in 1 .. 6 /\ run.fence \in Fences /\ run.fence < nextFence
      /\ run.attempts \in Nat /\ run.status = "RUNNING" /\ nextFence \in Nat
  BY StageNumbers, ConstantsAssumption DEF HInv, StageInv, PInv, RunInv, RunRow
<1>2. \A f \in Fences, s \in Stages :
        /\ f = run.fence /\ s = q => attempt'[<<f, s>>].outcome = outcome
        /\ ~(f = run.fence /\ s = q) => attempt'[<<f, s>>] = attempt[<<f, s>>]
  BY DEF ClosesRow
<1>3. outcome \notin {"RUNNING", "ABSENT"}
  OBVIOUS
<1>4. StageInv' /\ LeaseHistory'
  BY DEF StageInv, LeaseHistory
<1>5. FutureInv'
  <2>1. \A f \in Fences : f >= nextFence => f # run.fence
    BY <1>1, ConstantsAssumption DEF Fences
  <2>2. QED  BY <1>2, <2>1 DEF HInv, FutureInv
<1>6. OpenInv'
  <2> SUFFICES ASSUME NEW f \in Fences, NEW s \in Stages,
                      attempt'[<<f, s>>].outcome = "RUNNING"
               PROVE  /\ s < Activate
                      /\ attempt'[<<f, s + 1>>].outcome \in {"RETRY_SCHEDULED", "FAILED"}
                      /\ attempt'[<<f, s>>].attempt <= run.attempts
    BY DEF OpenInv
  <2>1. attempt'[<<f, s>>] = attempt[<<f, s>>] /\ ~(f = run.fence /\ s = q)
    BY <1>2, <1>3
  <2>2. CASE f = run.fence
    <3>1. s = run.stage /\ attempt[<<f, s>>].attempt = run.attempts
      BY <2>1, <2>2 DEF HInv, LeaseHistory
    <3>2. s + 1 = q /\ worker[w].state = "failing"
      BY <1>1, <2>1, <2>2, <3>1
    <3>3. attempt'[<<f, s + 1>>].outcome = outcome /\ s < Activate
      <4>1. attempt'[<<f, q>>].outcome = outcome
        BY <1>2, <2>2
      <4>2. s < Activate
        BY <1>1, <3>1, <3>2, StageNumbers
      <4>3. QED  BY <3>2, <4>1, <4>2
    <3>4. QED  BY <1>1, <2>1, <3>1, <3>2, <3>3
  <2>3. CASE f # run.fence
    <3>1. /\ s < Activate /\ attempt[<<f, s + 1>>].outcome \in {"RETRY_SCHEDULED", "FAILED"}
          /\ attempt[<<f, s>>].attempt <= run.attempts - 1
      BY <2>1, <2>3 DEF HInv, OpenInv
    <3>2. s + 1 \in Stages
      BY <3>1, StageNumbers
    <3>3. attempt[<<f, s>>].attempt \in Nat
      BY ConstantsAssumption DEF PInv, AttemptRows
    <3>4. attempt'[<<f, s + 1>>] = attempt[<<f, s + 1>>]
      BY <1>2, <2>3, <3>2
    <3>5. QED  BY <1>1, <2>1, <3>1, <3>3, <3>4
  <2>4. QED  BY <2>2, <2>3
<1>7. HistoryIsTrue'
  <2> SUFFICES ASSUME NEW f \in Fences, NEW s \in Stages,
                      attempt'[<<f, s>>].outcome = "SUCCEEDED"
               PROVE  IF s = Activate
                      THEN run'.status = "SUCCEEDED" /\ run'.fence = f
                      ELSE attempt'[<<f, s + 1>>].outcome # "ABSENT"
    BY DEF HistoryIsTrue
  <2>1. CASE f = run.fence /\ s = q
    BY <1>2, <2>1
  <2>2. CASE ~(f = run.fence /\ s = q)
    <3>1. attempt[<<f, s>>].outcome = "SUCCEEDED"
      BY <1>2, <2>2
    <3>2. s # Activate /\ attempt[<<f, s + 1>>].outcome # "ABSENT"
      BY <1>1, <3>1 DEF HInv, HistoryIsTrue
    <3>3. s + 1 \in Stages
      BY <3>2, StageNumbers
    <3>4. QED  BY <1>2, <1>3, <3>2, <3>3
  <2>3. QED  BY <2>1, <2>2
<1>8. QED  BY <1>4, <1>5, <1>6, <1>7 DEF HInv

LEMMA FinalizeKeepsH ==
  ASSUME PInv, HInv, NEW w \in Workers, Finalize(w)
  PROVE  HInv'
<1>1. PICK outcome \in {"SUCCEEDED", "SUPERSEDED"} :
        /\ run' = [run EXCEPT !.status = outcome, !.lease = "none"]
        /\ attempt' = Recorded(attempt, w, Activate, outcome)
  BY DEF Finalize
<1>2. /\ run'.status = outcome /\ run'.fence = run.fence /\ run'.attempts = run.attempts
      /\ ~Leased'
  BY <1>1 DEF PInv, RunInv, RunRow, Leased
<1>3. /\ Current(w) /\ Leased /\ Activate \in Stages /\ worker[w].stage = Activate
      /\ worker[w].state = "writing" /\ nextFence' = nextFence
  BY StageNumbers DEF Finalize, Writable, Leased
<1>4. ClosesRow(run.fence, Activate, outcome)
  BY <1>1, <1>3, RecordedRows
<1>5. QED  BY <1>2, <1>3, <1>4, EndKeepsH

LEMMA FailKeepsH ==
  ASSUME PInv, HInv, NEW w \in Workers, Fail(w)
  PROVE  HInv'
<1> DEFINE s == worker[w].stage
<1>1. PICK outcome \in {"RETRY_SCHEDULED", "FAILED"} : attempt' = Recorded(attempt, w, s, outcome)
  BY DEF Fail
<1>2. ~Leased' /\ run'.attempts = run.attempts
  <2>1. \/ run' = [run EXCEPT !.stage = s, !.fence = 0, !.lease = "none", !.retryAt = "waiting"]
        \/ run' = [run EXCEPT !.status = "FAILED", !.stage = s, !.lease = "none"]
    BY DEF Fail
  <2>2. QED  BY <2>1 DEF PInv, RunInv, RunRow, Leased
<1>3. Current(w) /\ Leased /\ s \in Stages /\ nextFence' = nextFence
  BY DEF Fail, Writable, Leased, PInv, WorkersInv, WorkerRow
<1>4. ClosesRow(run.fence, s, outcome)
  BY <1>1, <1>3, RecordedRows
<1> HIDE DEF s
<1>5. QED  BY <1>2, <1>3, <1>4, EndKeepsH DEF s

LEMMA NextKeepsH == PInv /\ HInv /\ [Next]_vars => HInv'
<1> SUFFICES ASSUME PInv, HInv, [Next]_vars PROVE HInv'
  OBVIOUS
<1>1. ASSUME NEW w \in Workers, Claim(w) \/ Process(w) \/ WorkerStops(w)
      PROVE  HInv'
  BY <1>1, ClaimKeepsH, SetStageKeepsH, QuietKeepsH, FinalizeKeepsH, FailKeepsH DEF Process
<1>2. CASE UNCHANGED vars
  <2>1. StageInv'
    BY <1>2 DEF vars, HInv, StageInv, Leased, Current
  <2>2. QED  BY <1>2, <2>1, HistoryStays DEF vars, HInv, Leased
<1>3. QED  BY <1>1, <1>2, ReclaimKeepsH, TimeKeepsH DEF Next

LEMMA Inductive == Spec => []IInv
<1>1. Init => IInv
  BY InitPInv, InitHInv DEF IInv
<1>2. IInv /\ [Next]_vars => IInv'
  BY NextKeepsP, NextKeepsH DEF IInv
<1>3. QED  BY <1>1, <1>2, PTL DEF Spec

\* A stage the history calls SUCCEEDED was left for the next one by the same
\* claim, or published the version, although SetStage looks for the stage to
\* complete by an attempt number.
THEOREM HistoryTrue == Spec => []HistoryIsTrue
<1>1. IInv => HistoryIsTrue
  BY DEF IInv, HInv
<1>2. QED  BY <1>1, Inductive, PTL

\* A stage that a claim that is over left RUNNING in the history is the one
\* before the stage its Fail recorded.
THEOREM OpenExplained == Spec => []OpenAttemptsExplained
<1>1. IInv => OpenAttemptsExplained
  BY DEF IInv, HInv, PInv, RunInv, OpenInv, OpenAttemptsExplained
<1>2. QED  BY <1>1, Inductive, PTL

-----------------------------------------------------------------------------
(* Claims do not write over each other.                                    *)

LEMMA CheckpointStep ==
  ASSUME PInv, [Next]_vars
  PROVE  CheckpointsAdvance
<1>1. CASE UNCHANGED checkpoint
  <2>1. \A s \in Computing : checkpoint[s] # None => checkpoint[s].fence \in Int
    BY ConstantsAssumption DEF PInv, CheckpointInv, CheckpointRow, Fences
  <2>2. QED  BY <1>1, <2>1 DEF CheckpointsAdvance
<1>2. ASSUME NEW w \in Workers, SaveCheckpoint(w)
      PROVE  CheckpointsAdvance
  <2> DEFINE q == worker[w].stage
             saved == [input |-> Input(w), output |-> worker[w].output[q],
                       fence |-> worker[w].fence]
  <2>1. /\ checkpoint' = [checkpoint EXCEPT ![q] = saved]
        /\ Leased /\ worker[w].fence = run.fence
    BY <1>2 DEF SaveCheckpoint, Writable, Current, Leased
  <2>2. /\ run.fence = nextFence - 1 /\ nextFence \in Nat
        /\ \A s \in Computing : checkpoint[s] # None =>
             checkpoint[s].fence \in Int /\ checkpoint[s].fence < nextFence
    BY <2>1, ConstantsAssumption DEF PInv, RunInv, CheckpointInv, CheckpointRow, Fences
  <2>3. RowOK(worker[w]) /\ q \in Computing /\ worker[w].state = "saving"
        /\ worker[w].fence \in Fences
    BY <1>2 DEF SaveCheckpoint, PInv, WorkersInv, RowOK, Placed, WorkerRow
  <2>4. Input(w) \in Seq(Variants) /\ worker[w].output[q] \in Seq(Variants)
    <3>1. q - 1 \in 1 .. 4 /\ q \in 1 .. 4
      BY <2>3, StageNumbers
    <3>2. Input(w) \in Output(q - 1)
      BY <2>3, InputIsOutput
    <3>3. worker[w].output[q] \in Output(q)
      BY <2>3 DEF RowOK, Remembers, Remembered
    <3> HIDE DEF q
    <3>4. Input(w) \in Seq(Variants)
      BY <3>1, <3>2, OutputIsSeq, Zenon
    <3>5. worker[w].output[q] \in Seq(Variants)
      BY <3>1, <3>3, OutputIsSeq, Zenon
    <3>6. QED  BY <3>4, <3>5
  <2>5. saved # None /\ saved.fence = run.fence
    <3>1. saved \in [input : Seq(Variants), output : Seq(Variants), fence : Nat]
      BY <2>3, <2>4, ConstantsAssumption DEF Fences
    <3>2. QED  BY <2>1, <3>1, ConstantsAssumption
  <2> HIDE DEF saved
  <2>6. \A s \in Computing : checkpoint'[s] = IF s = q THEN saved ELSE checkpoint[s]
    BY <2>1 DEF PInv, CheckpointInv
  <2>7. QED  BY <2>2, <2>5, <2>6 DEF CheckpointsAdvance
<1>3. QED
  BY <1>1, <1>2
     DEF Next, vars, Reclaim, Claim, Process, WorkerStops, SetStage, CallFails, LoadResumes,
         LoadMisses, Compute, StoreChunks, Finalize, Fail, StaleFence, LeaseExpires,
         LeaseLapses, RetryFallsDue, ArtifactLost

LEMMA HistoryStep ==
  ASSUME PInv, HInv, [Next]_vars
  PROVE  HistoryOfOthersStays
<1> SUFFICES ASSUME NEW f \in Fences, NEW s \in Stages, f # run.fence, f # run'.fence
             PROVE  attempt'[<<f, s>>] = attempt[<<f, s>>]
  BY DEF HistoryOfOthersStays
<1>1. CASE UNCHANGED attempt
  BY <1>1
<1>2. CASE Reclaim
  BY <1>2, SupersededRows DEF Reclaim
<1>3. ASSUME NEW w \in Workers, Claim(w)
      PROVE  attempt'[<<f, s>>] = attempt[<<f, s>>]
  <2> DEFINE rows == IF Expired THEN SupersededOf(attempt) ELSE attempt
             opened == [outcome |-> "RUNNING", attempt |-> Base.attempts + 1]
  <2>1. attempt' = [rows EXCEPT ![<<nextFence, Metadata>>] = opened]
    BY <1>3 DEF Claim, AttemptKey
  <2>2. run'.fence = nextFence
    <3>1. run' = [Base EXCEPT !.status = "RUNNING", !.fence = nextFence, !.lease = "live",
                              !.attempts = @ + 1, !.retryAt = "none", !.stage = Metadata]
      BY <1>3 DEF Claim
    <3>2. QED  BY <3>1, BaseTypes DEF RunRow
  <2>3. rows \in AttemptRows
    BY ReclaimTypes DEF PInv
  <2>4. rows[<<f, s>>] = attempt[<<f, s>>]
    BY SupersededRows
  <2> HIDE DEF rows, opened
  <2>5. QED  BY <2>1, <2>2, <2>3, <2>4 DEF AttemptRows
<1>4. ASSUME NEW w \in Workers, SetStage(w)
      PROVE  attempt'[<<f, s>>] = attempt[<<f, s>>]
  <2>1. /\ Leased
        /\ attempt'[<<f, s>>] = Completed(attempt, run.stage + 1)[<<f, s>>]
    BY <1>4, SetStageFacts
  <2>2. QED  BY <2>1, CompletedRows
<1>5. ASSUME NEW w \in Workers, Finalize(w) \/ Fail(w)
      PROVE  attempt'[<<f, s>>] = attempt[<<f, s>>]
  <2>1. Current(w) /\ worker[w].stage \in Stages
    BY <1>5 DEF Finalize, Fail, Writable, PInv, WorkersInv, WorkerRow
  <2>2. PICK outcome : attempt' = Recorded(attempt, w, worker[w].stage, outcome)
    BY <1>5 DEF Finalize, Fail
  <2>3. ClosesRow(run.fence, worker[w].stage, outcome)
    BY <2>1, <2>2, RecordedRows
  <2>4. QED  BY <2>3 DEF ClosesRow
<1>6. QED
  BY <1>1, <1>2, <1>3, <1>4, <1>5
     DEF Next, vars, Process, WorkerStops, CallFails, LoadResumes, LoadMisses, Compute,
         SaveCheckpoint, StoreChunks, StaleFence, LeaseExpires, LeaseLapses, RetryFallsDue,
         ArtifactLost

\* A claim writes over no checkpoint of a newer one and over no row of another
\* one's history, also where SetStage and the reclaim do not look at the fence.
THEOREM FencesSeparate == Spec => FencesSeparateClaims
<1>1. IInv /\ [Next]_vars => [CheckpointsAdvance /\ HistoryOfOthersStays]_vars
  BY CheckpointStep, HistoryStep DEF IInv
<1>2. QED  BY <1>1, Inductive, PTL DEF Spec, FencesSeparateClaims
=============================================================================
