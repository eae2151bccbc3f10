# SyncBase WAS: a TLA+ specification of the document processing service

SyncBase WAS registers PDF documents, processes each version in the background (parse, chunk,
embed, store, activate) and searches the active versions. A web server and any number of worker
processes share one PostgreSQL database and one directory of content-addressed objects; they
never talk to each other directly. This directory holds a TLA+ model of that system: the TLC
runs that check it on small instances, and TLAPS proofs, for all instances, about most of what
the runs check.

## Inventory

| Component | Code | State | Operations | Status |
|---|---|---|---|---|
| Run queue | `internal/adapters/postgres/store.go` 125-266, 507-1108, 1216-1257 | rows of `document`, `document_version`, `processing_run`, `search_chunk`, `change_log`, the counter of `queue_control` | Register, ClaimNext, SetStage, Heartbeat, StoreChunks, Finalize, Fail, Retry | `RunQueue`; statement by statement `RowLocks` |
| Worker | `cmd/worker/main.go`, `internal/modules/processing/processor.go` | the claim in memory, the current stage | poll, Process, heartbeat goroutine | `RunQueue`, `Pipeline` |
| Version publication | README of the repository, `store.go` 853-939 | status of each version, active version of each document | what the queue promises | `VersionPublication` |
| Registration | `internal/modules/documents/service.go`, `store.go` 48-123, 448-505 | `upload_request` rows, the registration gate, originals on disk | reserve, parse, register, expire, clean up | `Registration`, `RequestKeys` |
| Object store | `internal/adapters/objectstore/store.go` | files named by their SHA-256 | Put, Remove (Read and Verify change nothing) | `Registration`, `Pipeline`, `GroundedSearch` |
| Checkpoints and stage history | `processor.go` 204-316, `store.go` 522-541, 615-739, 1456-1478 | `processing_checkpoint` and `processing_step_attempt` rows, artifacts | save, load, record | `Pipeline` |
| Chunker | `internal/modules/processing/chunker.go` | none | pages to overlapping passages | `Chunker` |
| Search and MCP client | `internal/modules/search/service.go`, `store.go` 1110-1214, `internal/transport/webapp/mcp_client.go` | none of their own | search, probe, verification, validation | `GroundedSearch` |
| Web server | `internal/transport/webapp/server.go`, `api.go`, `session_store.go` | login failures, `browser_session` rows | allow, record, reset; issue, load, delete | `LoginGuard`, `Sessions` |
| Migrations | `internal/adapters/postgres/migrate.go` | `schema_migration`, the active profile | apply in order under an advisory lock, verify the profile | `Migrations`, `Installation` |
| Parser, embedder, configuration, qualification | - | none that outlives a call | wrappers of libraries and start-up code | not modelled |

How they interact: the web server's Register inserts a document version and a QUEUED run; a
worker's ClaimNext leases a run under a fresh fencing token; every later call of the worker
names run and token, and the store refuses it (ErrStaleFence) when they do not match a live
lease. A heartbeat goroutine renews the lease every five seconds for thirty; when it fails it
cancels the processing. Finalize publishes the version. Search reads what is published.

What is hard here, and what makes each part correct:

- *Leases and fencing.* A worker can lose its lease at any time and not know it. No write of
  such a worker may land on a run that was reclaimed (`FencesIdentifyClaims`,
  `PublishedByItsClaim`, `FinishedRunsStay`, `PublishedChunksStay`).
- *Order of versions.* Versions are accepted in order and finish in any order; a late lower
  version must not replace a higher one, and the number a publication or a retry compares with may
  be out of date (`ActiveGoesForward`, `ImplementsPublication`, and `ActiveNeverGoesBack`, which
  the code breaks).
- *Status of a version, its runs and its document* live in three rows written by six
  operations (`VersionsTrackRuns`, `OneLiveRunPerVersion`).
- *Attempts.* Failures must use up attempts, crashes must not, and a run with none left must
  never be offered for a claim (`FailuresAreCounted`, `NoPoisonedRun`).
- *Progress.* Every accepted run must end (`EveryRunEnds`).
- *Request keys.* A client repeats an upload whose answer it lost, while the first may still be
  on its way, in this process or another (`KeyRegistersOnce`, `AnswersAreTrue`, `RepeatsAgree`,
  `ImplementsRequestKeys`).
- *Originals* are written before the row that refers to them and taken back when that row is
  not inserted; several uploads can share one (`OriginalsKept`, `NoOriginalLeftOver`).
- *Admission.* The bound on live runs is checked without a lock (`QueueIsBounded`).
- *Resuming.* A claim goes on from what earlier claims of its run left, which may have been
  computed from something else, damaged since, or replaced while it looks
  (`PublishedFromOneParse`, `FencesSeparateClaims`).
- *Row locks.* Five kinds of transactions take the rows of a run, its version, its document and
  the queue in different orders, and read after a wait what READ COMMITTED shows them
  (`RowsAgree`, `CirclesAreStaleRetries`, `EveryWaitEnds`).
- *Search against publication.* A search is several statements and file reads
  (`SupportedIsTrue`, `OnlyInactiveWasTrue`, `NoHitsWasTrue`).
- *Logins that overlap, clocks that differ* (`GuardIsBounded`, `BlocksAreJust`,
  `SessionsLast`, `LogoutIsFinal`).
- *Releases that start together* migrate one database (`ConclusionsAreTrue`,
  `ImplementsInstallation`).

`PROJECT.json` lists every hazard at its line with the properties that cover it. One has none:
readiness waits for the parser's mutex, which no state could be related to.

## Modules

`RunQueue` is the core. One action is one call of the store, that is one transaction, except where
what a transaction does depends on what happens while it is open: Register, StoreChunks, Finalize
and Retry take two steps.

| Action | Code |
|---|---|
| `RegisterCheck`, `RegisterCommit`, `RegisterAbort` | `Store.Register`: the count of live runs and the insert are two statements with no lock in between |
| `RetryBegin`, `Retry`, `RetryEnds` | `Store.Retry`: takes the lock of `queue_control`; the statement that locks the run, the version and the document, with what follows it; a refusal or a rollback |
| `ClaimNothing`, `ClaimNext` | `Store.ClaimNext`: reclaim of expired runs, check for a live lease, lease of one run, version set PROCESSING |
| `SetStage` | `Store.SetStage` and the worker taking up the next stage |
| `BeginStore`, `CommitStore` | `Store.StoreChunks`: verify and lock; replace the chunks, renew the lease, commit |
| `BeginFinalize`, `FinalizeSuperseded`, `FinalizeActivated` | `Store.Finalize`: verify, lock the run and count its chunks; the statement that locks the document, with one branch or the other |
| `FailRetriable`, `FailFinal` | the two branches of `Store.Fail` |
| `StaleFence` | any of these refused: the worker drops the claim |
| `WorkerStops` | crash, shutdown, or a heartbeat that cancels the processing |
| `LeaseExpires`, `LeaseLapses`, `RetryFallsDue` | `clock_timestamp()` passes `lease_until` or `next_automatic_retry_at` |

Abstractions. Times are replaced by what the queries ask of them: a lease is none, live or
expired; an automatic retry is none, waiting or due. Heartbeats therefore leave no trace except
that they may fail to come in time (`LeaseLapses`). The order of the queue (`ORDER BY
queued_at`) is dropped: any claimable run can be next, which covers every order. The chunks of a
version are reduced to who staged them. `chunkFence` is a history field: the code's rows have
`staged_by_run_id` only. The stages PARSE, CHUNK and EMBED are `NumCompute` steps that only
renew the lease. The operator's answers (`ErrQueueFull`, conflicts, recovered retries) change no
row and are no actions.

The row locks that matter are modelled. StoreChunks and Finalize hold their run's row (`Locked`)
while a reclaim waits for it, and PostgreSQL re-evaluates the reclaim's condition after the wait; a
poll waits for the lock of `queue_control` while a retry is open. Finalize and Retry read the number
of the active version through an outer join in the statement that locks the document (`store.go`
879-883, 1059-1067). After a wait PostgreSQL reads the document again, but not the row it is joined
with: if the document points elsewhere by then, the join finds nothing and the number is 0. The
model keeps what the document pointed to before the statement (`seen`), and lets the statement read
the number, or 0 when the two differ (`NumbersRead`). It reads 0 then in the code only if it had to
wait; the model allows it in any case.

`overlapped` is a history: a run was leased while the lease of another was about to run out, the gap
that the run `single_flight` shows. From then on two claims may be current at once.

`VersionPublication` is the abstract specification: versions of a document are accepted in order,
each becomes visible, hidden or failed, a document shows one version, and until publications
overlap that version is only replaced by a higher one. A failed version can be tried again also
behind a higher one that is shown. `RunQueue!ImplementsPublication` maps a version's status, the
document's active version and `overlapped` to it.

`MCRunQueue` adds the symmetry set for TLC. Runs, workers and retry keys are interchangeable:
no definition orders or names one, so permuting them is sound for the safety runs. The liveness
run does not use it.

`Registration` is `Service.Register` with the calls it makes, one action for each: several
requests run in it at once and the order of their steps is the whole difficulty.

| Action | Code |
|---|---|
| `Submit` | a client's request, first or repeated, with any key and content |
| `Reserve`, `ReserveLost` | `Store.ReserveRegistration`, before parsing and again at the head of `Store.Register`; its commit may go through with the answer lost |
| `Parse`, `Expire` | `inspectPDF`; after a rejection `Store.ExpireRegistration`, which waits for the row's lock |
| `EnterGate` | the channel of capacity 1 of each process |
| `Put`, `PutUnsynced` | `objectstore.Store.Put`; the second fails after the rename, when the directory cannot be synced |
| `Lock`, `Unblock` | `SELECT ... FOR UPDATE OF u` and the decision on the row found |
| `Commit` | the rest of `Store.Register`; its answer may be lost |
| `AbandonCommit`, `LateCommit`, `LateRollback` | the caller gives up on a COMMIT, which takes effect later or not at all |
| `Check`, `Remove`, `CleanUpFails` | `removeUncommittedOriginal` |
| `CallFails` | a call fails with no effect, or the request's context ends at the gate |
| `Stop`, `Elapse` | the process stops; the 24 hours of the reservation end |

Abstractions. A reservation's identity (operation, target, SHA-256, size) is one value, the
content, which is also the object's name; `RunQueue` has what the insert does to documents and
runs. A row locked by a transaction is one whose request is `committing`, or whose key is in
`late`. One detail of PostgreSQL matters in `Found`: the row is read with a LEFT JOIN on the
version and locked with `FOR UPDATE OF u`, and after a wait only `u` is read again. A request
that waited for a commit therefore sees an ACCEPTED row without its version, which `recovery()`
refuses (`store.go` 1366-1369).

`RequestKeys` is its abstract specification: a key is bound to one content for ever and then has
one outcome for ever, a version or a rejection.

`MCRegistration` makes requests, keys, contents and processes interchangeable for TLC; no
definition tells two of them apart.

The theorems about a module are in a module of their own, named after it (`RunQueueProofs`,
`RegistrationProofs`, `PipelineProofs`, `RowLocksProofs`, `MigrationsProofs`, `ChunkerProofs`).
`WebProofs` has those about `GroundedSearch`, `LoginGuard` and `Sessions`, and
`DeploymentProofs` the one about `MCDeployments`, which takes `RegistrationProofs` for its one
process.

`Pipeline` is one run with all its claims. Each of PARSE, CHUNK and EMBED looks for a checkpoint
whose input digest is that of its own input, and computes otherwise. Content is what it was made
from: the output of a stage is its input and the variant the stage made of it, so that equal
content is equal digest, and one document computed twice can come out different (another release
of the parser, another machine). `Completed` looks for the stage to complete by attempt number as
`SetStage` does, although claims can share one; `HistoryIsTrue` says that this does no harm.

`Chunker` is `chunkPages` on two pages, a step for each turn of its loops: a sentence that is
blank, too long or collected (`BlankSentence`, `LongSentence`, `Collect`), a window of a long one
(`Window`, a turn of `forcedTokenSplit`), the end of a page with its short tail (`PageEnds`). A text
is kinds of runes, and a chunk the sequence of positions it was made of, so that a property can say
what was kept. The token counter gives a word one token for every `tokenRunes` runes. The binary
searches of the code are the extremum they look for, which takes that a longer piece never has fewer
tokens: true of these counters (`TokensGrow`), assumed of the tokenizer of the embedding model. The
version without a token counter is used by tests only and left out.

`RowLocks` takes the transactions on one document apart into the row locks they take, in order
(`LockOrder`), with PostgreSQL's lock modes, its READ COMMITTED reads and its deadlock detector.
`Circles` are the sets of transactions each part of which waits for the rest: what a circle of waits
is, without following the waits one by one. `Read` is the start of a statement, and `NumberRead`
what it finds after a wait for the document: the document as it is now, joined with the active
version found before. `RunQueue` takes Finalize and Retry apart where they read that number;
everything else that it assumes to be one step, a claim or a failure as a whole, is several here, and
`RowsAgree` is the part of its invariants that holds between them.

`GroundedSearch` follows one search from the web server through the MCP server to the store and
back, while versions move as `VersionPublication` allows when publications overlap (in any order),
their chunks are staged, and originals disappear, change or come back. Of `validateMCPGrounding` the
checks that status, reason and hits fit together are left out: a client that refuses fewer answers
makes `ClientFailsClosed` harder, not easier. An MCP server of an earlier release makes no grounding decision.
`moments` and `sound` are histories: what matched at each moment, which originals were intact.

`LoginGuard` has logins that read the clock on arrival and report to the guard after the password
has been compared, so that outcomes come late and out of order. An entry that a full table loses may
be one that blocks, or the one just written. `wrong` and `dropped` are histories: the wrong
passwords recorded of an address, and of which addresses the table lost some. `Sessions` has the
three clocks that decide on a session and the statements of a request, each with a moment of its
own. `Spread` is how far two of them are apart; only differences count, so time is counted from
where no clock of a process reads less than 0.

`Migrations` has several runs of `cmd/migrate`, of several releases, each one transaction of
statements under the advisory lock, and the services that verify the profile once. Its abstract
specification `Installation` says that releases are installed whole, each on top of the last,
under the profile of the first.

The MC modules put components that share a database or a process side by side where one run can
ask about them: `MCPipeline` has `Pipeline` and `Chunker`, `MCDatabase` `Migrations` and
`RowLocks`, `MCWeb` `GroundedSearch`, `LoginGuard` and `Sessions`, `MCDeployments` `Registration`
in one process and in several. A behaviour takes the steps of one of them, which the variable `part`
(`system`, `deployment`) names, and the others stay where they begin: nothing is checked of their
interleaving, since they share no row.

## Runs

| Run | Instance | States | Shows |
|---|---|---|---|
| `publication` | 3 versions of a document, 3 runs, 2 workers, 2 retry keys, 2 attempts, room for 1, 1 fault | 297,376 | statuses agree, the active version does not go back until claims overlap, claims are fenced, attempts counted, the queue is bounded and implements `VersionPublication` |
| `liveness` | 2 versions, 2 runs, 2 workers, 1 retry key, 2 attempts, 1 fault | 232,606 | every accepted run ends |
| `registration` | 1 process, 3 requests, and 2 processes, 2 requests, late commits; 2 keys, 2 contents, 1 fault | 678,811 | one version per key, true answers, `Registration` implements `RequestKeys`; one process loses no original and leaves none behind |
| `pipeline` | 2 workers, 3 variants (1 unusable), 3 claims, 2 attempts, 1 fault; texts of up to 11 runes whose words are one token, and of 6 runes with a token each | 895,771 | what is published comes from one parse, the history is true, claims do not write over each other; no text is lost, chunks fit, windows go forward by the overlap |
| `transactions` | 2 workers, 1 operator, 2 versions, 3 runs, 1 fault | 558,273 | rows agree under any waits, circles are stale retries |
| `waits` | 2 workers, 1 operator, 1 version, 2 runs, 2 attempts; 2 migrators of 4 releases, 1 service | 22,828 | no transaction and no migrator waits for ever; releases are installed whole, what is reported of the database is true |
| `web` | 2 documents, 2 versions, 2 contents, 2 damaged originals; 2 addresses that share a table of 1 entry, or 1 address guessed for longer; 2 logins at once; 2 processes, 2 sessions, 3 clocks | 1,853,388 | what is shown was active and verified; refusals are earned, blocks hold and guesses are bounded; sessions last their time |
| `single_flight` | as `liveness`, without retries and fairness | violated | two runs can be leased at once |
| `two_processes` | 2 processes, 2 requests, 2 keys, 1 content | violated | the clean-up can remove the original of another process's version |
| `elapsed_answer` | 1 process, 2 requests, 1 key, late commits | violated | a repeated request can succeed without naming a version |
| `stale_join` | 2 workers, 2 versions, 1 fault | violated | a lower version can replace a higher one |
| `missed_publication` | 1 version, 1 content | violated | a search can miss a version that matched all the time |

The bounds, and why they are enough. In `Registration`, two requests are the two sides of every race
(same key, or same content under two keys); the third with one process repeats one of them while
both are open, and an answered request can send any other. A fault is a stopped process or a failure
in the clean-up; the failures that the code handles are not bounded. In `RunQueue`, two workers are
one that lost its claim and one that took it; three versions let one be registered while a lower one
is retried and a higher one is done; a fault is a stopped worker or a lapsed lease, after which two
attempts reach the last one by crash and by failure. One fault is also what it takes for two claims
to overlap, and three versions and runs for one of them to be published in between. `Requests` are
the registration transactions open at once, which bound what the queue can hold beyond `MaxLive`.
The registration gate (`service.go` 102, 185) lets one registration at a time through in each web
process, but a commit whose caller gave up is outside the gate: the excess is at most the number of
web processes and of commits that outlive their callers. In `Pipeline`, three claims are
enough for a checkpoint of the first to be replaced by the second and found by the third; a fault is
also a lost or altered artifact. In `Chunker`, 11 runes make several windows of words with a tail,
and 6 runes with stops and lines every way for a sentence to end inside a window. In `RowLocks`, two
workers and a retry are all a circle needs: the detector breaks circles of any length, and every
kind of transaction is among them. In `Migrations`, two migrators are one that holds the lock, fails
or dies and one that waits for it or comes later; the four releases agree, extend one another, and
disagree in a migration or in the profile, and what is true of any number of migrators is proved. In
`GroundedSearch`, two versions of two documents with two contents let a hit be replaced by a version
with the same or another text. In `LoginGuard`, two addresses share a table with room for one, and
one address is guessed for over two windows (`TwoAddresses`, `OneAddress` of `MCWeb`). In
`Sessions`, clocks differ by up to two units and sessions last three, so that each clock decides
alone.

`MaxVersion`, the number of `Runs` (no registration or retry begins that has no run or version left
to insert: `RunLeft`, `VersionLeft`), `MaxFaults`, `MaxClaims`, `MaxDamage`, `MaxTime`, `MaxNow`, `MaxFailures` and the
lengths of `MCTexts` bound what the code leaves unbounded; `MaxAttempts` (3), `MaxLive` (21),
`Limit`, `FailureLimit`, `FailureWindow`, `MaxFailureEntries`, `TTL` and the four numbers of the
chunk profile are the code's own constants, made small so that they are reached.
`LoginTime` and `RequestTime` are what a comparison of a password and a statement may take.
Deadlock is checked for the queue and the registration, where a worker can always poll and a
client always send a request, and for `transactions`, where a worker can always call again. It is
not in `pipeline`, `waits`, `web` and `missed_publication`: a pipeline's run ends, a text is
chunked once, migrators are started once, a search ends with its answer and a clock at its bound.
That transactions do not wait for ever is `EveryWaitEnds`.

Fairness. In `RunQueue` (`FairSpec`, run `liveness`): each worker's steps, claims as a whole, and
the clock, and the end of a retry that has begun. The poll loop (`cmd/worker/main.go` 123-141) runs
for ever, calls the store on a ticker and processes what it claims to the end; leases and delays end
because time passes. For claims the fairness is strong (SF): a poll waits for the lock of
`queue_control`, which retries take too, and PostgreSQL queues the waiters of a lock, so that it gets
the lock however many retries come. No fairness is assumed of registrations, of the beginning of
manual retries, of crashes or lapses, and none of a particular worker's claim: any worker may get any
run. That crashes and lapses are finite is an assumption
(`MaxFaults`): a run whose every attempt is interrupted is reclaimed for ever, since a reclaim gives
the attempt back (`store.go` 538).

In `waits` (`MCFairness`, the fairness of `RowLocks` and `Migrations`): a statement that waits for
a lock gets it if the lock becomes free again and again (SF), because PostgreSQL queues the
waiters of a lock; a transaction that has all its locks commits, since the code between has no
unbounded wait; and the deadlock detector breaks a circle. Migrators go on with their next
statement. Nothing makes a worker call, an operator retry or a migrator start.

## Divergences

*Single flight.* The comment on `ClaimNext` (`store.go` 507-509) calls the queue deliberately
single-flight. `single_flight` finds two runs leased at once: while `StoreChunks` is writing, its
lease still live when another poll runs its reclaim statement, the lease can run out before that
poll's check for running work; the poll leases another run, and `StoreChunks` then renews its own
lease without looking whether it has expired (837-840). The fencing properties above hold all the
same.

*Originals.* `service.go` 122-124 and `objectstore/store.go` 204-205 promise that an original is
removed only after it was proved that no version refers to it. The proof and the removal are two
steps, kept apart from other registrations by a gate inside one process. `two_processes` finds the
removal of an original that another process's version came to refer to in between; `OriginalsKept`
holds with one web process and `LateCommits = FALSE`, which `registration` checks as
`OneProcessKeepsOriginals` and `OneProcessSafe` proves (`OriginalsSafe` in the general form). The
second condition cannot be dropped either: a commit whose caller gave up (the client disconnects)
can take effect after the clean-up. `service_test.go` 307-328 tests this with a check that already
sees the commit.

*Repeated requests.* `store_test.go` 721-729 expects a repeated registration to name the same
version. When `Store.Register` finds the row accepted by another request meanwhile and its 24
hours over, `recovery()` returns the state EXPIRED and an empty registration, and `Register`
(173-180) returns it as a success (`elapsed_answer`).

*Replaced by a lower version.* The comment on `Finalize` (`store.go` 853-854) says that a lower
version can never replace a higher one that is active. When the query that locks the document
(879-883) waits for another `Finalize`, PostgreSQL reads the document again but not the version
it is joined with; the join then fails, COALESCE makes the number 0, and the comparison passes
(`stale_join`). It takes two `Finalize`s of one document at once, which only the gap that
`single_flight` shows makes possible. A version can then also be SUPERSEDED behind a lower one.
`RunQueue` has these steps too; what holds there, and is proved, is that neither happens before
claims have overlapped (`ActiveGoesForward`, the last part of `VersionsTrackRuns`).

*Missed publication.* The comment on `GroundedDocuments` (`service.go` 139-140 of the search
module) says that it classifies every safe empty result. A version that becomes active between
the query for hits and the probe for inactive matches is in neither, and the answer is
NO_HITS_ABOVE_POLICY (`missed_publication`). The other two answers are true of some moment of the
request (`SupportedIsTrue`, `OnlyInactiveWasTrue`).

Four more that need no run. `Retry` refuses the run of a version that a higher active version has
overtaken (`store.go` 1076), by a number that it reads as `Finalize` does (1059-1067). A retry that
waits for the document while the first publication of a higher version commits reads 0 and is
admitted. This takes one worker and no lapsed lease, and `RunQueue!Retry` allows it. No line promises
that it is refused, and until claims overlap it does no harm: the retried run is processed once more
and ends SUPERSEDED, since its own `Finalize` reads the number that is then active
(`ActiveGoesForward`). If claims have overlapped it can replace the higher version like any other.
`VersionPublication` therefore lets a failed version be tried again whatever is shown.

`chunker.go` 26-29 says that forced splits keep exactly the configured
overlap; `tokenOverlapStart` then goes back to the start of a word (194-196), so that a word
longer than the overlap is shared whole, and inside a word longer than a chunk each chunk begins
one rune after the one before it.
`WindowsGoForward` is therefore stated for words of one token. An overlap of 0 is accepted
(`chunker.go` 35-36, and the CHECK of `004_embedding_profile_metadata.sql` 6) but does not turn the
overlap off: the search for the next start goes back to the start of the window's last word, so that
"a b c" in windows of two words gives "a b" and "b c". `WindowsGoForward` asks for an overlap. And a
session's end is set by
one clock and compared with another (`session_store.go` 41-42, 52), so that it lasts its thirty
minutes give or take what the clocks differ by, which is what `SessionsLast` says.

## Proofs

TLAPS proves, for every value of the constants, every safety and action property that a passing
run checks, as theorems of the specification each is about: `Spec`, `GuardSpec`, `SessionSpec`,
`ChunkSpec`, or `MCSpec` of `MCDeployments`. The `TypeOK` of `MCWeb` is that of `GroundedSearch`.
Liveness is left to TLC. What is assumed:

| Module | Assumption |
|---|---|
| `RunQueue` | `ConstantsAssumption`: NULL is no run, key or version; at least one attempt; the bounds are naturals. `QueueBounded` counts, so `Runs` and `Requests` are finite |
| `Registration` | `RegistrationAssumption`: NULL and the answers that name no version are none of the contents. `OriginalsSafe`: `OneProcess`, at most one process and no late commits |
| `Pipeline` | `ConstantsAssumption`: NULL is no content and no checkpoint's row; at least one attempt; the bounds are naturals |
| `RowLocks` | `ConstantsAssumption`: workers and operators are different sessions, NULL is no run, there is a run for each version, at least one attempt |
| `Migrations` | `ReleasesAssumption`: there is a release, each has at least one migration, numbered from 1, and a profile, and NULL is no migrator |
| `GroundedSearch` | `SearchAssumption`: the bounds are naturals and the limit is one the service accepts, 1 to 20 |
| `LoginGuard` | `GuardAssumption`: finitely many addresses and logins at a time; limit, window and table size are not 0 |
| `MCDeployments` | `OneProcessAssumption`: the first deployment has one process at most |
| `Chunker` | `ConfigAssumption`: the order of the profile's numbers that `ChunkPagesWithProfile` asks for and computes; counters are not 0 |
| `Sessions` | `ClocksAssumption`: any two clocks are at most `Spread` apart; `TTL` is not 0 |

| Theorem | Property | Module |
|---|---|---|
| `TypeCorrect` | `TypeOK` | `RunQueueProofs` |
| `FencingCorrect` | `FencesIdentifyClaims` | `RunQueueProofs` |
| `QueueNeverPoisoned` | `NoPoisonedRun` | `RunQueueProofs` |
| `AttemptsCorrect` | `FailuresAreCounted` | `RunQueueProofs` |
| `FinishedIsFinal` | `FinishedRunsStay` | `RunQueueProofs` |
| `QueueBounded` | `QueueIsBounded` | `RunQueueProofs` |
| `SingleLiveRun` | `OneLiveRunPerVersion` | `RunQueueProofs` |
| `VersionsAgree` | `VersionsTrackRuns` | `RunQueueProofs` |
| `DocumentsGoForward` | `ActiveGoesForward` | `RunQueueProofs` |
| `SearchesReadOneClaim` | `PublishedByItsClaim` | `RunQueueProofs` |
| `PublishedChunksKept` | `PublishedChunksStay` | `RunQueueProofs` |
| `QueueImplementsPublication` | `ImplementsPublication` | `RunQueueProofs` |
| `RegistrationTyped` | `TypeOK` | `RegistrationProofs` |
| `KeysRegisterOnce` | `KeyRegistersOnce` | `RegistrationProofs` |
| `AnswersCorrect` | `AnswersAreTrue` | `RegistrationProofs` |
| `RegistrationImplementsKeys` | `ImplementsRequestKeys` | `RegistrationProofs` |
| `NothingLeftOver` | `NoOriginalLeftOver` | `RegistrationProofs` |
| `OriginalsSafe` | `OriginalsKept` | `RegistrationProofs` |
| `OneProcessSafe` | `OneProcessKeepsOriginals` | `DeploymentProofs` |
| `TypeCorrect` | `TypeOK` | `PipelineProofs` |
| `OneParse` | `PublishedFromOneParse` | `PipelineProofs` |
| `HistoryTrue` | `HistoryIsTrue` | `PipelineProofs` |
| `OpenExplained` | `OpenAttemptsExplained` | `PipelineProofs` |
| `FencesSeparate` | `FencesSeparateClaims` | `PipelineProofs` |
| `TypeCorrect` | `TypeOK` | `RowLocksProofs` |
| `RowsAlwaysAgree` | `RowsAgree` | `RowLocksProofs` |
| `CirclesExplained` | `CirclesAreStaleRetries` | `RowLocksProofs` |
| `OnlyTheHolderWrote` | `TypeOK` | `MigrationsProofs` |
| `MigratorsInstall` | `ImplementsInstallation` | `MigrationsProofs` |
| `ReportsStayTrue` | `ConclusionsAreTrue` | `MigrationsProofs` |
| `AnswersTyped` | `TypeOK` | `WebProofs` |
| `SupportedTrue` | `SupportedIsTrue` | `WebProofs` |
| `OnlyInactiveTrue` | `OnlyInactiveWasTrue` | `WebProofs` |
| `FailsClosed` | `ClientFailsClosed` | `WebProofs` |
| `GuardBounded` | `GuardIsBounded` | `WebProofs` |
| `RefusalsAndBlocks` | `BlocksAreJust` | `WebProofs` |
| `SessionsTyped` | `SessionTypeOK` | `WebProofs` |
| `HonouredInTime` | `SessionsLast` | `WebProofs` |
| `LoggedOut` | `LogoutIsFinal` | `WebProofs` |
| `TextKept` | `TextIsKept` | `ChunkerProofs` |
| `ChunksFollowText` | `WindowsGoForward` | `ChunkerProofs` |
| `ChunkingAdvances` | each turn of the loops takes something off | `ChunkerProofs` |

Almost none of these is inductive alone. The strengthenings were first checked by TLC on the
instances of the runs.

*RunQueue.* The inductive invariant is built in layers, each proved to be kept by every step with
the help of the layers below it:

- `Rows` is `TypeOK` and `References`: the version of a run and the run of a claim exist before
  anything writes to them.
- `Fences` adds that tokens are below the counter: only then is a new token new.
- `Leases` says which token, lease and attempts go with a status: a queued run, and a run that
  waits for its retry, has no token and an attempt left; a leased one has a token and at least
  one attempt. That an attempt is left holds because `Fail` compares the worker's own copy of
  the attempt number, which by `Fences` is the row's, and because a reclaim gives an attempt
  back.
- `Alone` says what Finalize knows of the document: until claims overlap one run at most has a
  lease, lapsed or not (`OneLease`), and a worker inside Finalize that still has its claim saw the
  version that is active now (`UpToDate`). So the number it reads is the active version's
  (`NumberIsActive`). Without the condition both are false, which is what `single_flight` and
  `stale_join` show; nothing of the kind holds of Retry, which takes no lease.
- `Versions` adds to `VersionsTrackRuns` that a version is absent exactly from its document's
  next number on, and that the version of a running run is PROCESSING. The first makes a
  registration's version new, the second makes `Fail` find the version it updates. That a
  superseded version is behind a higher one needs `Alone`.
- `Chunks` says that a worker past `StoreChunks` that still has its claim finds its own chunks.
  Finalize compares `staged_by_run_id` with the run only, not with the claim; the chunks are of
  the claim because a later claim of the run has another token, another run of the version
  cannot be live, and a claim starts again at its first stage.

`RowSteps` lists the eight things any step can do to a run and its events; the
proofs about single runs are case distinctions over that list. The refinement proof
needs `Versions` to show that the abstract step's guard holds: that a
registered version comes after all others, that the version Finalize replaces is the shown one; and
`Alone` for the order of publications.

*Registration.* The invariant is `Registered`: types, `KeyRegistersOnce`, and

- `Bound`: past its reservation a request has the content its key is bound to;
- `Locks`: a transaction that has its row locked, or a late commit, finds it PENDING and is the
  only one. This is what makes the version it inserts the key's first.

Every step is first shown to be one of those that `KeyStep` and `RequestStep` list, and the
invariants and the refinement follow from the lists. For the originals, `Move` lists what a
request's step does to the objects; `Gated` adds that one request at a time is past the gate, so
that what its `Check` found still holds when it removes. That needs `OneProcess`, and the run
`two_processes` shows that its first half cannot be dropped. `DeploymentProofs` carries the result
over to the instance that `registration` checks.

*Pipeline.* `PInv` follows the content: the output of a checkpoint begins with its input
(`CheckpointInv`); what a worker remembers for a stage begins with what it remembers for the
stage before (`Remembers`), since it was either computed from it or taken from a checkpoint whose
input is equal to it; what the holder of the lease staged is what it remembers (`StagedInv`).
Then the chunks that Finalize makes visible begin with the pages whose number it records. `HInv`
adds the history. `SetStage` completes a stage by attempt number, and claims can share one; the
row it finds is the right one because an open row of an earlier claim has a lower number than
the run (`OpenInv`): such a row was left by a Fail, and after a Fail the next claim has one
attempt more, while a reclaim, which gives the number back, closes what the claim had open.

*RowLocks.* A transaction holds the lock of what it has read until it commits, so what it knows
stays true: that the run is still claimed, and that the document's active version is the one it
will replace (`TxOK`). This holds because locks that conflict are not held by two (`Exclusive`),
and it makes the rows agree between any two statements (`RowsInv`). For circles, `HeldOK` says
how far a transaction is that holds a lock. A transaction that waits for `queue_control` holds
nothing, so nobody in a circle waits for it; then nobody in a circle waits for one that holds only
that lock and runs; what is left are `Finalize` that waits for a version, `Fail` and `Retry` that
wait for the document and `Requeue` that waits for its version. A version in that circle is one
whose run is claimed and which a retry holds: the retry finds it PROCESSING and is refused.

*Migrations.* The lock is with the one migrator that is past it, and one that has not begun its
work has written nothing (`Locked`); the ledger is that of one release (`OneRelease`); and each
migration before the next one is in the ledger or was executed in this transaction (`Progress`).
A commit then makes the ledger that of its release, which the last one is part of.

*GroundedSearch.* Each answer is followed back to the query it came from: its hits were active at
one moment (`WasActive`), an original that was checked was sound (`WasSound`), and at the probe
either nothing matches, or what matches did so, inactive, at an earlier moment (`WasInactive`).
The last one holds because chunks are staged only for a pending version: after an empty query,
the first match is an inactive one.

*Sessions.* A request holds the clock of the moment its statement began (`OldSession`), a row ends
by the clock of the process that issued it and is gone only if the database's clock was past it
or it was logged out (`RowOK`), and no two logins have one token (`Apart`). So a token that was
logged out is not inserted again.

*LoginGuard.* `GuardInv` relates an entry of the table to the history of its address. `EntryOK`:
what an entry counts and the logins of its address that are past the guard are together at most
`MostCounted`, for the guard lets one pass only below the limit. `Counts`: what an entry counts are
the last wrong passwords recorded, none of them longer than a window before the entry ends; so a
refusal is earned. `Spaced`: the first that an entry counts was recorded at most `LoginTime` after
the entry began; then a wrong password and the one `2 * MostCounted` after it are in different
entries with one between them, and at least a window less `LoginTime` apart. The last holds only
while the full table has lost nothing of the address (`dropped`).

*Chunker.* `ChunkInv` says where the text of the page under way is: in its chunks, in `current`, in
`forced` and in `rest`, and nowhere else. The one place where text may be left behind is between a
window and the next; only spaces are (`NextStart`). That chunks fit is `TokensGrow`, a piece never
has more tokens than a longer one from the same rune on, for the window that ends before a space.
`ChunkingAdvances` is the measure of the loops: what is left of the page or of the sentence shrinks,
or the page goes on.

For the order, pieces are spans of positions, and where a word is one token the tokens of a span are
the words that begin in it (`Count`). A window that is not the last of its sentence has `Most` words
(`WindowWords`) and the next one begins with its last `Overlap` words (`OverlapWords`), fewer than
`Most`; so each goes beyond the one before it and repeats that much. `Placed` puts the chunks, the
sentences collected or what is left of a long one, and `rest` in the order of the text (`InOrder`,
`CutOff`, `Laps`). Only a full window shares text with its successor, and a full window is never
merged with a tail, since the two together have more than `Most` tokens (`JoinedTokens`); so merging
does not break the order. The proof found what the numbers of the run do not show: with an overlap
of more than half a chunk, a chunk also shares text with the one after the next, hence the condition
in `ChunksInOrder`.

Left to TLC are `EveryRunEnds` and `EveryWaitEnds`: liveness under fairness, which the provers cannot
do.

## What could follow

The modules of the inventory are written, and their safety is proved. What could be added is the
part of the two liveness properties that is not temporal, as action properties: measures that the
steps of a run, or of a transaction, decrease.

## Not modelled

The fields no step decides on (page counts, correlation ids, timestamps); the read-only calls
(listing, preflight, recovery of a request, readiness); the wrappers of the PDF parser and the
embedding runtime, whose result is a variant in `Pipeline` and whose failure is a call that
fails; the scores and ranks of a search, which are floating point; configuration and the
command-line entry points, which end before any of this begins; the offline qualification of PDF
libraries. The CSRF token and the guessing of session tokens are taken for granted.
