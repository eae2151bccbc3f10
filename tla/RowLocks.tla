------------------------------ MODULE RowLocks ------------------------------
(***************************************************************************)
(* The store's transactions on one document, statement by statement        *)
(* (internal/adapters/postgres/store.go).                                  *)
(*                                                                         *)
(* RunQueue takes a transaction for one step, or two.  Here it takes its   *)
(* row locks one after the other, waits for those that others hold,        *)
(* and reads as PostgreSQL's READ COMMITTED lets it: a statement sees what *)
(* was committed when it began, and a row it had to wait for as it is when *)
(* the lock is granted - that row only, not the rows it is joined with.    *)
(* Two things depend on this: which transactions can wait for each other   *)
(* in a circle, and what Finalize takes for the active version's number.   *)
(*                                                                         *)
(* Writes take effect at the commit: until then the rows are locked, and   *)
(* nobody reads them without locking them.  A transaction in a circle is   *)
(* aborted by PostgreSQL's deadlock detector.                              *)
(***************************************************************************)
EXTENDS Integers, Sequences, FiniteSets

CONSTANTS
  Workers,     \* worker processes, one database session each
  Operators,   \* sessions of the web server in which a retry can run
  Runs,        \* identities of processing runs
  None,        \* SQL NULL
  MaxVersion,  \* versions of the document
  MaxAttempts, \* automatic attempts of a run (3)
  MaxFaults    \* bound: stopped workers and lapsed leases

ConstantsAssumption ==
  /\ None \notin Runs
  /\ Workers \cap Operators = {}
  /\ MaxVersion \in Nat /\ MaxVersion <= Cardinality(Runs)
  /\ MaxAttempts \in Nat \ {0}
  /\ MaxFaults \in Nat

VARIABLES
  active,  \* document.active_version_id, as the version's number (0: NULL)
  version, \* document_version.status
  run,     \* processing_run rows
  tx,      \* the open transaction of each session
  held,    \* row locks: session, row and mode
  worker,  \* the claim each worker has in memory, and the call it makes next
  faults   \* faults so far

vars == <<active, version, run, tx, held, worker, faults>>

Sessions == Workers \cup Operators
Versions == 1 .. MaxVersion

NoTx   == [kind |-> "none", pos |-> 0, run |-> None, seen |-> 0, number |-> 0, previous |-> 0]
Idle   == [run |-> None, next |-> "Claim"]
NoRun  == [status |-> "ABSENT", version |-> 0, owner |-> None, lease |-> "none", attempts |-> 0,
           error |-> None]
Queued(v) == [NoRun EXCEPT !.status = "QUEUED", !.version = v]

\* Every version is registered, its first run queued.
Init ==
  /\ active = 0
  /\ version = [v \in Versions |-> "QUEUED"]
  /\ \E first \in [Versions -> Runs] :
       /\ \A u, v \in Versions : first[u] = first[v] => u = v
       /\ run = [r \in Runs |-> IF \E v \in Versions : first[v] = r
                                THEN Queued(CHOOSE v \in Versions : first[v] = r)
                                ELSE NoRun]
  /\ tx = [t \in Sessions |-> NoTx]
  /\ held = {}
  /\ worker = [w \in Workers |-> Idle]
  /\ faults = 0

-----------------------------------------------------------------------------
(* Which locks a transaction takes, in its order.  "read" is the start of a
   statement that reads rows it does not lock.                             *)

\* Mutant: Fail updates the version before it verifies the claim.
LockOrderFailBackwards(kind) ==
  CASE kind = "Claim"    -> <<"queue", "expired", "candidate", "own">>
    [] kind = "Store"    -> <<"run", "own">>
    [] kind = "Finalize" -> <<"run", "read", "document", "previous", "own">>
    [] kind = "Fail"     -> <<"own", "run", "document">>
    [] kind = "Requeue"  -> <<"run", "document", "own">>
    [] kind = "Retry"    -> <<"queue", "read", "run", "own", "document">>

\* Mutant: Finalize does not lock the document, nor Retry anything.
LockOrderUnlocked(kind) ==
  CASE kind = "Claim"    -> <<"queue", "expired", "candidate", "own">>
    [] kind = "Store"    -> <<"run", "own">>
    [] kind = "Finalize" -> <<"run", "read", "previous", "own">>
    [] kind = "Fail"     -> <<"run", "own", "document">>
    [] kind = "Requeue"  -> <<"run", "document", "own">>
    [] kind = "Retry"    -> <<"read">>

LockOrder(kind) ==
  CASE kind = "Claim"    -> <<"queue", "expired", "candidate", "own">>
    [] kind = "Store"    -> <<"run", "own">>
    [] kind = "Finalize" -> <<"run", "read", "document", "previous", "own">>
    [] kind = "Fail"     -> <<"run", "own", "document">>
    [] kind = "Requeue"  -> <<"run", "document", "own">>
    [] kind = "Retry"    -> <<"queue", "read", "run", "own", "document">>

\* The statement a transaction is at; "commit" after the last lock.
At(t) == LET order == LockOrder(tx[t].kind)
         IN IF tx[t].kind = "none" THEN "none"
            ELSE IF tx[t].pos > Len(order) THEN "commit"
            ELSE order[tx[t].pos]

Own(t) == run[tx[t].run].version

Expired == {r \in Runs : run[r].status = "RUNNING" /\ run[r].lease = "expired"}

\* FOR UPDATE; the lock of an UPDATE that leaves the keys alone; the lock of
\* a foreign key (the inserts into search_chunk and change_log).
Mode(t) ==
  CASE At(t) \in {"queue", "expired", "run", "candidate"} -> "update"
    [] At(t) = "previous" -> "nokey"
    [] At(t) = "document" -> IF tx[t].kind \in {"Fail", "Requeue"} THEN "keyshare" ELSE "update"
    [] At(t) = "own" -> CASE tx[t].kind \in {"Store", "Requeue"} -> "keyshare"
                          [] tx[t].kind = "Retry" -> "update"
                          [] OTHER -> "nokey"

\* The rows the statement locks.  ClaimNext's update finds no QUEUED version
\* when it leases a reclaimed run.
Rows(t) ==
  CASE At(t) = "queue"    -> {<<"queue", 0>>}
    [] At(t) = "expired"  -> {<<"run", r>> : r \in Expired}
    [] At(t) = "run"      -> {<<"run", tx[t].run>>}
    [] At(t) = "document" -> {<<"document", 0>>}
    [] At(t) = "previous" -> {<<"version", v>> : v \in
         IF tx[t].number > Own(t) THEN {} ELSE {tx[t].previous} \ {0, Own(t)}}
    [] At(t) = "own"      -> {<<"version", v>> : v \in
         IF tx[t].kind = "Claim" /\ version[Own(t)] # "QUEUED" THEN {} ELSE {Own(t)}}
    [] OTHER              -> {}

Conflicts(mode) == CASE mode = "update"   -> {"update", "nokey", "keyshare"}
                     [] mode = "nokey"    -> {"update", "nokey"}
                     [] mode = "keyshare" -> {"update"}

LockedAgainst(t, row, mode) ==
  \E h \in held : h.session # t /\ h.row = row /\ h.mode \in Conflicts(mode)

Waits(t) == \E row \in Rows(t) : LockedAgainst(t, row, Mode(t))

\* The sessions t waits for.
Blockers(t) ==
  LET rows == Rows(t)
  IN IF rows = {} THEN {}
     ELSE {h.session : h \in
            {g \in held : g.row \in rows /\ g.session # t /\ g.mode \in Conflicts(Mode(t))}}

\* Several sessions wait for each other in a circle if each part of them waits
\* for the rest.
Circles ==
  {S \in SUBSET Sessions :
     /\ \E t, u \in S : t # u
     /\ \A part \in SUBSET S \ {{}, S} : \E t \in part : Blockers(t) \cap (S \ part) # {}}

Granted(t) == held' = held \cup
  {[session |-> t, row |-> row, mode |-> Mode(t)] : row \in Rows(t)}

\* Mutant: an early return without the rollback.
EndedKeepingLocks(t) == tx' = [tx EXCEPT ![t] = NoTx] /\ UNCHANGED held

\* A transaction ends and its locks go.
Ended(t) == /\ tx' = [tx EXCEPT ![t] = NoTx]
            /\ held' = {h \in held : h.session # t}

-----------------------------------------------------------------------------
(* Transactions begin: what a worker's loop calls next, and an operator's
   retry of any run, which the web server takes without a look at it.      *)

Writable(w, r) == /\ run[r].status = "RUNNING"
                  /\ run[r].owner = w
                  /\ run[r].lease = "live"

Begin(t, kind, r) ==
  /\ tx[t].kind = "none"
  /\ tx' = [tx EXCEPT ![t] = [NoTx EXCEPT !.kind = kind, !.pos = 1, !.run = r]]
  /\ UNCHANGED <<active, version, run, held, worker, faults>>

Call(w) ==
  \/ /\ worker[w].next # "Fail"
     /\ Begin(w, worker[w].next, worker[w].run)
  \/ /\ worker[w].next = "Fail"
     /\ \E kind \in {"Fail", "Requeue"} :
          /\ kind = "Requeue" => run[worker[w].run].attempts < MaxAttempts
          /\ Begin(w, kind, worker[w].run)

RetryCall(t) == \E r \in Runs : run[r].status # "ABSENT" /\ Begin(t, "Retry", r)

\* Something else goes wrong between two calls: the worker reports a failure.
CallFails(w) ==
  /\ tx[w].kind = "none"
  /\ worker[w].next \in {"Store", "Finalize"}
  /\ worker' = [worker EXCEPT ![w].next = "Fail"]
  /\ UNCHANGED <<active, version, run, tx, held, faults>>

-----------------------------------------------------------------------------
(* Statements.                                                             *)

Advance(t, row) == tx' = [tx EXCEPT ![t] = [row EXCEPT !.pos = @ + 1]]

\* A statement begins and sees the document as it was committed by then.
Read(t) ==
  /\ At(t) = "read"
  /\ Advance(t, [tx[t] EXCEPT !.seen = active, !.number = active, !.previous = active])
  /\ UNCHANGED <<active, version, run, held, worker, faults>>

\* The locks are free, or were given up.
Lock(t) ==
  /\ \/ At(t) \in {"queue", "expired", "previous", "own"}
     \/ At(t) = "run" /\ tx[t].kind = "Retry"
  /\ ~Waits(t)
  /\ Granted(t)
  /\ Advance(t, tx[t])
  /\ UNCHANGED <<active, version, run, worker, faults>>

\* verifyWritableClaim, once it has the run: a worker that lost its claim
\* rolls back and gives the claim up.
LockRun(t) ==
  /\ At(t) = "run"
  /\ tx[t].kind # "Retry"
  /\ ~Waits(t)
  /\ IF Writable(t, tx[t].run)
     THEN Granted(t) /\ Advance(t, tx[t]) /\ UNCHANGED worker
     ELSE Ended(t) /\ worker' = [worker EXCEPT ![t] = Idle]
  /\ UNCHANGED <<active, version, run, faults>>

\* FOR UPDATE OF d: if the document was changed since the statement began, its
\* row is read again, but joined with the active version found before: the
\* outer join finds no match any more, and COALESCE makes its number 0.
NumberRead(t) == IF active = tx[t].seen THEN active ELSE 0

LockDocument(t) ==
  /\ At(t) = "document"
  /\ ~Waits(t)
  /\ Granted(t)
  /\ Advance(t, [tx[t] EXCEPT !.number = NumberRead(t), !.previous = active])
  /\ UNCHANGED <<active, version, run, worker, faults>>

\* ClaimNext looks for a live lease, then for a claimable run nobody has
\* locked (SKIP LOCKED).  It holds the runs its first statement reclaims.
Reclaiming(t) == {r \in Expired : \E h \in held : h.session = t /\ h.row = <<"run", r>>}

LiveLeases == {r \in Runs : run[r].status = "RUNNING" /\ run[r].lease = "live"}

Candidates(t) ==
  {r \in Runs : /\ \/ run[r].status = "QUEUED"
                   \/ run[r].status = "RUNNING" /\ run[r].lease = "none"
                   \/ r \in Reclaiming(t)
                /\ ~LockedAgainst(t, <<"run", r>>, "update")}

\* Mutant: the attempt is not given back.
ReclaimedCounting(t, rows) ==
  [r \in Runs |-> IF r \in Reclaiming(t)
                  THEN [rows[r] EXCEPT !.status = "QUEUED", !.owner = None, !.lease = "none"]
                  ELSE rows[r]]

Reclaimed(t, rows) ==
  [r \in Runs |-> IF r \in Reclaiming(t)
                  THEN [rows[r] EXCEPT !.status = "QUEUED", !.owner = None, !.lease = "none",
                                       !.attempts = @ - 1]
                  ELSE rows[r]]

PickRun(t) ==
  /\ At(t) = "candidate"
  /\ \/ /\ LiveLeases # {} \/ Candidates(t) = {}
        /\ run' = Reclaimed(t, run)
        /\ Ended(t)
     \/ /\ LiveLeases = {}
        /\ \E r \in Candidates(t) :
             /\ held' = held \cup {[session |-> t, row |-> <<"run", r>>, mode |-> "update"]}
             /\ Advance(t, [tx[t] EXCEPT !.run = r])
        /\ UNCHANGED run
  /\ UNCHANGED <<active, version, worker, faults>>

-----------------------------------------------------------------------------
(* Commits.                                                                *)

CommitClaim(t) ==
  LET r == tx[t].run IN
  /\ At(t) = "commit" /\ tx[t].kind = "Claim"
  /\ run' = [Reclaimed(t, run) EXCEPT ![r].status = "RUNNING", ![r].owner = t, ![r].lease = "live",
                                      ![r].attempts = @ + 1]
  /\ version' = [version EXCEPT ![Own(t)] = IF @ = "QUEUED" THEN "PROCESSING" ELSE @]
  /\ worker' = [worker EXCEPT ![t] = [run |-> r, next |-> "Store"]]
  /\ Ended(t)
  /\ UNCHANGED <<active, faults>>

CommitStore(t) ==
  /\ At(t) = "commit" /\ tx[t].kind = "Store"
  /\ run' = [run EXCEPT ![tx[t].run].lease = "live"]
  /\ worker' = [worker EXCEPT ![t].next = "Finalize"]
  /\ Ended(t)
  /\ UNCHANGED <<active, version, faults>>

CommitFinalize(t) ==
  LET outranked == tx[t].number > Own(t) IN
  /\ At(t) = "commit" /\ tx[t].kind = "Finalize"
  /\ active' = IF outranked THEN active ELSE Own(t)
  /\ version' = [v \in Versions |->
       IF v = Own(t) THEN IF outranked THEN "SUPERSEDED" ELSE "ACTIVE"
       ELSE IF ~outranked /\ v = tx[t].previous /\ version[v] = "ACTIVE" THEN "SUPERSEDED"
       ELSE version[v]]
  /\ run' = [run EXCEPT ![tx[t].run].status = IF outranked THEN "SUPERSEDED" ELSE "SUCCEEDED",
                        ![tx[t].run].lease = "none"]
  /\ worker' = [worker EXCEPT ![t] = Idle]
  /\ Ended(t)
  /\ UNCHANGED faults

CommitFail(t) ==
  LET r == tx[t].run IN
  /\ At(t) = "commit"
  /\ \/ /\ tx[t].kind = "Fail"
        /\ \E code \in {"INVALID_INPUT", "TRANSIENT_EXHAUSTED"} :
             /\ code = "TRANSIENT_EXHAUSTED" => run[r].attempts = MaxAttempts
             /\ run' = [run EXCEPT ![r].status = "FAILED", ![r].lease = "none", ![r].error = code]
        /\ version' = [version EXCEPT ![Own(t)] = IF @ = "PROCESSING" THEN "FAILED" ELSE @]
     \/ /\ tx[t].kind = "Requeue"
        /\ run' = [run EXCEPT ![r].owner = None, ![r].lease = "none"]
        /\ UNCHANGED version
  /\ worker' = [worker EXCEPT ![t] = Idle]
  /\ Ended(t)
  /\ UNCHANGED <<active, faults>>

\* A run whose retry is not refused, by the rows as they are.
RetriableRow(r) == /\ run[r].status = "FAILED"
                   /\ run[r].error = "TRANSIENT_EXHAUSTED"
                   /\ version[run[r].version] = "FAILED"

\* Retry: run and version are read under their locks, the active version's
\* number as in Finalize.
CommitRetry(t) ==
  LET r == tx[t].run IN
  /\ At(t) = "commit" /\ tx[t].kind = "Retry"
  /\ IF RetriableRow(r) /\ tx[t].number <= Own(t)
     THEN \E child \in Runs :
            /\ run[child].status = "ABSENT"
            /\ run' = [run EXCEPT ![child] = Queued(Own(t))]
            /\ version' = [version EXCEPT ![Own(t)] = "QUEUED"]
     ELSE UNCHANGED <<run, version>>
  /\ Ended(t)
  /\ UNCHANGED <<active, worker, faults>>

\* Bound: no run left to insert.
RetryRunsOut(t) ==
  /\ At(t) = "commit" /\ tx[t].kind = "Retry"
  /\ \A r \in Runs : run[r].status # "ABSENT"
  /\ RetriableRow(tx[t].run)
  /\ Ended(t)
  /\ UNCHANGED <<active, version, run, worker, faults>>

\* PostgreSQL aborts one of the transactions that wait in a circle; a worker
\* goes on to report the failure.
DeadlockVictim(t) ==
  /\ \E S \in Circles : t \in S
  /\ Ended(t)
  /\ worker' = IF t \in Workers /\ tx[t].kind # "Claim"
               THEN [worker EXCEPT ![t] = IF tx[t].kind \in {"Fail", "Requeue"} THEN Idle
                                          ELSE [@ EXCEPT !.next = "Fail"]]
               ELSE worker
  /\ UNCHANGED <<active, version, run, faults>>

-----------------------------------------------------------------------------
Fault == faults < MaxFaults /\ faults' = faults + 1

\* A worker process dies; the server rolls its transaction back.
WorkerStops(w) ==
  /\ worker[w] # Idle \/ tx[w].kind # "none"
  /\ Fault
  /\ worker' = [worker EXCEPT ![w] = Idle]
  /\ Ended(w)
  /\ UNCHANGED <<active, version, run>>

Held(r) == \E w \in Workers : worker[w].run = r /\ run[r].owner = w

LeaseExpires(r) ==
  /\ r \in LiveLeases
  /\ ~Held(r)
  /\ run' = [run EXCEPT ![r].lease = "expired"]
  /\ UNCHANGED <<active, version, tx, held, worker, faults>>

\* A worker is too slow: no heartbeat gets through while its own transaction
\* has the run's row.
LeaseLapses(r) ==
  /\ r \in LiveLeases
  /\ Held(r)
  /\ Fault
  /\ run' = [run EXCEPT ![r].lease = "expired"]
  /\ UNCHANGED <<active, version, tx, held, worker>>

-----------------------------------------------------------------------------
Statement(t) == Read(t) \/ Lock(t) \/ LockRun(t) \/ LockDocument(t) \/ PickRun(t)

Commit(t) == CommitClaim(t) \/ CommitStore(t) \/ CommitFinalize(t) \/ CommitFail(t)
               \/ CommitRetry(t) \/ RetryRunsOut(t)

Next ==
  \/ \E w \in Workers : Call(w) \/ CallFails(w) \/ WorkerStops(w)
  \/ \E t \in Operators : RetryCall(t)
  \/ \E t \in Sessions : Statement(t) \/ Commit(t) \/ DeadlockVictim(t)
  \/ \E r \in Runs : LeaseExpires(r) \/ LeaseLapses(r)

Spec == Init /\ [][Next]_vars

\* Statements are executed, locks granted, circles broken.  A session is not
\* passed over for ever when a lock is given up (PostgreSQL queues waiters).
Fairness ==
  \A t \in Sessions : SF_vars(Statement(t)) /\ WF_vars(Commit(t)) /\ WF_vars(DeadlockVictim(t))

FairSpec == Spec /\ Fairness

-----------------------------------------------------------------------------
(* Properties.                                                             *)

Modes == {"update", "nokey", "keyshare"}

LockRows == {<<"queue", 0>>, <<"document", 0>>} \cup {<<"run", r>> : r \in Runs}
              \cup {<<"version", v>> : v \in Versions}

\* Rows, transactions and locks have their types.
TypeOK ==
  /\ active \in 0 .. MaxVersion
  /\ version \in [Versions -> {"QUEUED", "PROCESSING", "ACTIVE", "FAILED", "SUPERSEDED"}]
  /\ run \in [Runs -> [status : {"ABSENT", "QUEUED", "RUNNING", "SUCCEEDED", "FAILED", "SUPERSEDED"},
                       version : 0 .. MaxVersion, owner : Workers \cup {None},
                       lease : {"none", "live", "expired"}, attempts : 0 .. MaxAttempts,
                       error : {None, "INVALID_INPUT", "TRANSIENT_EXHAUSTED"}]]
  /\ tx \in [Sessions ->
       [kind : {"none", "Claim", "Store", "Finalize", "Fail", "Requeue", "Retry"}, pos : 0 .. 6,
        run : Runs \cup {None}, seen : 0 .. MaxVersion, number : 0 .. MaxVersion,
        previous : 0 .. MaxVersion]]
  /\ held \subseteq [session : Sessions, row : LockRows, mode : Modes]
  /\ worker \in [Workers -> [run : Runs \cup {None}, next : {"Claim", "Store", "Finalize", "Fail"}]]
  /\ faults \in 0 .. MaxFaults

\* The document points to its one ACTIVE version, and a version waits or is
\* processed exactly as long as a run is live for it, however the
\* transactions interleave: also after a Finalize that read a wrong number.
RowsAgree ==
  /\ \A v \in Versions : version[v] = "ACTIVE" <=> active = v
  /\ \A v \in Versions :
       LET live == {r \in Runs : run[r].version = v /\ run[r].status \in {"QUEUED", "RUNNING"}}
       IN /\ Cardinality(live) <= 1
          /\ version[v] \in {"QUEUED", "PROCESSING"} <=> live # {}

\* Transactions wait in a circle only over a retry that is to be refused, one
\* of a run whose version has been retried or published since.  Workers among
\* themselves, a retry that goes through, and whatever holds the queue's lock
\* for a claim never do.
CirclesAreStaleRetries ==
  \A S \in Circles :
    /\ \E t \in S : tx[t].kind = "Retry" /\ ~RetriableRow(tx[t].run)
    /\ \A t \in S : tx[t].kind # "Claim"

\* "A lower version can never replace a higher version that is already
\* active" (comment on Finalize).
ActiveNeverGoesBack == [][active' >= active]_vars

\* No transaction waits for ever.
EveryTransactionEnds == \A t \in Sessions : tx[t].kind # "none" ~> tx[t].kind = "none"
=============================================================================
