--------------------------- MODULE RowLocksProofs ---------------------------
(***************************************************************************)
(* What RowLocks promises, for any number of workers, operators, runs and  *)
(* versions.                                                               *)
(*                                                                         *)
(* The rows of different tables agree because a transaction that has read  *)
(* a row holds its lock until it commits: the run it was claimed for stays *)
(* claimed, and the document's active version stays the one Finalize read  *)
(* (TxOK), since locks that conflict are not held by two (Exclusive).      *)
(*                                                                         *)
(* Who can wait in a circle follows from the order in which locks are      *)
(* taken: what a session holds tells how far its transaction is (HeldOK).  *)
(***************************************************************************)
EXTENDS RowLocks, FiniteSetTheorems, TLAPS

Calls == {"Store", "Finalize", "Fail", "Requeue"}

Has(t, row) == [session |-> t, row |-> row, mode |-> "update"] \in held

\* Attempts are given back once and taken once: a row that waits has one left,
\* a row that was leased has used one.
RowOK(row) ==
  /\ row.status # "ABSENT" => row.version \in Versions
  /\ row.status = "QUEUED" => row.attempts < MaxAttempts
  /\ row.status = "RUNNING" /\ row.lease = "none" => row.attempts < MaxAttempts
  /\ row.status = "RUNNING" /\ row.lease # "none" => row.attempts >= 1

IsLive(r) == run[r].status \in {"QUEUED", "RUNNING"}

Pointer == \A v \in Versions : version[v] = "ACTIVE" <=> active = v

OneLive ==
  \A r, s \in Runs : IsLive(r) /\ IsLive(s) /\ run[r].version = run[s].version => r = s

Pending ==
  \A v \in Versions : version[v] \in {"QUEUED", "PROCESSING"} <=>
    \E r \in Runs : IsLive(r) /\ run[r].version = v

InProgress ==
  \A r \in Runs : run[r].status = "RUNNING" => version[run[r].version] = "PROCESSING"

RowsInv == (\A r \in Runs : RowOK(run[r])) /\ Pointer /\ OneLive /\ Pending /\ InProgress

Claimed(t) == /\ run[tx[t].run].status = "RUNNING"
              /\ run[tx[t].run].owner = t
              /\ run[tx[t].run].lease # "none"

\* A row ClaimNext may lease, which no heartbeat renews any more.
Leasable(row) == row.status = "QUEUED" \/ (row.status = "RUNNING" /\ row.lease # "live")

\* What a transaction knows and holds, by how far it is.
TxOK(t) ==
  /\ tx[t].kind # "none" => tx[t].pos >= 1
  /\ tx[t].kind \in Calls \cup {"Claim"} => t \in Workers
  /\ tx[t].kind = "Retry" => t \in Operators
  /\ tx[t].kind \in Calls => tx[t].run \in Runs /\ worker[t].run \in Runs
  /\ tx[t].kind \in Calls /\ tx[t].pos >= 2 => Claimed(t) /\ Has(t, <<"run", tx[t].run>>)
  /\ tx[t].kind = "Requeue" /\ Claimed(t) => run[tx[t].run].attempts < MaxAttempts
  /\ tx[t].kind = "Retry" => tx[t].run \in Runs /\ run[tx[t].run].status # "ABSENT"
  /\ tx[t].kind = "Claim" /\ tx[t].pos >= 4 =>
       tx[t].run \in Runs /\ Has(t, <<"run", tx[t].run>>) /\ Leasable(run[tx[t].run])
  /\ tx[t].kind = "Finalize" /\ tx[t].pos >= 4 =>
       Has(t, <<"document", 0>>) /\ tx[t].previous = active

\* How far the transaction is that holds a lock.
HeldOK(h) ==
  LET t == h.session
      Beyond(kind, pos) == tx[t].kind = kind /\ tx[t].pos > pos
  IN /\ h.row[1] = "queue" => Beyond("Claim", 1) \/ Beyond("Retry", 1)
     /\ h.row[1] = "run" =>
          /\ h.mode = "update"
          /\ Beyond("Claim", 2) \/ Beyond("Retry", 3) \/ \E kind \in Calls : Beyond(kind, 1)
     /\ h.row[1] = "document" =>
          \/ Beyond("Finalize", 3)
          \/ Beyond("Retry", 5)
          \/ Beyond("Fail", 3) /\ h.mode = "keyshare"
          \/ Beyond("Requeue", 2) /\ h.mode = "keyshare"
     /\ h.row[1] = "version" =>
          \/ Beyond("Claim", 4) \/ Beyond("Store", 2) \/ Beyond("Finalize", 4) \/ Beyond("Requeue", 3)
          \/ Beyond("Fail", 2) /\ h.row[2] = Own(t) /\ h.mode = "nokey"
          \/ Beyond("Retry", 4) /\ h.row[2] = Own(t)

Exclusive ==
  \A g, h \in held : g.session # h.session /\ g.row = h.row => g.mode \notin Conflicts(h.mode)

WorkersInv == \A w \in Workers : worker[w].next # "Claim" => worker[w].run \in Runs

IInv ==
  /\ ConstantsAssumption
  /\ TypeOK
  /\ RowsInv
  /\ WorkersInv
  /\ \A t \in Sessions : TxOK(t)
  /\ \A h \in held : HeldOK(h)
  /\ Exclusive

-----------------------------------------------------------------------------
(* Where a transaction is.                                                 *)

\* The statements of every kind of transaction, one position after the other.
Position(t) ==
  LET kind == tx[t].kind
      pos  == tx[t].pos
  IN \/ kind = "none" /\ At(t) = "none"
     \/ kind = "Claim" /\ \/ pos = 1 /\ At(t) = "queue"
                          \/ pos = 2 /\ At(t) = "expired"
                          \/ pos = 3 /\ At(t) = "candidate"
                          \/ pos = 4 /\ At(t) = "own"
                          \/ pos > 4 /\ At(t) = "commit"
     \/ kind = "Store" /\ \/ pos = 1 /\ At(t) = "run"
                          \/ pos = 2 /\ At(t) = "own"
                          \/ pos > 2 /\ At(t) = "commit"
     \/ kind = "Finalize" /\ \/ pos = 1 /\ At(t) = "run"
                             \/ pos = 2 /\ At(t) = "read"
                             \/ pos = 3 /\ At(t) = "document"
                             \/ pos = 4 /\ At(t) = "previous"
                             \/ pos = 5 /\ At(t) = "own"
                             \/ pos > 5 /\ At(t) = "commit"
     \/ kind = "Fail" /\ \/ pos = 1 /\ At(t) = "run"
                         \/ pos = 2 /\ At(t) = "own"
                         \/ pos = 3 /\ At(t) = "document"
                         \/ pos > 3 /\ At(t) = "commit"
     \/ kind = "Requeue" /\ \/ pos = 1 /\ At(t) = "run"
                            \/ pos = 2 /\ At(t) = "document"
                            \/ pos = 3 /\ At(t) = "own"
                            \/ pos > 3 /\ At(t) = "commit"
     \/ kind = "Retry" /\ \/ pos = 1 /\ At(t) = "queue"
                          \/ pos = 2 /\ At(t) = "read"
                          \/ pos = 3 /\ At(t) = "run"
                          \/ pos = 4 /\ At(t) = "own"
                          \/ pos = 5 /\ At(t) = "document"
                          \/ pos > 5 /\ At(t) = "commit"

TxRows == [kind : {"none", "Claim", "Store", "Finalize", "Fail", "Requeue", "Retry"}, pos : 0 .. 6,
           run : Runs \cup {None}, seen : 0 .. MaxVersion, number : 0 .. MaxVersion,
           previous : 0 .. MaxVersion]

RunRows == [status : {"ABSENT", "QUEUED", "RUNNING", "SUCCEEDED", "FAILED", "SUPERSEDED"},
            version : 0 .. MaxVersion, owner : Workers \cup {None},
            lease : {"none", "live", "expired"}, attempts : 0 .. MaxAttempts,
            error : {None, "INVALID_INPUT", "TRANSIENT_EXHAUSTED"}]

LEMMA Typed ==
  ASSUME TypeOK
  PROVE  /\ tx \in [Sessions -> TxRows] /\ run \in [Runs -> RunRows]
         /\ worker \in [Workers -> [run : Runs \cup {None}, next : {"Claim", "Store", "Finalize", "Fail"}]]
  BY DEF TypeOK, TxRows, RunRows

LEMMA Positions ==
  ASSUME IInv, NEW t \in Sessions
  PROVE  Position(t)
<1>1. tx[t].kind \in {"none", "Claim", "Store", "Finalize", "Fail", "Requeue", "Retry"}
      /\ tx[t].pos \in 0 .. 6 /\ (tx[t].kind # "none" => tx[t].pos >= 1)
  BY Typed DEF IInv, TxRows, TxOK
<1> DEFINE order == LockOrder(tx[t].kind)
<1>2. tx[t].kind # "none" => At(t) = IF tx[t].pos > Len(order) THEN "commit" ELSE order[tx[t].pos]
  BY DEF At
<1>3. CASE tx[t].kind = "none"
  BY <1>3 DEF At, Position
<1>4. CASE tx[t].kind = "Claim"
  <2>1. order = <<"queue", "expired", "candidate", "own">>
    BY <1>4 DEF LockOrder
  <2> HIDE DEF order
  <2> QED BY <1>1, <1>2, <1>4, <2>1 DEF Position
<1>5. CASE tx[t].kind = "Store"
  <2>1. order = <<"run", "own">>
    BY <1>5 DEF LockOrder
  <2> HIDE DEF order
  <2> QED BY <1>1, <1>2, <1>5, <2>1 DEF Position
<1>6. CASE tx[t].kind = "Finalize"
  <2>1. order = <<"run", "read", "document", "previous", "own">>
    BY <1>6 DEF LockOrder
  <2> HIDE DEF order
  <2> QED BY <1>1, <1>2, <1>6, <2>1 DEF Position
<1>7. CASE tx[t].kind = "Fail"
  <2>1. order = <<"run", "own", "document">>
    BY <1>7 DEF LockOrder
  <2> HIDE DEF order
  <2> QED BY <1>1, <1>2, <1>7, <2>1 DEF Position
<1>8. CASE tx[t].kind = "Requeue"
  <2>1. order = <<"run", "document", "own">>
    BY <1>8 DEF LockOrder
  <2> HIDE DEF order
  <2> QED BY <1>1, <1>2, <1>8, <2>1 DEF Position
<1>9. CASE tx[t].kind = "Retry"
  <2>1. order = <<"queue", "read", "run", "own", "document">>
    BY <1>9 DEF LockOrder
  <2> HIDE DEF order
  <2> QED BY <1>1, <1>2, <1>9, <2>1 DEF Position
<1> QED BY <1>1, <1>3, <1>4, <1>5, <1>6, <1>7, <1>8, <1>9

-----------------------------------------------------------------------------
(* Circles of waits.                                                       *)

\* What a session waits for.
LEMMA Wanted ==
  ASSUME NEW t \in Sessions, NEW row \in Rows(t)
  PROVE  \/ At(t) = "queue" /\ row[1] = "queue"
         \/ At(t) \in {"expired", "run"} /\ row[1] = "run"
         \/ At(t) = "document" /\ row[1] = "document"
         \/ At(t) = "previous" /\ row[1] = "version" /\ row[2] = tx[t].previous /\ row[2] # 0
         \/ At(t) = "own" /\ row[1] = "version" /\ row[2] = Own(t)
  BY DEF Rows

WaitsFor(t, u) ==
  u # t /\ \E h \in held : h.session = u /\ h.row \in Rows(t) /\ h.mode \in Conflicts(Mode(t))

\* Each session in a circle waits for one in it, and is waited for by one.
LEMMA InCircle ==
  ASSUME NEW S \in Circles, NEW t \in S
  PROVE  (\E u \in S : WaitsFor(t, u)) /\ (\E u \in S : WaitsFor(u, t))
<1>1. /\ S \subseteq Sessions
      /\ \E u, v \in S : u # v
      /\ \A part \in SUBSET S \ {{}, S} : \E u \in part : Blockers(u) \cap (S \ part) # {}
  BY DEF Circles
<1>2. ASSUME NEW u, NEW v \in Blockers(u)
      PROVE  WaitsFor(u, v)
  <2>1. PICK h \in {g \in held : g.row \in Rows(u) /\ g.session # u /\ g.mode \in Conflicts(Mode(u))} :
          v = h.session
    BY DEF Blockers
  <2> QED BY <2>1 DEF WaitsFor
<1>3. \E u \in S : WaitsFor(t, u)
  <2>1. {t} \in SUBSET S \ {{}, S}
    BY <1>1
  <2> QED BY <1>1, <1>2, <2>1
<1>4. \E u \in S : WaitsFor(u, t)
  <2>1. S \ {t} \in SUBSET S \ {{}, S}
    BY <1>1
  <2>2. PICK u \in S \ {t} : Blockers(u) \cap (S \ (S \ {t})) # {}
    BY <1>1, <2>1
  <2>3. t \in Blockers(u)
    BY <2>2
  <2> QED BY <1>2, <2>3
<1> QED BY <1>3, <1>4

\* Only what holds the document or a version is waited for in a circle: whoever
\* waits for the queue's lock holds nothing, then nobody waits for what holds
\* the queue's lock only, and then nobody waits for a run.
LEMMA CircleOverVersions ==
  ASSUME IInv, NEW S \in Circles, NEW t \in S
  PROVE  At(t) \in {"document", "previous", "own"}
         /\ \E h \in held : h.session = t /\ h.row[1] \in {"document", "version"}
<1>0. S \subseteq Sessions
  BY DEF Circles
<1>1. ASSUME NEW u \in S
      PROVE  \E v \in S, h \in held : h.session = u /\ HeldOK(h) /\ WaitsFor(v, u)
                                      /\ h.row \in Rows(v)
  BY InCircle DEF IInv, WaitsFor
<1>2. ASSUME NEW u \in S
      PROVE  /\ Position(u) /\ tx[u].pos \in 0 .. 6
             /\ At(u) \in {"queue", "expired", "run", "document", "previous", "own"}
  <2>1. \E row : row \in Rows(u)
    BY InCircle DEF WaitsFor
  <2>2. tx[u].pos \in 0 .. 6
    BY <1>0, Typed DEF IInv, TxRows
  <2> QED BY <1>0, <2>1, <2>2, Positions, Wanted
<1>3. ASSUME NEW u \in S PROVE At(u) # "queue" /\ (At(u) = "run" => tx[u].kind = "Retry")
  <2>1. PICK v \in S, h \in held : h.session = u /\ HeldOK(h) /\ h.row \in Rows(v)
    BY <1>1
  <2>2. h.row[1] \in {"queue", "run", "document", "version"}
    BY <1>0, <2>1, Wanted
  <2>3. tx[u].pos > 1
    BY <1>2, <2>1, <2>2 DEF HeldOK
  <2> QED BY <1>2, <2>3 DEF Position
<1>4. ASSUME NEW u \in S PROVE At(u) \notin {"expired", "run"}
  <2>1. PICK v \in S, h \in held : h.session = u /\ HeldOK(h) /\ h.row \in Rows(v)
    BY <1>1
  <2>2. h.row[1] \in {"run", "document", "version"}
    BY <1>0, <1>3, <2>1, Wanted
  <2>3. tx[u].kind = "Claim" => tx[u].pos > 2
    BY <1>2, <2>1, <2>2 DEF HeldOK, Calls
  <2>4. tx[u].kind = "Retry" => tx[u].pos > 3
    BY <1>2, <2>1, <2>2 DEF HeldOK, Calls
  <2> QED BY <1>2, <1>3, <2>3, <2>4 DEF Position
<1>5. PICK v \in S, h \in held : h.session = t /\ HeldOK(h) /\ h.row \in Rows(v)
  BY <1>1
<1>6. h.row[1] \in {"document", "version"}
  BY <1>0, <1>3, <1>4, <1>5, Wanted
<1> QED BY <1>2, <1>3, <1>4, <1>5, <1>6

\* Where those in a circle are.
LEMMA CircleMembers ==
  ASSUME IInv, NEW S \in Circles, NEW t \in S
  PROVE  \/ tx[t].kind = "Finalize" /\ tx[t].pos = 4 /\ At(t) = "previous"
         \/ tx[t].kind = "Finalize" /\ tx[t].pos = 5 /\ At(t) = "own"
         \/ tx[t].kind = "Fail" /\ tx[t].pos = 3 /\ At(t) = "document"
         \/ tx[t].kind = "Requeue" /\ tx[t].pos = 3 /\ At(t) = "own"
         \/ tx[t].kind = "Retry" /\ tx[t].pos = 5 /\ At(t) = "document"
<1>1. Position(t)
  BY Positions DEF Circles
<1>2. PICK h \in held : h.session = t /\ h.row[1] \in {"document", "version"}
  BY CircleOverVersions
<1>3. HeldOK(h) /\ At(t) \in {"document", "previous", "own"}
  BY CircleOverVersions DEF IInv
<1> QED BY <1>1, <1>2, <1>3 DEF HeldOK, Position

\* A session that has verified its claim works on a version that is processed.
LEMMA OwnIsProcessed ==
  ASSUME IInv, NEW t \in Sessions, tx[t].kind \in Calls, tx[t].pos >= 2
  PROVE  /\ version[Own(t)] = "PROCESSING" /\ Own(t) \in Versions
         /\ tx[t].run \in Runs /\ IsLive(tx[t].run) /\ run[tx[t].run].owner = t
  BY DEF IInv, TxOK, Claimed, RowsInv, RowOK, InProgress, Own, IsLive

LEMMA FinalizeKnows ==
  ASSUME IInv, NEW t \in Sessions, tx[t].kind = "Finalize", tx[t].pos \in {4, 5}
  PROVE  Has(t, <<"document", 0>>) /\ tx[t].previous = active
<1>1. TxOK(t)
  BY DEF IInv
<1> QED BY <1>1 DEF TxOK

\* Who waits in a circle for a version that a retry has locked waits for one
\* that is published or processed: the retry is to be refused.
LEMMA CircleRetryIsStale ==
  ASSUME IInv, NEW S \in Circles, NEW t \in S, tx[t].kind = "Retry"
  PROVE  ~RetriableRow(tx[t].run)
<1>1. PICK u \in S : WaitsFor(u, t)
  BY InCircle
<1>2. PICK h \in held : h.session = t /\ h.row \in Rows(u)
  BY <1>1 DEF WaitsFor
<1>3. HeldOK(h) /\ tx[t].pos = 5
  BY CircleMembers DEF IInv
<1>4. t \in Sessions /\ u \in Sessions /\ u # t
  BY <1>1 DEF Circles, WaitsFor
<1>5. At(u) \in {"document", "previous", "own"}
  BY CircleOverVersions
<1>6. h.row[1] = "version" /\ At(u) \in {"previous", "own"}
  BY <1>2, <1>3, <1>4, <1>5, Wanted DEF HeldOK, Calls
<1>7. h.row[2] = Own(t)
  BY <1>2, <1>3, <1>6 DEF HeldOK
<1>8. version[Own(t)] # "FAILED"
  <2>1. CASE At(u) = "previous"
    <3>1. tx[u].kind = "Finalize" /\ tx[u].pos = 4
      BY <2>1, CircleMembers
    <3>2. h.row[2] = tx[u].previous /\ h.row[2] # 0
      BY <1>2, <1>4, <2>1, Wanted
    <3>3. tx[u].previous = active
      BY <1>4, <3>1, FinalizeKnows
    <3>4. active \in Versions
      BY <3>2, <3>3 DEF IInv, TypeOK, Versions, ConstantsAssumption
    <3> QED BY <1>7, <3>2, <3>3, <3>4 DEF IInv, RowsInv, Pointer
  <2>2. CASE At(u) = "own"
    <3>1. tx[u].kind \in Calls /\ tx[u].pos >= 2
      BY <2>2, CircleMembers DEF Calls
    <3>2. h.row[2] = Own(u)
      BY <1>2, <1>4, <2>2, Wanted
    <3> QED BY <1>4, <1>7, <3>1, <3>2, OwnIsProcessed
  <2> QED BY <1>6, <2>1, <2>2
<1> QED BY <1>8 DEF RetriableRow, Own

\* Workers among themselves do not wait in a circle.
LEMMA CircleHasRetry ==
  ASSUME IInv, NEW S \in Circles
  PROVE  \E t \in S : tx[t].kind = "Retry"
<1> SUFFICES ASSUME \A t \in S : tx[t].kind # "Retry" PROVE FALSE
  OBVIOUS
<1>0. S \subseteq Sessions /\ S # {}
  BY DEF Circles
<1>1. ASSUME NEW t \in S
      PROVE  \E u \in S, h \in held : u # t /\ h.session = u /\ HeldOK(h) /\ h.row \in Rows(t)
                                      /\ h.mode \in Conflicts(Mode(t))
  BY InCircle DEF IInv, WaitsFor
\* Who waits for a version in the nokey mode waits for none of the others.
<1>2. ASSUME NEW t \in S, tx[t].kind = "Finalize" PROVE FALSE
  <2>1. PICK u \in S, h \in held : u # t /\ h.session = u /\ HeldOK(h) /\ h.row \in Rows(t)
    BY <1>1
  <2>2. /\ At(t) \in {"previous", "own"} /\ tx[t].pos \in {4, 5}
        /\ h.row[1] = "version"
    BY <1>0, <1>2, <2>1, CircleMembers, Wanted
  <2>3. \/ tx[u].kind = "Finalize" /\ tx[u].pos = 5
        \/ tx[u].kind = "Fail" /\ tx[u].pos = 3 /\ h.row[2] = Own(u)
    BY <2>1, <2>2, CircleMembers DEF HeldOK
  <2>4. CASE tx[u].kind = "Finalize"
    <3>1. Has(t, <<"document", 0>>) /\ Has(u, <<"document", 0>>)
      BY <1>0, <1>2, <2>2, <2>3, <2>4, FinalizeKnows
    <3> QED BY <2>1, <3>1 DEF IInv, Exclusive, Has, Conflicts
  <2>5. CASE tx[u].kind = "Fail"
    <3>1. /\ version[Own(u)] = "PROCESSING" /\ tx[u].run \in Runs /\ IsLive(tx[u].run)
          /\ run[tx[u].run].owner = u /\ Own(u) \in Versions
      BY <1>0, <2>3, <2>5, OwnIsProcessed DEF Calls
    <3>2. /\ tx[t].run \in Runs /\ IsLive(tx[t].run) /\ run[tx[t].run].owner = t
      BY <1>0, <1>2, <2>2, OwnIsProcessed DEF Calls
    <3>3. CASE At(t) = "previous"
      <4>1. h.row[2] = tx[t].previous /\ tx[t].previous = active
        BY <1>0, <1>2, <2>1, <2>2, <3>3, Wanted, FinalizeKnows
      <4> QED BY <2>3, <2>5, <3>1, <4>1 DEF IInv, RowsInv, Pointer
    <3>4. CASE At(t) = "own"
      <4>1. h.row[2] = Own(t)
        BY <1>0, <2>1, <3>4, Wanted
      <4>2. tx[t].run = tx[u].run
        BY <2>3, <2>5, <3>1, <3>2, <4>1 DEF IInv, RowsInv, OneLive, Own
      <4> QED BY <2>1, <3>1, <3>2, <4>2
    <3> QED BY <2>2, <3>3, <3>4
  <2> QED BY <2>3, <2>4, <2>5
<1>3. ASSUME NEW t \in S, tx[t].kind = "Requeue" PROVE FALSE
  <2>1. PICK u \in S, h \in held : u # t /\ h.session = u /\ HeldOK(h) /\ h.row \in Rows(t)
                                   /\ h.mode \in Conflicts(Mode(t))
    BY <1>1
  <2>2. At(t) = "own" /\ h.row[1] = "version"
    BY <1>0, <1>3, <2>1, CircleMembers, Wanted
  <2>3. Mode(t) = "keyshare"
    BY <1>3, <2>2 DEF Mode
  <2>4. h.mode = "update"
    BY <2>1, <2>3 DEF Conflicts
  <2> QED BY <1>2, <2>1, <2>2, <2>4, CircleMembers DEF HeldOK
<1>4. ASSUME NEW t \in S, tx[t].kind = "Fail" PROVE FALSE
  <2>1. PICK u \in S, h \in held : u # t /\ h.session = u /\ HeldOK(h) /\ h.row \in Rows(t)
    BY <1>1
  <2>2. At(t) = "document" /\ h.row[1] = "document"
    BY <1>0, <1>4, <2>1, CircleMembers, Wanted
  <2> QED BY <1>2, <1>3, <2>1, <2>2, CircleMembers DEF HeldOK
<1> QED BY <1>0, <1>2, <1>3, <1>4, CircleMembers

LEMMA Circular == IInv => CirclesAreStaleRetries
<1> SUFFICES ASSUME IInv, NEW S \in Circles
             PROVE  /\ \E t \in S : tx[t].kind = "Retry" /\ ~RetriableRow(tx[t].run)
                    /\ \A t \in S : tx[t].kind # "Claim"
  BY DEF CirclesAreStaleRetries
<1> QED BY CircleHasRetry, CircleRetryIsStale, CircleMembers

-----------------------------------------------------------------------------
(* What a step leaves to the sessions that do not take it.                 *)

\* A step keeps what u knows: its transaction, its locks, the rows it has
\* locked.  A lease may end, and runs u has no lock on may go on, but not into
\* u's hands.
SessionKept(u) ==
  /\ tx'[u] = tx[u]
  /\ \A h \in held \cup held' : h.session = u => (h \in held <=> h \in held')

RowsKept(u) ==
  /\ u \in Workers => worker'[u] = worker[u]
  /\ Has(u, <<"document", 0>>) => active' = active
  /\ \A r \in Runs :
       \/ run'[r] = run[r]
       \/ run[r].lease = "live" /\ run'[r] = [run[r] EXCEPT !.lease = "expired"]
       \/ run[r].status = "ABSENT" /\ run'[r].status = "QUEUED"
       \/ /\ ~Has(u, <<"run", r>>)
          /\ run[r].status # "ABSENT" => run'[r].status # "ABSENT" /\ run'[r].version = run[r].version
          /\ run'[r].status = "RUNNING" /\ run'[r].lease # "none" => run'[r].owner # u

Undisturbed(u) == SessionKept(u) /\ RowsKept(u)

LEMMA Steady ==
  ASSUME IInv, NEW u \in Sessions, Undisturbed(u)
  PROVE  TxOK(u)' /\ \A h \in held' : h.session = u => HeldOK(h)'
<1> DEFINE x == tx[u]
           r == tx[u].run
<1>1. TxOK(u) /\ run \in [Runs -> RunRows]
  BY Typed DEF IInv
<1>2. tx'[u] = x
  BY DEF Undisturbed, SessionKept, RowsKept
<1>3. \A row : Has(u, row)' <=> Has(u, row)
  BY DEF Undisturbed, SessionKept, RowsKept, Has
<1>4. u \in Workers => worker'[u] = worker[u]
  BY DEF Undisturbed, SessionKept, RowsKept
<1>5. ASSUME r \in Runs
      PROVE  \/ run'[r] = run[r]
             \/ run[r].lease = "live" /\ run'[r] = [run[r] EXCEPT !.lease = "expired"]
             \/ run[r].status = "ABSENT" /\ run'[r].status = "QUEUED"
             \/ /\ ~Has(u, <<"run", r>>)
                /\ run[r].status # "ABSENT" => run'[r].status # "ABSENT" /\ run'[r].version = run[r].version
                /\ run'[r].status = "RUNNING" /\ run'[r].lease # "none" => run'[r].owner # u
  BY <1>5 DEF Undisturbed, SessionKept, RowsKept
<1>6. ASSUME r \in Runs, run[r].lease = "live", run'[r] = [run[r] EXCEPT !.lease = "expired"]
      PROVE  /\ run'[r].status = run[r].status /\ run'[r].version = run[r].version
             /\ run'[r].owner = run[r].owner /\ run'[r].attempts = run[r].attempts
             /\ run'[r].lease = "expired"
  BY <1>1, <1>6 DEF RunRows
<1>7. ASSUME r \in Runs, run[r].status # "ABSENT"
      PROVE  run'[r].status # "ABSENT" /\ run'[r].version = run[r].version
  BY <1>5, <1>6, <1>7
<1>8. ASSUME r \in Runs, Claimed(u), Has(u, <<"run", r>>) PROVE Claimed(u)'
  BY <1>2, <1>5, <1>6, <1>8 DEF Claimed
<1>9. ASSUME r \in Runs, Claimed(u)' PROVE Claimed(u) /\ run'[r].attempts = run[r].attempts
  BY <1>2, <1>5, <1>6, <1>9 DEF Claimed
<1>10. ASSUME r \in Runs, Leasable(run[r]), Has(u, <<"run", r>>) PROVE Leasable(run'[r])
  BY <1>5, <1>6, <1>10 DEF Leasable
<1>11. TxOK(u)'
  <2> HIDE DEF x
  <2>1. x.kind \in Calls => r \in Runs /\ worker'[u].run \in Runs
    BY <1>1, <1>4 DEF TxOK, x
  <2>2. x.kind \in Calls /\ x.pos >= 2 => Claimed(u)' /\ Has(u, <<"run", r>>)'
    BY <1>1, <1>2, <1>3, <1>8 DEF TxOK, x
  <2>3. x.kind = "Requeue" /\ Claimed(u)' => run'[r].attempts < MaxAttempts
    BY <1>1, <1>9 DEF TxOK, Calls, x
  <2>4. x.kind = "Retry" => r \in Runs /\ run'[r].status # "ABSENT"
    BY <1>1, <1>7 DEF TxOK, x
  <2>5. x.kind = "Claim" /\ x.pos >= 4 =>
          r \in Runs /\ Has(u, <<"run", r>>)' /\ Leasable(run'[r])
    BY <1>1, <1>2, <1>3, <1>10 DEF TxOK, x
  <2>6. x.kind = "Finalize" /\ x.pos >= 4 =>
          Has(u, <<"document", 0>>)' /\ x.previous = active'
    BY <1>1, <1>3 DEF TxOK, Undisturbed, RowsKept, x
  <2>7. /\ x.kind # "none" => x.pos >= 1
        /\ x.kind \in Calls \cup {"Claim"} => u \in Workers
        /\ x.kind = "Retry" => u \in Operators
    BY <1>1 DEF TxOK, x
  <2>8. r = x.run
    BY DEF x
  <2> QED BY <1>2, <2>1, <2>2, <2>3, <2>4, <2>5, <2>6, <2>7, <2>8 DEF TxOK
<1>12. ASSUME NEW h \in held', h.session = u
       PROVE  HeldOK(h)'
  <2>1. HeldOK(h)
    BY <1>12 DEF IInv, Undisturbed, SessionKept
  <2>2. x.kind \in {"Fail", "Retry"} /\ x.pos > 2 => Own(u)' = Own(u)
    <3>1. x.pos \in 0 .. 6
      BY Typed DEF IInv, TxRows
    <3>2. x.kind \in {"Fail", "Retry"} /\ x.pos > 2 => r \in Runs /\ run[r].status # "ABSENT"
      BY <1>1, <3>1 DEF TxOK, Calls, Claimed
    <3> QED BY <1>2, <1>7, <3>2 DEF Own
  <2>3. x.pos \in 0 .. 6
    BY Typed DEF IInv, TxRows
  <2> QED BY <1>2, <1>12, <2>1, <2>2, <2>3 DEF HeldOK
<1> QED BY <1>11, <1>12

\* What a session locks is not locked against it.
LEMMA LocksExclude ==
  ASSUME IInv, NEW t \in Sessions, NEW new,
         \A h \in new : h.session = t /\ h.mode \in Modes /\ ~LockedAgainst(t, h.row, h.mode),
         held' = held \cup new
  PROVE  Exclusive'
<1>1. \A g, h \in held : g.session # h.session /\ g.row = h.row => g.mode \notin Conflicts(h.mode)
  BY DEF IInv, Exclusive
<1>2. ASSUME NEW g \in held, NEW h \in new, g.session # h.session, g.row = h.row
      PROVE  g.mode \notin Conflicts(h.mode)
  BY <1>2 DEF LockedAgainst
<1>3. ASSUME NEW g \in held, g.mode \in Modes, NEW h \in new, g.mode \notin Conflicts(h.mode)
      PROVE  h.mode \notin Conflicts(g.mode)
  BY <1>3 DEF Conflicts, Modes
<1>4. \A g \in held : g.mode \in Modes
  BY DEF IInv, TypeOK
<1> QED BY <1>1, <1>2, <1>3, <1>4 DEF Exclusive

\* Who holds a row in the update mode holds it alone.
LEMMA HasAlone ==
  ASSUME IInv, NEW t, NEW u, NEW row, t # u, Has(t, row)
  PROVE  ~Has(u, row)
  BY DEF IInv, Exclusive, Has, Conflicts

\* A step after which the sessions but t are as before, and t knows what it
\* must, keeps the invariant.
LEMMA StepKeeps ==
  ASSUME IInv, NEW t \in Sessions, \A u \in Sessions \ {t} : Undisturbed(u),
         TypeOK', RowsInv', WorkersInv', Exclusive', TxOK(t)',
         \A h \in held' : h.session = t => HeldOK(h)'
  PROVE  IInv'
<1>1. \A u \in Sessions : TxOK(u)'
  BY Steady
<1>2. \A h \in held' : h.session \in Sessions
  BY DEF TypeOK
<1>3. \A h \in held' : HeldOK(h)'
  BY <1>2, Steady
<1> QED BY <1>1, <1>3 DEF IInv, Sessions

\* A transaction ends.
LEMMA EndKeeps ==
  ASSUME IInv, NEW t \in Sessions, Ended(t), \A u \in Sessions \ {t} : RowsKept(u),
         TypeOK', RowsInv', WorkersInv'
  PROVE  IInv'
<1>1. tx \in [Sessions -> TxRows]
  BY Typed DEF IInv
<1>2. tx'[t].kind = "none" /\ \A u \in Sessions \ {t} : tx'[u] = tx[u]
  BY <1>1 DEF Ended, NoTx
<1>3. held' = {h \in held : h.session # t}
  BY DEF Ended
<1>4. \A u \in Sessions \ {t} : Undisturbed(u)
  BY <1>2, <1>3 DEF Undisturbed, SessionKept
<1>5. Exclusive'
  BY <1>3 DEF IInv, Exclusive
<1>6. TxOK(t)'
  BY <1>2 DEF TxOK, Calls
<1>7. \A h \in held' : h.session = t => HeldOK(h)'
  BY <1>3
<1> QED BY <1>4, <1>5, <1>6, <1>7, StepKeeps

LockRecords == [session : Sessions, row : LockRows, mode : Modes]

\* A statement is done: the transaction goes on, with more locks perhaps.
LEMMA AdvanceKeeps ==
  ASSUME IInv, NEW t \in Sessions, NEW x \in TxRows, NEW new \in SUBSET LockRecords,
         tx' = [tx EXCEPT ![t] = x], x.kind = tx[t].kind, x.pos = tx[t].pos + 1,
         x.run = tx[t].run \/ x.kind = "Claim",
         held' = held \cup new,
         \A h \in new : h.session = t /\ ~LockedAgainst(t, h.row, h.mode) /\ HeldOK(h)',
         UNCHANGED <<active, version, run, worker, faults>>, TxOK(t)'
  PROVE  IInv'
<1>1. tx \in [Sessions -> TxRows] /\ tx[t].pos \in 0 .. 6
  BY Typed DEF IInv, TxRows
<1>2. tx'[t] = x /\ \A u \in Sessions \ {t} : tx'[u] = tx[u]
  BY <1>1
<1>3. \A u \in Sessions \ {t} : Undisturbed(u)
  BY <1>2 DEF Undisturbed, SessionKept, RowsKept
<1>4. TypeOK'
  BY <1>1 DEF IInv, TypeOK, TxRows, LockRecords
<1>5. RowsInv' /\ WorkersInv'
  BY DEF IInv, RowsInv, RowOK, Pointer, OneLive, Pending, InProgress, IsLive, WorkersInv
<1>6. Exclusive'
  BY LocksExclude DEF LockRecords
<1>7. ASSUME NEW h \in held, h.session = t
      PROVE  HeldOK(h)'
  <2>1. HeldOK(h)
    BY DEF IInv
  <2>2. x.kind \in {"Fail", "Retry"} => Own(t)' = Own(t)
    BY <1>2 DEF Own
  <2> QED BY <1>1, <1>2, <1>7, <2>1, <2>2 DEF HeldOK
<1> QED BY <1>3, <1>4, <1>5, <1>6, <1>7, StepKeeps

-----------------------------------------------------------------------------
(* Statements.                                                             *)

LEMMA BeginKeeps ==
  ASSUME IInv, NEW t \in Sessions, NEW kind, NEW r \in Runs \cup {None}, Begin(t, kind, r),
         \/ kind \in Calls /\ t \in Workers /\ r \in Runs /\ worker[t].run \in Runs
         \/ kind = "Claim" /\ t \in Workers
         \/ kind = "Retry" /\ t \in Operators /\ r \in Runs /\ run[r].status # "ABSENT",
         kind = "Requeue" => run[r].attempts < MaxAttempts
  PROVE  IInv'
<1> DEFINE x == [NoTx EXCEPT !.kind = kind, !.pos = 1, !.run = r]
<1>1. tx \in [Sessions -> TxRows]
  BY Typed DEF IInv
<1>2. x \in TxRows /\ x.kind = kind /\ x.pos = 1 /\ x.run = r
  <2>1. kind \in {"Claim", "Store", "Finalize", "Fail", "Requeue", "Retry"}
    BY DEF Calls
  <2>2. 0 \in 0 .. MaxVersion /\ 1 \in 0 .. 6
    BY DEF IInv, ConstantsAssumption
  <2> QED BY <2>1, <2>2 DEF TxRows, NoTx
<1>3. tx' = [tx EXCEPT ![t] = x] /\ tx[t].kind = "none"
      /\ UNCHANGED <<active, version, run, held, worker, faults>>
  BY DEF Begin
<1> HIDE DEF x
<1>4. tx'[t] = x /\ \A u \in Sessions \ {t} : tx'[u] = tx[u]
  BY <1>1, <1>3
<1>5. \A u \in Sessions \ {t} : Undisturbed(u)
  BY <1>3, <1>4 DEF Undisturbed, SessionKept, RowsKept
<1>6. TypeOK'
  BY <1>1, <1>2, <1>3 DEF IInv, TypeOK, TxRows
<1>7. RowsInv' /\ WorkersInv' /\ Exclusive'
  BY <1>3 DEF IInv, RowsInv, RowOK, Pointer, OneLive, Pending, InProgress, IsLive, WorkersInv, Exclusive
<1>8. \A h \in held : h.session # t
  <2> SUFFICES ASSUME NEW h \in held, h.session = t PROVE FALSE
    OBVIOUS
  <2>1. HeldOK(h)
    BY DEF IInv
  <2>2. h.row[1] \in {"queue", "run", "document", "version"}
    BY DEF IInv, TypeOK, LockRows
  <2> QED BY <1>3, <2>1, <2>2 DEF HeldOK, Calls
<1>9. TxOK(t)'
  BY <1>2, <1>3, <1>4 DEF TxOK, Calls
<1> QED BY <1>3, <1>5, <1>6, <1>7, <1>8, <1>9, StepKeeps

LEMMA CallKeeps ==
  ASSUME IInv, NEW w \in Workers, Call(w)
  PROVE  IInv'
<1>1. /\ worker[w] \in [run : Runs \cup {None}, next : {"Claim", "Store", "Finalize", "Fail"}]
      /\ worker[w].next # "Claim" => worker[w].run \in Runs
      /\ w \in Sessions
  BY Typed DEF IInv, WorkersInv, Sessions
<1>2. PICK kind \in Calls \cup {"Claim"} :
        /\ Begin(w, kind, worker[w].run)
        /\ kind \in Calls => worker[w].run \in Runs
        /\ kind = "Requeue" => run[worker[w].run].attempts < MaxAttempts
  BY <1>1 DEF Call, Calls
<1> QED BY <1>1, <1>2, BeginKeeps

LEMMA RetryCallKeeps ==
  ASSUME IInv, NEW t \in Operators, RetryCall(t)
  PROVE  IInv'
  BY BeginKeeps DEF RetryCall, Sessions, Calls

LEMMA CallFailsKeeps ==
  ASSUME IInv, NEW w \in Workers, CallFails(w)
  PROVE  IInv'
<1>1. /\ worker \in [Workers -> [run : Runs \cup {None}, next : {"Claim", "Store", "Finalize", "Fail"}]]
      /\ w \in Sessions /\ tx[w].kind = "none"
      /\ worker' = [worker EXCEPT ![w].next = "Fail"] /\ worker[w].next # "Claim"
      /\ UNCHANGED <<active, version, run, tx, held, faults>>
  BY Typed DEF IInv, CallFails, Sessions
<1>2. \A u \in Sessions \ {w} : Undisturbed(u)
  BY <1>1 DEF Undisturbed, SessionKept, RowsKept
<1>3. TypeOK'
  BY <1>1 DEF IInv, TypeOK
<1>4. WorkersInv'
  BY <1>1 DEF IInv, WorkersInv
<1>5. RowsInv' /\ Exclusive'
  BY <1>1 DEF IInv, RowsInv, RowOK, Pointer, OneLive, Pending, InProgress, IsLive, Exclusive
<1>6. TxOK(w)'
  BY <1>1 DEF TxOK, Calls
<1>7. \A h \in held' : HeldOK(h)'
  BY <1>1 DEF IInv, HeldOK, Own
<1> QED BY <1>1, <1>2, <1>3, <1>4, <1>5, <1>6, <1>7, StepKeeps

LEMMA ReadKeeps ==
  ASSUME IInv, NEW t \in Sessions, Read(t)
  PROVE  IInv'
<1> DEFINE y == [tx[t] EXCEPT !.seen = active, !.number = active, !.previous = active]
           x == [y EXCEPT !.pos = @ + 1]
<1>1. /\ tx[t] \in TxRows /\ active \in 0 .. MaxVersion /\ tx \in [Sessions -> TxRows]
  BY Typed DEF IInv, TypeOK
<1>2. At(t) = "read" /\ tx' = [tx EXCEPT ![t] = x]
      /\ UNCHANGED <<active, version, run, held, worker, faults>>
  BY DEF Read, Advance
<1>3. Position(t) /\ TxOK(t)
  BY Positions DEF IInv
<1>4. tx[t].kind \in {"Finalize", "Retry"} /\ tx[t].pos = 2
  BY <1>2, <1>3 DEF Position
<1>5. x \in TxRows /\ x.kind = tx[t].kind /\ x.run = tx[t].run /\ x.pos = 3
  <2>1. y \in TxRows /\ y.kind = tx[t].kind /\ y.run = tx[t].run /\ y.pos = 2
    BY <1>1, <1>4 DEF TxRows
  <2> HIDE DEF y
  <2> QED BY <2>1 DEF TxRows
<1> HIDE DEF x
<1>6. tx'[t] = x
  BY <1>1, <1>2
<1>7. TxOK(t)'
  BY <1>2, <1>3, <1>4, <1>5, <1>6 DEF TxOK, Claimed, Has, Calls
<1>8. PICK new \in SUBSET LockRecords : new = {}
  OBVIOUS
<1>9. held' = held \cup new /\ \A h \in new : FALSE
  BY <1>2, <1>8
<1>10. tx' = [tx EXCEPT ![t] = x] /\ UNCHANGED <<active, version, run, worker, faults>>
  BY <1>2
<1>11. x.kind = tx[t].kind /\ x.pos = tx[t].pos + 1 /\ x.run = tx[t].run
  BY <1>4, <1>5
<1> QED BY <1>5, <1>7, <1>9, <1>10, <1>11, AdvanceKeeps

\* The locks a statement asks for.
LEMMA Asked ==
  ASSUME IInv, NEW t \in Sessions,
         At(t) \in {"queue", "expired", "run", "document", "previous", "own"}, ~Waits(t), Granted(t)
  PROVE  \E new \in SUBSET LockRecords :
           /\ held' = held \cup new
           /\ \A h \in new : /\ h.session = t /\ ~LockedAgainst(t, h.row, h.mode)
                              /\ h.row \in Rows(t) /\ h.mode = Mode(t)
           /\ \A row \in Rows(t) : [session |-> t, row |-> row, mode |-> Mode(t)] \in new
<1> DEFINE new == {[session |-> t, row |-> row, mode |-> Mode(t)] : row \in Rows(t)}
<1>1. Position(t) /\ TxOK(t)
  BY Positions DEF IInv
<1>2. Mode(t) \in Modes
  BY <1>1 DEF Mode, Modes, Position
<1>3. Rows(t) \subseteq LockRows
  <2>1. CASE At(t) = "queue"
    BY <2>1 DEF Rows, LockRows
  <2>2. CASE At(t) = "expired"
    BY <2>2 DEF Rows, LockRows, Expired
  <2>3. CASE At(t) = "run"
    <3>1. tx[t].run \in Runs
      BY <1>1, <2>3 DEF Position, TxOK, Calls
    <3> QED BY <2>3, <3>1 DEF Rows, LockRows
  <2>4. CASE At(t) = "document"
    BY <2>4 DEF Rows, LockRows
  <2>5. CASE At(t) = "previous"
    <3>1. tx[t].previous \in 0 .. MaxVersion
      BY Typed DEF IInv, TxRows
    <3>2. {tx[t].previous} \ {0, Own(t)} \subseteq Versions
      BY <3>1 DEF Versions, IInv, ConstantsAssumption
    <3> QED BY <2>5, <3>2 DEF Rows, LockRows
  <2>6. CASE At(t) = "own"
    <3>1. tx[t].run \in Runs /\ run[tx[t].run].status # "ABSENT"
      BY <1>1, <2>6 DEF Position, TxOK, Calls, Claimed, Leasable
    <3>2. Own(t) \in Versions
      BY <3>1 DEF IInv, RowsInv, RowOK, Own
    <3> QED BY <2>6, <3>2 DEF Rows, LockRows
  <2> QED BY <2>1, <2>2, <2>3, <2>4, <2>5, <2>6
<1>4. new \in SUBSET LockRecords
  BY <1>2, <1>3 DEF LockRecords
<1>5. \A h \in new : /\ h.session = t /\ ~LockedAgainst(t, h.row, h.mode)
                     /\ h.row \in Rows(t) /\ h.mode = Mode(t)
  BY DEF Waits
<1>6. held' = held \cup new
  BY DEF Granted
<1>7. \A row \in Rows(t) : [session |-> t, row |-> row, mode |-> Mode(t)] \in new
  OBVIOUS
<1> QED BY <1>4, <1>5, <1>6, <1>7

\* The statement that locks an own or previous version, the queue, the expired
\* runs, or a retry's run.
LEMMA LockKeeps ==
  ASSUME IInv, NEW t \in Sessions, Lock(t)
  PROVE  IInv'
<1> DEFINE x == [tx[t] EXCEPT !.pos = @ + 1]
<1>1. /\ tx[t] \in TxRows /\ tx \in [Sessions -> TxRows]
  BY Typed DEF IInv
<1>2. /\ At(t) \in {"queue", "expired", "previous", "own", "run"}
      /\ At(t) = "run" => tx[t].kind = "Retry"
      /\ tx' = [tx EXCEPT ![t] = x]
      /\ UNCHANGED <<active, version, run, worker, faults>>
  BY DEF Lock, Advance
<1>3. Position(t) /\ TxOK(t)
  BY Positions DEF IInv
<1>4. PICK new \in SUBSET LockRecords :
        /\ held' = held \cup new
        /\ \A h \in new : /\ h.session = t /\ ~LockedAgainst(t, h.row, h.mode)
                           /\ h.row \in Rows(t) /\ h.mode = Mode(t)
  BY <1>2, Asked DEF Lock
<1>5. x \in TxRows /\ x.kind = tx[t].kind /\ x.run = tx[t].run /\ x.pos = tx[t].pos + 1
      /\ x.previous = tx[t].previous
  BY <1>1, <1>2, <1>3 DEF TxRows, Position
<1> HIDE DEF x
<1>6. tx'[t] = x /\ tx[t].pos \in 0 .. 6
  BY <1>1, <1>2 DEF TxRows
<1>7. TxOK(t)'
  <2>1. tx[t].kind = "Claim" => tx[t].pos # 3
    BY <1>2, <1>3 DEF Position
  <2>2. tx[t].kind \in Calls => tx[t].pos # 1
    BY <1>2, <1>3 DEF Position, Calls
  <2>3. tx[t].kind = "Finalize" => tx[t].pos # 3
    BY <1>2, <1>3 DEF Position
  <2>4. \A row : Has(t, row) => Has(t, row)'
    BY <1>4 DEF Has
  <2> QED BY <1>2, <1>3, <1>5, <1>6, <2>1, <2>2, <2>3, <2>4 DEF TxOK, Claimed, Calls
<1>8. ASSUME NEW h \in new
      PROVE  HeldOK(h)'
  <2>1. Own(t)' = Own(t)
    BY <1>2, <1>5, <1>6 DEF Own
  <2>2. h.session = t /\ h.row \in Rows(t) /\ h.mode = Mode(t)
    BY <1>4
  <2>3. \/ At(t) = "queue" /\ h.row[1] = "queue"
        \/ At(t) \in {"expired", "run"} /\ h.row[1] = "run"
        \/ At(t) = "previous" /\ h.row[1] = "version"
        \/ At(t) = "own" /\ h.row[1] = "version" /\ h.row[2] = Own(t)
    BY <1>2, <2>2, Wanted
  <2>4. /\ At(t) = "own" /\ tx[t].kind = "Fail" => Mode(t) = "nokey"
        /\ At(t) \in {"expired", "run"} => Mode(t) = "update"
    BY DEF Mode
  <2> QED BY <1>2, <1>3, <1>5, <1>6, <2>1, <2>2, <2>3, <2>4 DEF HeldOK, Position, Calls
<1> QED BY <1>2, <1>4, <1>5, <1>7, <1>8, AdvanceKeeps

LEMMA EndedTyped ==
  ASSUME IInv, NEW t \in Sessions, Ended(t)
  PROVE  /\ tx' \in [Sessions -> TxRows]
         /\ held' \subseteq LockRecords
<1>1. NoTx \in TxRows
  BY DEF NoTx, TxRows, IInv, ConstantsAssumption
<1> QED BY <1>1, Typed DEF Ended, IInv, TypeOK, LockRecords

LEMMA RowsAsTheyWere ==
  ASSUME IInv, UNCHANGED <<active, version, run>>
  PROVE  RowsInv' /\ \A u \in Sessions : (u \in Workers => worker'[u] = worker[u]) => RowsKept(u)
  BY DEF IInv, RowsInv, RowOK, Pointer, OneLive, Pending, InProgress, IsLive, RowsKept

\* A transaction ends without having written.
LEMMA RollbackKeeps ==
  ASSUME IInv, NEW t \in Sessions, Ended(t), UNCHANGED <<active, version, run>>,
         faults' \in 0 .. MaxFaults,
         worker' \in [Workers -> [run : Runs \cup {None}, next : {"Claim", "Store", "Finalize", "Fail"}]],
         \A w \in Workers \ {t} : worker'[w] = worker[w],
         t \in Workers /\ worker'[t].next # "Claim" => worker'[t].run \in Runs
  PROVE  IInv'
<1>1. tx' \in [Sessions -> TxRows] /\ held' \subseteq LockRecords
  BY EndedTyped
<1>2. TypeOK'
  BY <1>1 DEF IInv, TypeOK, TxRows, LockRecords
<1>3. WorkersInv'
  BY DEF IInv, WorkersInv
<1>4. RowsInv' /\ \A u \in Sessions \ {t} : RowsKept(u)
  BY RowsAsTheyWere
<1> QED BY <1>2, <1>3, <1>4, EndKeeps

LEMMA LockRunKeeps ==
  ASSUME IInv, NEW t \in Sessions, LockRun(t)
  PROVE  IInv'
<1>1. /\ tx[t] \in TxRows /\ tx \in [Sessions -> TxRows]
      /\ At(t) = "run" /\ tx[t].kind # "Retry" /\ UNCHANGED <<active, version, run, faults>>
  BY Typed DEF IInv, LockRun
<1>2. Position(t) /\ TxOK(t)
  BY Positions DEF IInv
<1>3. tx[t].kind \in Calls /\ tx[t].pos = 1 /\ tx[t].run \in Runs /\ t \in Workers
  BY <1>1, <1>2 DEF Position, TxOK, Calls
<1>4. CASE Writable(t, tx[t].run)
  <2> DEFINE x == [tx[t] EXCEPT !.pos = @ + 1]
  <2>1. tx' = [tx EXCEPT ![t] = x] /\ worker' = worker
    BY <1>4 DEF LockRun, Advance
  <2>2. PICK new \in SUBSET LockRecords :
          /\ held' = held \cup new
          /\ \A h \in new : /\ h.session = t /\ ~LockedAgainst(t, h.row, h.mode)
                             /\ h.row \in Rows(t) /\ h.mode = Mode(t)
          /\ \A row \in Rows(t) : [session |-> t, row |-> row, mode |-> Mode(t)] \in new
    BY <1>1, <1>4, Asked DEF LockRun
  <2>3. x \in TxRows /\ x.kind = tx[t].kind /\ x.run = tx[t].run /\ x.pos = 2
    BY <1>1, <1>3 DEF TxRows
  <2> HIDE DEF x
  <2>4. tx'[t] = x
    BY <1>1, <2>1
  <2>5. [session |-> t, row |-> <<"run", x.run>>, mode |-> "update"] \in held'
    <3>1. Mode(t) = "update" /\ <<"run", x.run>> \in Rows(t)
      BY <1>1, <2>3 DEF Mode, Rows
    <3> QED BY <2>2, <3>1
  <2>6. Claimed(t)'
    BY <1>1, <1>4, <2>3, <2>4 DEF Claimed, Writable
  <2>7. TxOK(t)'
    <3>1. Claimed(t)' <=> Claimed(t)
      BY <1>1, <2>3, <2>4 DEF Claimed
    <3>2. Has(t, <<"run", tx[t].run>>)'
      BY <2>3, <2>4, <2>5 DEF Has
    <3> QED BY <1>1, <1>2, <1>3, <2>1, <2>3, <2>4, <2>6, <3>1, <3>2 DEF TxOK, Calls
  <2>8. ASSUME NEW h \in new PROVE HeldOK(h)'
    <3>1. h.session = t /\ h.row[1] = "run" /\ h.mode = "update"
      BY <1>1, <2>2, Wanted DEF Mode
    <3> QED BY <1>3, <2>3, <2>4, <3>1 DEF HeldOK
  <2>9. x.kind = tx[t].kind /\ x.run = tx[t].run /\ x.pos = tx[t].pos + 1 /\ x \in TxRows
    BY <1>3, <2>3
  <2> QED BY <1>1, <2>1, <2>2, <2>7, <2>8, <2>9, AdvanceKeeps
<1>5. CASE ~Writable(t, tx[t].run)
  <2>1. Ended(t) /\ worker' = [worker EXCEPT ![t] = Idle]
    BY <1>5 DEF LockRun
  <2>2. /\ worker' \in [Workers -> [run : Runs \cup {None}, next : {"Claim", "Store", "Finalize", "Fail"}]]
        /\ \A w \in Workers \ {t} : worker'[w] = worker[w]
        /\ t \in Workers => worker'[t].next = "Claim"
    BY <2>1, Typed DEF IInv, Idle
  <2>3. faults' \in 0 .. MaxFaults
    BY <1>1 DEF IInv, TypeOK
  <2> QED BY <1>1, <2>1, <2>2, <2>3, RollbackKeeps
<1> QED BY <1>4, <1>5

LEMMA LockDocumentKeeps ==
  ASSUME IInv, NEW t \in Sessions, LockDocument(t)
  PROVE  IInv'
<1> DEFINE y == [tx[t] EXCEPT !.number = NumberRead(t), !.previous = active]
           x == [y EXCEPT !.pos = @ + 1]
<1>1. /\ tx[t] \in TxRows /\ tx \in [Sessions -> TxRows] /\ active \in 0 .. MaxVersion
      /\ NumberRead(t) \in 0 .. MaxVersion
  BY Typed DEF IInv, TypeOK, NumberRead, ConstantsAssumption
<1>2. /\ At(t) = "document" /\ tx' = [tx EXCEPT ![t] = x]
      /\ UNCHANGED <<active, version, run, worker, faults>>
  BY DEF LockDocument, Advance
<1>3. Position(t) /\ TxOK(t)
  BY Positions DEF IInv
<1>4. \/ tx[t].kind = "Finalize" /\ tx[t].pos = 3
      \/ tx[t].kind = "Fail" /\ tx[t].pos = 3
      \/ tx[t].kind = "Requeue" /\ tx[t].pos = 2
      \/ tx[t].kind = "Retry" /\ tx[t].pos = 5
  BY <1>2, <1>3 DEF Position
<1>5. PICK new \in SUBSET LockRecords :
        /\ held' = held \cup new
        /\ \A h \in new : /\ h.session = t /\ ~LockedAgainst(t, h.row, h.mode)
                           /\ h.row \in Rows(t) /\ h.mode = Mode(t)
        /\ \A row \in Rows(t) : [session |-> t, row |-> row, mode |-> Mode(t)] \in new
  BY <1>2, Asked DEF LockDocument
<1>6. x \in TxRows /\ x.kind = tx[t].kind /\ x.run = tx[t].run /\ x.pos = tx[t].pos + 1
      /\ x.previous = active
  <2>1. y \in TxRows /\ y.kind = tx[t].kind /\ y.run = tx[t].run /\ y.pos = tx[t].pos
        /\ y.previous = active
    BY <1>1 DEF TxRows
  <2> HIDE DEF y
  <2> QED BY <1>4, <2>1 DEF TxRows
<1> HIDE DEF x
<1>7. tx'[t] = x
  BY <1>1, <1>2
<1>8. TxOK(t)'
  <2>1. \A row : Has(t, row) => Has(t, row)'
    BY <1>5 DEF Has
  <2>2. tx[t].kind = "Finalize" => Has(t, <<"document", 0>>)'
    <3> SUFFICES ASSUME tx[t].kind = "Finalize" PROVE Has(t, <<"document", 0>>)'
      OBVIOUS
    <3>1. Mode(t) = "update" /\ <<"document", 0>> \in Rows(t)
      BY <1>2 DEF Mode, Rows
    <3> QED BY <1>5, <3>1 DEF Has
  <2>3. Claimed(t)' <=> Claimed(t)
    BY <1>2, <1>6, <1>7 DEF Claimed
  <2>4. tx[t].kind \in Calls => tx[t].pos >= 2
    BY <1>4 DEF Calls
  <2>5. tx[t].kind # "Claim"
    BY <1>4
  <2> QED BY <1>2, <1>3, <1>4, <1>6, <1>7, <2>1, <2>2, <2>3, <2>4, <2>5 DEF TxOK
<1>9. ASSUME NEW h \in new PROVE HeldOK(h)'
  <2>1. h.session = t /\ h.row[1] = "document" /\ h.mode = Mode(t)
    BY <1>2, <1>5, Wanted
  <2>2. tx[t].kind \in {"Fail", "Requeue"} => Mode(t) = "keyshare"
    BY <1>2 DEF Mode
  <2> QED BY <1>4, <1>6, <1>7, <2>1, <2>2 DEF HeldOK
<1> QED BY <1>2, <1>5, <1>6, <1>8, <1>9, AdvanceKeeps

\* The rows that ClaimNext gives back: their runs stay live.
LEMMA ReclaimedRow ==
  ASSUME IInv, NEW t \in Sessions, NEW r \in Runs, NEW row, row = Reclaimed(t, run)[r]
  PROVE  /\ row \in RunRows /\ RowOK(row) /\ row.version = run[r].version
         /\ row.status \in {"QUEUED", "RUNNING"} <=> IsLive(r)
         /\ \/ row = run[r] /\ r \notin Reclaiming(t)
            \/ Has(t, <<"run", r>>) /\ row.status = "QUEUED" /\ run[r].status = "RUNNING"
<1>1. run[r] \in RunRows /\ RowOK(run[r]) /\ MaxAttempts \in Nat
  BY Typed DEF IInv, RowsInv, ConstantsAssumption
<1>2. CASE r \in Reclaiming(t)
  <2>1. row = [run[r] EXCEPT !.status = "QUEUED", !.owner = None, !.lease = "none", !.attempts = @ - 1]
    BY <1>2 DEF Reclaimed
  <2>2. run[r].status = "RUNNING" /\ run[r].lease = "expired"
    BY <1>2 DEF Reclaiming, Expired
  <2>3. run[r].attempts \in 1 .. MaxAttempts
    BY <1>1, <2>2 DEF RowOK, RunRows
  <2>4. /\ row.status = "QUEUED" /\ row.owner = None /\ row.lease = "none"
        /\ row.attempts = run[r].attempts - 1 /\ row.version = run[r].version
        /\ row.error = run[r].error
        /\ row = [status |-> row.status, version |-> row.version, owner |-> row.owner,
                  lease |-> row.lease, attempts |-> row.attempts, error |-> row.error]
    BY <1>1, <2>1 DEF RunRows
  <2>5. row \in RunRows
    BY <1>1, <2>3, <2>4 DEF RunRows
  <2>6. RowOK(row)
    BY <1>1, <2>2, <2>3, <2>4 DEF RowOK
  <2>7. Has(t, <<"run", r>>)
    <3>1. PICK h \in held : h.session = t /\ h.row = <<"run", r>>
      BY <1>2 DEF Reclaiming
    <3>2. h.mode = "update"
      BY <3>1 DEF IInv, HeldOK
    <3>3. h = [session |-> t, row |-> <<"run", r>>, mode |-> "update"]
      BY <3>1, <3>2 DEF IInv, TypeOK
    <3> QED BY <3>3 DEF Has
  <2> QED BY <2>2, <2>4, <2>5, <2>6, <2>7 DEF IsLive
<1>3. CASE r \notin Reclaiming(t)
  BY <1>1, <1>3 DEF Reclaimed, IsLive
<1> QED BY <1>2, <1>3

\* Runs that stay live, of versions that stay what they are.
LEMMA LivesKept ==
  ASSUME IInv, UNCHANGED <<active, version>>,
         \A r \in Runs : /\ RowOK(run'[r]) /\ run'[r].version = run[r].version
                         /\ run'[r].status \in {"QUEUED", "RUNNING"} <=> IsLive(r)
                         /\ run'[r].status = "RUNNING" => run[r].status = "RUNNING"
  PROVE  RowsInv'
  BY DEF IInv, RowsInv, Pointer, OneLive, Pending, InProgress, IsLive

LEMMA PickRunKeeps ==
  ASSUME IInv, NEW t \in Sessions, PickRun(t)
  PROVE  IInv'
<1>1. /\ tx[t] \in TxRows /\ tx \in [Sessions -> TxRows]
      /\ At(t) = "candidate" /\ UNCHANGED <<active, version, worker, faults>>
  BY Typed DEF IInv, PickRun
<1>2. Position(t) /\ TxOK(t)
  BY Positions DEF IInv
<1>3. tx[t].kind = "Claim" /\ tx[t].pos = 3 /\ t \in Workers
  BY <1>1, <1>2 DEF Position, TxOK
<1>4. CASE run' = Reclaimed(t, run) /\ Ended(t)
  <2>1. ASSUME NEW r \in Runs
        PROVE  /\ run'[r] \in RunRows /\ RowOK(run'[r]) /\ run'[r].version = run[r].version
               /\ run'[r].status \in {"QUEUED", "RUNNING"} <=> IsLive(r)
               /\ \/ run'[r] = run[r]
                  \/ Has(t, <<"run", r>>) /\ run'[r].status = "QUEUED" /\ run[r].status = "RUNNING"
    BY <1>4, ReclaimedRow
  <2>2. RowsInv'
    BY <1>1, <2>1, LivesKept
  <2>3. run' \in [Runs -> RunRows]
    BY <1>4, <2>1 DEF Reclaimed
  <2>4. TypeOK'
    BY <1>1, <1>4, <2>3, EndedTyped DEF IInv, TypeOK, RunRows, TxRows, LockRecords
  <2>5. ASSUME NEW u \in Sessions \ {t} PROVE RowsKept(u)
    <3>1. \A r \in Runs : Has(t, <<"run", r>>) => ~Has(u, <<"run", r>>)
      BY HasAlone
    <3> QED BY <1>1, <2>1, <3>1 DEF RowsKept
  <2>6. WorkersInv'
    BY <1>1 DEF IInv, WorkersInv
  <2> QED BY <1>4, <2>2, <2>4, <2>5, <2>6, EndKeeps
<1>5. ASSUME NEW r \in Candidates(t), run' = run,
             held' = held \cup {[session |-> t, row |-> <<"run", r>>, mode |-> "update"]},
             Advance(t, [tx[t] EXCEPT !.run = r])
      PROVE  IInv'
  <2> DEFINE y == [tx[t] EXCEPT !.run = r]
             x == [y EXCEPT !.pos = @ + 1]
             lock == [session |-> t, row |-> <<"run", r>>, mode |-> "update"]
  <2>1. r \in Runs /\ Leasable(run[r]) /\ ~LockedAgainst(t, <<"run", r>>, "update")
    BY DEF Candidates, Leasable, Reclaiming, Expired
  <2>2. x \in TxRows /\ x.kind = tx[t].kind /\ x.run = r /\ x.pos = tx[t].pos + 1
    <3>1. y \in TxRows /\ y.kind = tx[t].kind /\ y.run = r /\ y.pos = 3
      BY <1>1, <1>3, <2>1 DEF TxRows
    <3> HIDE DEF y
    <3> QED BY <1>3, <3>1 DEF TxRows
  <2>3. tx' = [tx EXCEPT ![t] = x]
    BY <1>5 DEF Advance
  <2> HIDE DEF x
  <2>4. tx'[t] = x
    BY <1>1, <2>3
  <2>5. TxOK(t)'
    BY <1>3, <1>5, <2>1, <2>2, <2>4 DEF TxOK, Calls, Has
  <2>6. HeldOK(lock)'
    <3>1. lock.session = t /\ lock.row[1] = "run" /\ lock.mode = "update"
      OBVIOUS
    <3> QED BY <1>3, <2>2, <2>4, <3>1 DEF HeldOK
  <2>7. {lock} \in SUBSET LockRecords
    BY <2>1 DEF LockRecords, LockRows, Modes
  <2>8. PICK new \in SUBSET LockRecords :
          /\ held' = held \cup new
          /\ \A h \in new : h.session = t /\ ~LockedAgainst(t, h.row, h.mode) /\ HeldOK(h)'
    <3>1. \A h \in {lock} : h.session = t /\ ~LockedAgainst(t, h.row, h.mode) /\ HeldOK(h)'
      BY <2>1, <2>6
    <3> HIDE DEF lock
    <3>2. held' = held \cup {lock}
      BY <1>5 DEF lock
    <3> QED BY <2>7, <3>1, <3>2
  <2>9. x.kind = tx[t].kind /\ x.kind = "Claim" /\ x.pos = tx[t].pos + 1
    BY <1>3, <2>2
  <2> QED BY <1>1, <1>5, <2>2, <2>3, <2>5, <2>8, <2>9, AdvanceKeeps
<1> QED BY <1>4, <1>5 DEF PickRun

-----------------------------------------------------------------------------
(* Commits.                                                                *)

\* What a worker's transaction knows when it commits.
LEMMA AtCommit ==
  ASSUME IInv, NEW t \in Sessions, At(t) = "commit", tx[t].kind \in Calls
  PROVE  /\ tx[t].run \in Runs /\ Claimed(t) /\ Has(t, <<"run", tx[t].run>>)
         /\ t \in Workers /\ worker[t].run \in Runs
         /\ tx[t].kind = "Finalize" => Has(t, <<"document", 0>>) /\ tx[t].previous = active
         /\ tx[t].kind = "Requeue" => run[tx[t].run].attempts < MaxAttempts
         /\ version[Own(t)] = "PROCESSING" /\ Own(t) \in Versions
         /\ run[tx[t].run] \in RunRows /\ RowOK(run[tx[t].run])
         /\ \A s \in Runs : IsLive(s) /\ run[s].version = Own(t) => s = tx[t].run
<1>1. Position(t) /\ TxOK(t)
  BY Positions DEF IInv
<1>2. tx[t].pos >= 2 /\ (tx[t].kind = "Finalize" => tx[t].pos >= 4)
  <2>1. tx[t].pos \in 0 .. 6
    BY Typed DEF IInv, TxRows
  <2> QED BY <1>1, <2>1 DEF Position, Calls
<1>3. /\ tx[t].run \in Runs /\ Claimed(t) /\ Has(t, <<"run", tx[t].run>>)
      /\ t \in Workers /\ worker[t].run \in Runs
      /\ tx[t].kind = "Finalize" => Has(t, <<"document", 0>>) /\ tx[t].previous = active
      /\ tx[t].kind = "Requeue" => run[tx[t].run].attempts < MaxAttempts
  BY <1>1, <1>2 DEF TxOK, Calls
<1>4. version[Own(t)] = "PROCESSING" /\ Own(t) \in Versions
  BY <1>2, OwnIsProcessed
<1>5. run[tx[t].run] \in RunRows /\ RowOK(run[tx[t].run])
  BY <1>3, Typed DEF IInv, RowsInv
<1>6. \A s \in Runs : IsLive(s) /\ run[s].version = Own(t) => s = tx[t].run
  BY <1>3 DEF IInv, RowsInv, OneLive, IsLive, Claimed, Own
<1> QED BY <1>3, <1>4, <1>5, <1>6

\* The commit of a transaction that has the run's lock, and writes the run's row.
LEMMA OneRowKeeps ==
  ASSUME IInv, NEW t \in Sessions, NEW r \in Runs, NEW row \in RunRows,
         Has(t, <<"run", r>>), row.version = run[r].version, row.status # "ABSENT",
         row.status = "RUNNING" => row.owner = t \/ row.lease = "none",
         \A s \in Runs \ {r} : run'[s] = run[s],
         run'[r] = row, run' \in [Runs -> RunRows],
         active' = active \/ Has(t, <<"document", 0>>),
         active' \in 0 .. MaxVersion,
         version' \in [Versions -> {"QUEUED", "PROCESSING", "ACTIVE", "FAILED", "SUPERSEDED"}],
         worker' \in [Workers -> [run : Runs \cup {None}, next : {"Claim", "Store", "Finalize", "Fail"}]],
         \A w \in Workers \ {t} : worker'[w] = worker[w],
         t \in Workers /\ worker'[t].next # "Claim" => worker'[t].run \in Runs,
         faults' = faults, Ended(t), RowsInv'
  PROVE  IInv'
<1>1. TypeOK'
  BY EndedTyped DEF IInv, TypeOK, RunRows, TxRows, LockRecords
<1>2. ASSUME NEW u \in Sessions \ {t} PROVE RowsKept(u)
  <2>1. ~Has(u, <<"run", r>>) /\ (Has(t, <<"document", 0>>) => ~Has(u, <<"document", 0>>))
    BY HasAlone
  <2> QED BY <2>1 DEF RowsKept
<1>3. WorkersInv'
  BY DEF IInv, WorkersInv
<1> QED BY <1>1, <1>2, <1>3, EndKeeps

LEMMA CommitStoreKeeps ==
  ASSUME IInv, NEW t \in Sessions, CommitStore(t)
  PROVE  IInv'
<1> DEFINE r == tx[t].run
           row == [run[r] EXCEPT !.lease = "live"]
<1>1. /\ At(t) = "commit" /\ tx[t].kind \in Calls /\ Ended(t) /\ UNCHANGED <<active, version, faults>>
      /\ run' = [run EXCEPT ![r].lease = "live"]
      /\ worker' = [worker EXCEPT ![t].next = "Finalize"]
  BY DEF CommitStore, Calls
<1>2. /\ r \in Runs /\ Claimed(t) /\ Has(t, <<"run", r>>) /\ t \in Workers /\ worker[t].run \in Runs
      /\ run[r] \in RunRows /\ RowOK(run[r])
  BY <1>1, AtCommit
<1>3. /\ row \in RunRows /\ row.status = "RUNNING" /\ row.owner = t /\ row.version = run[r].version
      /\ row.lease = "live" /\ row.attempts = run[r].attempts
  BY <1>2 DEF RunRows, Claimed
<1>4. /\ run' \in [Runs -> RunRows] /\ run'[r] = row
      /\ \A s \in Runs \ {r} : run'[s] = run[s]
  BY <1>1, <1>2, <1>3, Typed DEF IInv
<1>5. /\ worker' \in [Workers -> [run : Runs \cup {None}, next : {"Claim", "Store", "Finalize", "Fail"}]]
      /\ \A w \in Workers \ {t} : worker'[w] = worker[w]
      /\ worker'[t].run \in Runs
  BY <1>1, <1>2, Typed DEF IInv
<1> HIDE DEF row, r
<1>6. RowOK(row) /\ run[r].status = "RUNNING"
  BY <1>2, <1>3 DEF RowOK, Claimed, r
<1>7. RowsInv'
  <2>1. \A s \in Runs : RowOK(run[s])
    BY DEF IInv, RowsInv
  <2> QED BY <1>1, <1>3, <1>4, <1>6, <2>1, LivesKept DEF IsLive
<1>8. /\ active' = active /\ active' \in 0 .. MaxVersion
      /\ version' \in [Versions -> {"QUEUED", "PROCESSING", "ACTIVE", "FAILED", "SUPERSEDED"}]
  BY <1>1 DEF IInv, TypeOK
<1>9. Ended(t) /\ faults' = faults
  BY <1>1
<1> QED BY <1>2, <1>3, <1>4, <1>5, <1>7, <1>8, <1>9, OneRowKeeps

\* Finalize leaves no live run of its version, and the one ACTIVE version is the
\* one the document points to.
LEMMA CommitFinalizeKeeps ==
  ASSUME IInv, NEW t \in Sessions, CommitFinalize(t)
  PROVE  IInv'
<1> DEFINE r == tx[t].run
           outranked == tx[t].number > Own(t)
           row == [run[r] EXCEPT !.status = IF outranked THEN "SUPERSEDED" ELSE "SUCCEEDED",
                                 !.lease = "none"]
           own == Own(t)
<1>1. /\ At(t) = "commit" /\ tx[t].kind = "Finalize" /\ Ended(t) /\ faults' = faults
      /\ active' = IF outranked THEN active ELSE own
      /\ version' = [v \in Versions |->
           IF v = own THEN IF outranked THEN "SUPERSEDED" ELSE "ACTIVE"
           ELSE IF ~outranked /\ v = tx[t].previous /\ version[v] = "ACTIVE" THEN "SUPERSEDED"
           ELSE version[v]]
      /\ run' = [run EXCEPT ![r].status = IF outranked THEN "SUPERSEDED" ELSE "SUCCEEDED",
                            ![r].lease = "none"]
      /\ worker' = [worker EXCEPT ![t] = Idle]
  BY DEF CommitFinalize
<1>2. /\ r \in Runs /\ Claimed(t) /\ Has(t, <<"run", r>>)
      /\ run[r] \in RunRows /\ RowOK(run[r])
      /\ Has(t, <<"document", 0>>) /\ tx[t].previous = active
      /\ version[own] = "PROCESSING" /\ own \in Versions
      /\ \A s \in Runs : IsLive(s) /\ run[s].version = own => s = r
  BY <1>1, AtCommit DEF Calls
<1>3. /\ row \in RunRows /\ row.status \in {"SUPERSEDED", "SUCCEEDED"}
      /\ row.version = run[r].version
  BY <1>2 DEF RunRows
<1>4. /\ run' \in [Runs -> RunRows] /\ run'[r] = row
      /\ \A s \in Runs \ {r} : run'[s] = run[s]
  BY <1>1, <1>2, <1>3, Typed DEF IInv
<1>5. /\ worker' \in [Workers -> [run : Runs \cup {None}, next : {"Claim", "Store", "Finalize", "Fail"}]]
      /\ \A w \in Workers \ {t} : worker'[w] = worker[w]
      /\ t \in Workers => worker'[t].next = "Claim"
  BY <1>1, Typed DEF IInv, Idle
<1>6. /\ run[r].version = own /\ run[r].status = "RUNNING"
      /\ row.version = own /\ row.status # "ABSENT" /\ row.status \notin {"QUEUED", "RUNNING"}
  BY <1>2, <1>3 DEF Own, Claimed
<1>7. /\ version \in [Versions -> {"QUEUED", "PROCESSING", "ACTIVE", "FAILED", "SUPERSEDED"}]
      /\ active \in 0 .. MaxVersion /\ Versions \subseteq 0 .. MaxVersion
  BY DEF IInv, TypeOK, Versions, ConstantsAssumption
<1> HIDE DEF row, r, own, outranked
<1>8. version' \in [Versions -> {"QUEUED", "PROCESSING", "ACTIVE", "FAILED", "SUPERSEDED"}]
  BY <1>1, <1>7
<1>9. active' \in 0 .. MaxVersion
  BY <1>1, <1>2, <1>7
<1>10. /\ version'[own] \in {"SUPERSEDED", "ACTIVE"}
       /\ \A v \in Versions \ {own} :
            \/ version'[v] = version[v]
            \/ version[v] = "ACTIVE" /\ version'[v] = "SUPERSEDED"
  <2>1. CASE outranked
    BY <1>1, <1>2, <2>1
  <2>2. CASE ~outranked
    BY <1>1, <1>2, <2>2
  <2> QED BY <2>1, <2>2
<1>11. RowsInv'
  <2>1. \A s \in Runs : RowOK(run'[s])
    <3>1. RowOK(row)
      BY <1>2, <1>6 DEF RowOK
    <3> QED BY <1>4, <3>1 DEF IInv, RowsInv
  <2>2. Pointer'
    <3>1. Pointer
      BY DEF IInv, RowsInv
    <3>2. CASE outranked
      BY <1>1, <1>2, <3>1, <3>2 DEF Pointer
    <3>3. CASE ~outranked
      BY <1>1, <1>2, <3>1, <3>3 DEF Pointer
    <3> QED BY <3>2, <3>3
  <2>3. \A s \in Runs : /\ IsLive(s)' => s # r /\ IsLive(s) /\ run'[s] = run[s]
                        /\ IsLive(s) /\ s # r => IsLive(s)' /\ run'[s] = run[s]
    BY <1>4, <1>6 DEF IsLive
  <2>4. OneLive'
    BY <2>3 DEF IInv, RowsInv, OneLive
  <2>5. Pending'
    <3> SUFFICES ASSUME NEW v \in Versions
                 PROVE  version'[v] \in {"QUEUED", "PROCESSING"} <=>
                          \E s \in Runs : IsLive(s)' /\ run'[s].version = v
      BY DEF Pending
    <3>1. version[v] \in {"QUEUED", "PROCESSING"} <=> \E s \in Runs : IsLive(s) /\ run[s].version = v
      BY DEF IInv, RowsInv, Pending
    <3>2. CASE v = own
      BY <1>2, <1>10, <2>3, <3>2
    <3>3. CASE v # own
      BY <1>6, <1>10, <2>3, <3>1, <3>3
    <3> QED BY <3>2, <3>3
  <2>6. InProgress'
    <3> SUFFICES ASSUME NEW s \in Runs, run'[s].status = "RUNNING"
                 PROVE  version'[run'[s].version] = "PROCESSING"
      BY DEF InProgress
    <3>1. s # r /\ IsLive(s) /\ run'[s] = run[s]
      BY <2>3 DEF IsLive
    <3>2. version[run[s].version] = "PROCESSING" /\ run[s].version \in Versions
      BY <3>1 DEF IInv, RowsInv, InProgress, RowOK
    <3>3. run[s].version # own
      BY <1>2, <3>1
    <3> QED BY <1>10, <3>1, <3>2, <3>3
  <2> QED BY <2>1, <2>2, <2>4, <2>5, <2>6 DEF RowsInv
<1>12. row.version = run[r].version
  BY <1>6
<1>13. row.status # "RUNNING"
  BY <1>6
<1>14. Ended(t) /\ faults' = faults /\ (active' = active \/ Has(t, <<"document", 0>>))
  BY <1>1, <1>2
<1> QED BY <1>2, <1>3, <1>4, <1>5, <1>6, <1>8, <1>9, <1>11, <1>12, <1>13, <1>14, OneRowKeeps

\* A claim takes one attempt of the run it leases, and gives one back for each
\* run it reclaims.
LEMMA CommitClaimKeeps ==
  ASSUME IInv, NEW t \in Sessions, CommitClaim(t)
  PROVE  IInv'
<1> DEFINE r == tx[t].run
           back == Reclaimed(t, run)
           row == [back[r] EXCEPT !.status = "RUNNING", !.owner = t, !.lease = "live",
                                  !.attempts = @ + 1]
           own == Own(t)
<1>1. /\ At(t) = "commit" /\ tx[t].kind = "Claim" /\ Ended(t) /\ UNCHANGED <<active, faults>>
      /\ run' = [back EXCEPT ![r].status = "RUNNING", ![r].owner = t, ![r].lease = "live",
                             ![r].attempts = @ + 1]
      /\ version' = [version EXCEPT ![own] = IF @ = "QUEUED" THEN "PROCESSING" ELSE @]
      /\ worker' = [worker EXCEPT ![t] = [run |-> r, next |-> "Store"]]
  BY DEF CommitClaim
<1>2. Position(t) /\ TxOK(t) /\ tx[t].pos \in 0 .. 6
  BY Positions, Typed DEF IInv, TxRows
<1>3. r \in Runs /\ Has(t, <<"run", r>>) /\ Leasable(run[r]) /\ t \in Workers
  BY <1>1, <1>2 DEF Position, TxOK
<1>4. ASSUME NEW s \in Runs
      PROVE  /\ back[s] \in RunRows /\ RowOK(back[s]) /\ back[s].version = run[s].version
             /\ back[s].status \in {"QUEUED", "RUNNING"} <=> IsLive(s)
             /\ \/ back[s] = run[s] /\ s \notin Reclaiming(t)
                \/ /\ Has(t, <<"run", s>>) /\ back[s].status = "QUEUED"
                   /\ run[s].status = "RUNNING"
  BY ReclaimedRow
<1>5. run[r] \in RunRows /\ RowOK(run[r]) /\ IsLive(r)
  BY <1>3, Typed DEF IInv, RowsInv, Leasable, IsLive
<1>6. back[r].attempts \in 0 .. MaxAttempts /\ back[r].attempts < MaxAttempts
  <2>1. CASE back[r].status = "QUEUED"
    BY <1>3, <1>4, <2>1 DEF RowOK, RunRows
  <2>2. CASE back[r] = run[r] /\ r \notin Reclaiming(t) /\ run[r].status = "RUNNING"
    <3>1. run[r].lease = "none" \/ run[r].lease = "expired"
      BY <1>3, <1>5, <2>2 DEF Leasable, RunRows
    <3>2. run[r].lease # "expired"
      BY <1>3, <2>2 DEF Reclaiming, Expired, Has
    <3> QED BY <1>3, <1>5, <2>2, <3>1, <3>2 DEF RowOK, RunRows
  <2>3. back[r] = run[r] => run[r].status \in {"QUEUED", "RUNNING"}
    BY <1>5 DEF IsLive
  <2> QED BY <1>3, <1>4, <2>1, <2>2, <2>3
<1>7. /\ row.status = "RUNNING" /\ row.owner = t /\ row.lease = "live"
      /\ row.attempts = back[r].attempts + 1 /\ row.version = run[r].version
      /\ row \in RunRows
  <2>1. back[r].attempts + 1 \in 0 .. MaxAttempts
    BY <1>6 DEF IInv, ConstantsAssumption
  <2>2. back[r] \in RunRows /\ back[r].version = run[r].version
    BY <1>3, <1>4
  <2> HIDE DEF back
  <2> QED BY <1>3, <2>1, <2>2 DEF RunRows
<1>8. RowOK(row)
  <2>1. run[r].version \in Versions
    BY <1>3, <1>5 DEF RowOK, IsLive
  <2> HIDE DEF row, back
  <2> QED BY <1>6, <1>7, <2>1 DEF RowOK
<1>9. back = [s \in Runs |-> back[s]]
  BY DEF Reclaimed
<1>10. /\ run' \in [Runs -> RunRows] /\ run'[r] = row
       /\ \A s \in Runs \ {r} : run'[s] = back[s]
  <2> HIDE DEF back
  <2>1. run' = [s \in Runs |-> IF s = r THEN row ELSE back[s]]
    BY <1>1, <1>3, <1>9
  <2> HIDE DEF row
  <2> QED BY <1>3, <1>4, <1>7, <2>1
<1>11. own = run[r].version /\ own \in Versions
  BY <1>3, <1>5 DEF Own, RowOK, IsLive
<1>12. /\ version \in [Versions -> {"QUEUED", "PROCESSING", "ACTIVE", "FAILED", "SUPERSEDED"}]
       /\ version[own] \in {"QUEUED", "PROCESSING"}
  BY <1>3, <1>5, <1>11 DEF IInv, TypeOK, RowsInv, Pending
<1>13. /\ worker' \in [Workers -> [run : Runs \cup {None}, next : {"Claim", "Store", "Finalize", "Fail"}]]
       /\ \A w \in Workers \ {t} : worker'[w] = worker[w]
       /\ worker'[t].run \in Runs
  BY <1>1, <1>3, Typed DEF IInv
<1> HIDE DEF row, back, r, own
<1>14. /\ version' \in [Versions -> {"QUEUED", "PROCESSING", "ACTIVE", "FAILED", "SUPERSEDED"}]
       /\ version'[own] = "PROCESSING" /\ \A v \in Versions \ {own} : version'[v] = version[v]
  BY <1>1, <1>11, <1>12
<1>15. ASSUME NEW s \in Runs
       PROVE  /\ IsLive(s)' <=> IsLive(s)
              /\ run'[s].version = run[s].version
              /\ run'[s].status = "RUNNING" => s = r \/ run[s].status = "RUNNING"
  <2>1. CASE s = r
    BY <1>5, <1>7, <1>10, <2>1 DEF IsLive
  <2>2. CASE s # r
    BY <1>4, <1>10, <2>2 DEF IsLive
  <2> QED BY <2>1, <2>2
<1>16. RowsInv'
  <2>1. \A s \in Runs : RowOK(run'[s])
    BY <1>4, <1>8, <1>10
  <2>2. Pointer'
    BY <1>1, <1>12, <1>14 DEF IInv, RowsInv, Pointer
  <2>3. OneLive'
    BY <1>15 DEF IInv, RowsInv, OneLive
  <2>4. Pending'
    BY <1>12, <1>14, <1>15 DEF IInv, RowsInv, Pending
  <2>5. InProgress'
    <3> SUFFICES ASSUME NEW s \in Runs, run'[s].status = "RUNNING"
                 PROVE  version'[run[s].version] = "PROCESSING"
      BY <1>15 DEF InProgress
    <3>1. CASE s = r
      BY <1>11, <1>14, <3>1
    <3>2. CASE s # r
      <4>1. version[run[s].version] = "PROCESSING" /\ run[s].version \in Versions
        BY <1>15, <3>2 DEF IInv, RowsInv, InProgress, RowOK
      <4> QED BY <1>14, <4>1
    <3> QED BY <3>1, <3>2
  <2> QED BY <2>1, <2>2, <2>3, <2>4, <2>5 DEF RowsInv
<1>17. TypeOK'
  BY <1>1, <1>10, <1>13, <1>14, EndedTyped DEF IInv, TypeOK, RunRows, TxRows, LockRecords
<1>18. ASSUME NEW u \in Sessions \ {t} PROVE RowsKept(u)
  <2>1. \A s \in Runs : Has(t, <<"run", s>>) => ~Has(u, <<"run", s>>)
    BY HasAlone
  <2>2. ASSUME NEW s \in Runs
        PROVE  \/ run'[s] = run[s]
               \/ /\ ~Has(u, <<"run", s>>)
                  /\ run'[s].status # "ABSENT" /\ run'[s].version = run[s].version
                  /\ run'[s].status = "RUNNING" /\ run'[s].lease # "none" => run'[s].owner # u
    <3>1. CASE s = r
      BY <1>3, <1>7, <1>10, <2>1, <3>1 DEF r
    <3>2. CASE s # r
      BY <1>4, <1>10, <2>1, <3>2
    <3> QED BY <3>1, <3>2
  <2> QED BY <1>1, <1>13, <2>2 DEF RowsKept
<1>19. WorkersInv'
  BY <1>13 DEF IInv, WorkersInv
<1>20. Ended(t)
  BY <1>1
<1> QED BY <1>16, <1>17, <1>18, <1>19, <1>20, EndKeeps

LEMMA CommitFailKeeps ==
  ASSUME IInv, NEW t \in Sessions, CommitFail(t)
  PROVE  IInv'
<1> DEFINE r == tx[t].run
           own == Own(t)
<1>1. /\ At(t) = "commit" /\ tx[t].kind \in {"Fail", "Requeue"} /\ Ended(t)
      /\ UNCHANGED <<active, faults>> /\ worker' = [worker EXCEPT ![t] = Idle]
  BY DEF CommitFail
<1>2. /\ r \in Runs /\ Claimed(t) /\ Has(t, <<"run", r>>)
      /\ run[r] \in RunRows /\ RowOK(run[r])
      /\ tx[t].kind = "Requeue" => run[r].attempts < MaxAttempts
      /\ version[own] = "PROCESSING" /\ own \in Versions
      /\ \A s \in Runs : IsLive(s) /\ run[s].version = own => s = r
  BY <1>1, AtCommit DEF Calls
<1>3. /\ worker' \in [Workers -> [run : Runs \cup {None}, next : {"Claim", "Store", "Finalize", "Fail"}]]
      /\ \A w \in Workers \ {t} : worker'[w] = worker[w]
      /\ t \in Workers => worker'[t].next = "Claim"
  BY <1>1, Typed DEF IInv, Idle
<1>4. /\ version \in [Versions -> {"QUEUED", "PROCESSING", "ACTIVE", "FAILED", "SUPERSEDED"}]
      /\ active' = active /\ active \in 0 .. MaxVersion
  BY <1>1 DEF IInv, TypeOK
<1>5. own = run[r].version /\ run[r].status = "RUNNING" /\ IsLive(r)
  BY <1>2 DEF Own, Claimed, IsLive
<1>6. CASE tx[t].kind = "Fail"
  <2>1. PICK code \in {"INVALID_INPUT", "TRANSIENT_EXHAUSTED"} :
          run' = [run EXCEPT ![r].status = "FAILED", ![r].lease = "none", ![r].error = code]
    BY <1>6 DEF CommitFail
  <2>2. version' = [version EXCEPT ![own] = IF @ = "PROCESSING" THEN "FAILED" ELSE @]
    BY <1>6 DEF CommitFail
  <2> DEFINE row == [run[r] EXCEPT !.status = "FAILED", !.lease = "none", !.error = code]
  <2>3. row \in RunRows /\ row.status = "FAILED" /\ row.version = own
    BY <1>2, <1>5 DEF RunRows
  <2>4. /\ run' \in [Runs -> RunRows] /\ run'[r] = row
        /\ \A s \in Runs \ {r} : run'[s] = run[s]
    BY <1>2, <2>1, <2>3, Typed DEF IInv
  <2> HIDE DEF row, own, r
  <2>5. /\ version' \in [Versions -> {"QUEUED", "PROCESSING", "ACTIVE", "FAILED", "SUPERSEDED"}]
        /\ version'[own] = "FAILED" /\ \A v \in Versions \ {own} : version'[v] = version[v]
    BY <1>2, <1>4, <2>2
  <2>6. RowsInv'
    <3>1. \A s \in Runs : RowOK(run'[s])
      BY <1>2, <2>3, <2>4 DEF IInv, RowsInv, RowOK
    <3>2. Pointer'
      BY <1>2, <1>4, <2>5 DEF IInv, RowsInv, Pointer
    <3>3. \A s \in Runs : /\ IsLive(s)' => s # r /\ IsLive(s) /\ run'[s] = run[s]
                          /\ IsLive(s) /\ s # r => IsLive(s)' /\ run'[s] = run[s]
      BY <2>3, <2>4 DEF IsLive
    <3>4. OneLive'
      BY <3>3 DEF IInv, RowsInv, OneLive
    <3>5. Pending'
      <4> SUFFICES ASSUME NEW v \in Versions
                   PROVE  version'[v] \in {"QUEUED", "PROCESSING"} <=>
                            \E s \in Runs : IsLive(s)' /\ run'[s].version = v
        BY DEF Pending
      <4>1. version[v] \in {"QUEUED", "PROCESSING"} <=> \E s \in Runs : IsLive(s) /\ run[s].version = v
        BY DEF IInv, RowsInv, Pending
      <4>2. CASE v = own
        BY <1>2, <2>5, <3>3, <4>2
      <4>3. CASE v # own
        BY <1>5, <2>5, <3>3, <4>1, <4>3
      <4> QED BY <4>2, <4>3
    <3>6. InProgress'
      <4> SUFFICES ASSUME NEW s \in Runs, run'[s].status = "RUNNING"
                   PROVE  version'[run'[s].version] = "PROCESSING"
        BY DEF InProgress
      <4>1. s # r /\ IsLive(s) /\ run'[s] = run[s]
        BY <3>3 DEF IsLive
      <4>2. version[run[s].version] = "PROCESSING" /\ run[s].version \in Versions
        BY <4>1 DEF IInv, RowsInv, InProgress, RowOK
      <4>3. run[s].version # own
        BY <1>2, <4>1
      <4> QED BY <2>5, <4>1, <4>2, <4>3
    <3> QED BY <3>1, <3>2, <3>4, <3>5, <3>6 DEF RowsInv
  <2>7. row.version = run[r].version /\ row.status # "ABSENT" /\ row.status # "RUNNING"
    BY <1>5, <2>3
  <2>8. Ended(t) /\ faults' = faults /\ active' \in 0 .. MaxVersion
    BY <1>1, <1>4
  <2> QED BY <1>2, <1>3, <1>4, <2>3, <2>4, <2>5, <2>6, <2>7, <2>8, OneRowKeeps
<1>7. CASE tx[t].kind = "Requeue"
  <2>1. run' = [run EXCEPT ![r].owner = None, ![r].lease = "none"] /\ version' = version
    BY <1>7 DEF CommitFail
  <2> DEFINE row == [run[r] EXCEPT !.owner = None, !.lease = "none"]
  <2>2. /\ row \in RunRows /\ row.status = "RUNNING" /\ row.version = own /\ row.lease = "none"
        /\ row.attempts = run[r].attempts
    BY <1>2, <1>5 DEF RunRows
  <2>3. /\ run' \in [Runs -> RunRows] /\ run'[r] = row
        /\ \A s \in Runs \ {r} : run'[s] = run[s]
    BY <1>2, <2>1, <2>2, Typed DEF IInv
  <2> HIDE DEF row, own, r
  <2>4. RowOK(row)
    BY <1>2, <1>7, <2>2 DEF RowOK
  <2>5. RowsInv'
    <3>1. \A s \in Runs : RowOK(run[s])
      BY DEF IInv, RowsInv
    <3> QED BY <1>4, <1>5, <2>1, <2>2, <2>3, <2>4, <3>1, LivesKept DEF IsLive
  <2>6. row.version = run[r].version /\ row.status # "ABSENT"
    BY <1>5, <2>2
  <2>7. Ended(t) /\ faults' = faults /\ active' \in 0 .. MaxVersion
        /\ version' \in [Versions -> {"QUEUED", "PROCESSING", "ACTIVE", "FAILED", "SUPERSEDED"}]
    BY <1>1, <1>4, <2>1
  <2> QED BY <1>2, <1>3, <1>4, <2>2, <2>3, <2>5, <2>6, <2>7, OneRowKeeps
<1> QED BY <1>1, <1>6, <1>7

\* A retry that goes through finds a failed version, of which no run is live.
LEMMA CommitRetryKeeps ==
  ASSUME IInv, NEW t \in Sessions, CommitRetry(t)
  PROVE  IInv'
<1> DEFINE own == Own(t)
<1>1. At(t) = "commit" /\ tx[t].kind = "Retry" /\ Ended(t) /\ UNCHANGED <<active, worker, faults>>
  BY DEF CommitRetry
<1>2. TxOK(t) /\ run \in [Runs -> RunRows]
  BY Typed DEF IInv
<1>3. tx[t].run \in Runs /\ run[tx[t].run].status # "ABSENT"
  BY <1>1, <1>2 DEF TxOK
<1>4. own \in Versions
  BY <1>3 DEF Own, IInv, RowsInv, RowOK
<1>5. /\ worker' \in [Workers -> [run : Runs \cup {None}, next : {"Claim", "Store", "Finalize", "Fail"}]]
      /\ WorkersInv' /\ faults' \in 0 .. MaxFaults
  BY <1>1, Typed DEF IInv, WorkersInv, TypeOK
<1>6. CASE UNCHANGED <<run, version>>
  BY <1>1, <1>5, <1>6, RollbackKeeps DEF IInv, WorkersInv
<1>7. ASSUME RetriableRow(tx[t].run), NEW child \in Runs, run[child].status = "ABSENT",
             run' = [run EXCEPT ![child] = Queued(own)],
             version' = [version EXCEPT ![own] = "QUEUED"]
      PROVE  IInv'
  <2>1. version[own] = "FAILED"
    BY <1>7 DEF RetriableRow, Own
  <2>2. \A s \in Runs : ~(IsLive(s) /\ run[s].version = own)
    BY <1>4, <2>1 DEF IInv, RowsInv, Pending
  <2>3. /\ Queued(own) \in RunRows /\ Queued(own).status = "QUEUED" /\ Queued(own).version = own
        /\ Queued(own).attempts = 0
    <3>1. own \in 0 .. MaxVersion /\ 0 \in 0 .. MaxAttempts
      BY <1>4 DEF Versions, IInv, ConstantsAssumption
    <3> HIDE DEF own
    <3> QED BY <3>1 DEF Queued, NoRun, RunRows
  <2>4. RowOK(Queued(own))
    BY <1>4, <2>3 DEF RowOK, IInv, ConstantsAssumption
  <2>5. version \in [Versions -> {"QUEUED", "PROCESSING", "ACTIVE", "FAILED", "SUPERSEDED"}]
    BY DEF IInv, TypeOK
  <2> HIDE DEF own
  <2>6. /\ run' \in [Runs -> RunRows] /\ run'[child] = Queued(own)
        /\ \A s \in Runs \ {child} : run'[s] = run[s]
    BY <1>2, <1>7, <2>3
  <2>7. /\ version' \in [Versions -> {"QUEUED", "PROCESSING", "ACTIVE", "FAILED", "SUPERSEDED"}]
        /\ version'[own] = "QUEUED" /\ \A v \in Versions \ {own} : version'[v] = version[v]
    BY <1>4, <1>7, <2>5
  <2>8. /\ IsLive(child)' /\ ~IsLive(child) /\ run'[child].version = own
        /\ run'[child].status = "QUEUED"
        /\ \A s \in Runs \ {child} : IsLive(s)' <=> IsLive(s)
    BY <1>7, <2>3, <2>6 DEF IsLive
  <2>9. RowsInv'
    <3>1. \A s \in Runs : RowOK(run'[s])
      BY <2>4, <2>6 DEF IInv, RowsInv
    <3>2. Pointer'
      BY <1>1, <2>1, <2>7 DEF IInv, RowsInv, Pointer
    <3>3. OneLive'
      BY <2>2, <2>6, <2>8 DEF IInv, RowsInv, OneLive
    <3>4. Pending'
      <4> SUFFICES ASSUME NEW v \in Versions
                   PROVE  version'[v] \in {"QUEUED", "PROCESSING"} <=>
                            \E s \in Runs : IsLive(s)' /\ run'[s].version = v
        BY DEF Pending
      <4>1. version[v] \in {"QUEUED", "PROCESSING"} <=> \E s \in Runs : IsLive(s) /\ run[s].version = v
        BY DEF IInv, RowsInv, Pending
      <4>2. CASE v = own
        BY <2>7, <2>8, <4>2
      <4>3. CASE v # own
        BY <2>6, <2>7, <2>8, <4>1, <4>3
      <4> QED BY <4>2, <4>3
    <3>5. InProgress'
      <4> SUFFICES ASSUME NEW s \in Runs, run'[s].status = "RUNNING"
                   PROVE  version'[run'[s].version] = "PROCESSING"
        BY DEF InProgress
      <4>1. s # child /\ run'[s] = run[s] /\ IsLive(s)
        BY <2>6, <2>8 DEF IsLive
      <4>2. version[run[s].version] = "PROCESSING" /\ run[s].version \in Versions
        BY <4>1 DEF IInv, RowsInv, InProgress, RowOK
      <4> QED BY <2>1, <2>7, <4>1, <4>2
    <3> QED BY <3>1, <3>2, <3>3, <3>4, <3>5 DEF RowsInv
  <2>10. TypeOK'
    BY <1>1, <1>5, <2>6, <2>7, EndedTyped DEF IInv, TypeOK, RunRows, TxRows, LockRecords
  <2>11. \A u \in Sessions \ {t} : RowsKept(u)
    BY <1>1, <1>7, <2>6, <2>8 DEF RowsKept
  <2> QED BY <1>1, <1>5, <2>9, <2>10, <2>11, EndKeeps
<1> QED BY <1>6, <1>7 DEF CommitRetry

-----------------------------------------------------------------------------
(* Deadlocks, faults and leases.                                           *)

LEMMA RetryRunsOutKeeps ==
  ASSUME IInv, NEW t \in Sessions, RetryRunsOut(t)
  PROVE  IInv'
<1>1. Ended(t) /\ UNCHANGED <<active, version, run, worker, faults>>
  BY DEF RetryRunsOut
<1> QED BY <1>1, RollbackKeeps, Typed DEF IInv, TypeOK, WorkersInv

LEMMA DeadlockVictimKeeps ==
  ASSUME IInv, NEW t \in Sessions, DeadlockVictim(t)
  PROVE  IInv'
<1>1. /\ Ended(t) /\ UNCHANGED <<active, version, run>> /\ faults' \in 0 .. MaxFaults
      /\ worker \in [Workers -> [run : Runs \cup {None}, next : {"Claim", "Store", "Finalize", "Fail"}]]
      /\ TxOK(t)
      /\ t \in Workers /\ worker[t].next # "Claim" => worker[t].run \in Runs
  BY Typed DEF DeadlockVictim, IInv, TypeOK, WorkersInv
<1>2. tx[t].kind \in {"Finalize", "Fail", "Requeue", "Retry"}
  BY CircleMembers DEF DeadlockVictim
<1>3. CASE worker' = worker
  BY <1>1, <1>3, RollbackKeeps
<1>4. CASE worker' = [worker EXCEPT ![t] = Idle]
  BY <1>1, <1>4, RollbackKeeps DEF Idle
<1>5. CASE t \in Workers /\ worker' = [worker EXCEPT ![t] = [@ EXCEPT !.next = "Fail"]]
  <2>1. worker[t].run \in Runs
    BY <1>1, <1>2, <1>5 DEF TxOK, Calls, IInv, ConstantsAssumption
  <2>2. /\ worker' \in [Workers -> [run : Runs \cup {None}, next : {"Claim", "Store", "Finalize", "Fail"}]]
        /\ \A w \in Workers \ {t} : worker'[w] = worker[w]
        /\ worker'[t].run \in Runs
    BY <1>1, <1>5, <2>1
  <2> QED BY <1>1, <2>2, RollbackKeeps
<1> QED BY <1>3, <1>4, <1>5 DEF DeadlockVictim

LEMMA WorkerStopsKeeps ==
  ASSUME IInv, NEW w \in Workers, WorkerStops(w)
  PROVE  IInv'
<1>1. /\ Ended(w) /\ UNCHANGED <<active, version, run>> /\ faults' \in 0 .. MaxFaults
      /\ worker' = [worker EXCEPT ![w] = Idle] /\ w \in Sessions
      /\ worker \in [Workers -> [run : Runs \cup {None}, next : {"Claim", "Store", "Finalize", "Fail"}]]
  <2>1. faults' \in 0 .. MaxFaults
    BY DEF WorkerStops, Fault, IInv, TypeOK, ConstantsAssumption
  <2> QED BY <2>1, Typed DEF WorkerStops, IInv, Sessions
<1> QED BY <1>1, RollbackKeeps DEF Idle

\* A lease that ends takes nothing from who has the row locked: the claim is
\* verified under the lock, and then the run cannot be reclaimed.
LEMMA LeaseKeeps ==
  ASSUME IInv, NEW r \in Runs, LeaseExpires(r) \/ LeaseLapses(r)
  PROVE  IInv'
<1> DEFINE row == [run[r] EXCEPT !.lease = "expired"]
<1>1. /\ run' = [run EXCEPT ![r].lease = "expired"] /\ UNCHANGED <<active, version, tx, held, worker>>
      /\ run[r].status = "RUNNING" /\ run[r].lease = "live"
  BY DEF LeaseExpires, LeaseLapses, LiveLeases
<1>2. faults' \in 0 .. MaxFaults
  BY DEF LeaseExpires, LeaseLapses, Fault, IInv, TypeOK, ConstantsAssumption
<1>3. run[r] \in RunRows /\ run \in [Runs -> RunRows] /\ RowOK(run[r])
  BY Typed DEF IInv, RowsInv
<1>4. /\ row \in RunRows /\ row.status = "RUNNING" /\ row.version = run[r].version
      /\ row.lease = "expired" /\ row.attempts = run[r].attempts
  BY <1>1, <1>3 DEF RunRows
<1>5. run' \in [Runs -> RunRows] /\ run'[r] = row /\ \A s \in Runs \ {r} : run'[s] = run[s]
  BY <1>1, <1>3, <1>4
<1>6. \A u \in Sessions : Undisturbed(u)
  BY <1>1, <1>5 DEF Undisturbed, SessionKept, RowsKept
<1> HIDE DEF row
<1>7. RowsInv'
  <2>1. \A s \in Runs : RowOK(run'[s])
    BY <1>1, <1>3, <1>4, <1>5 DEF RowOK, IInv, RowsInv
  <2> QED BY <1>1, <1>4, <1>5, <2>1, LivesKept DEF IsLive
<1>8. TypeOK'
  BY <1>1, <1>2, <1>5 DEF IInv, TypeOK, RunRows
<1>9. (\A u \in Sessions : TxOK(u)') /\ \A h \in held' : HeldOK(h)'
  BY <1>6, <1>8, Steady DEF TypeOK
<1>10. WorkersInv' /\ Exclusive'
  BY <1>1 DEF IInv, WorkersInv, Exclusive
<1> QED BY <1>7, <1>8, <1>9, <1>10 DEF IInv, Sessions

-----------------------------------------------------------------------------
(* The theorems.                                                           *)

LEMMA Initially == ConstantsAssumption /\ Init => IInv
<1> SUFFICES ASSUME ConstantsAssumption, Init PROVE IInv
  OBVIOUS
<1>1. PICK first \in [Versions -> Runs] :
        /\ \A u, v \in Versions : first[u] = first[v] => u = v
        /\ run = [r \in Runs |-> IF \E v \in Versions : first[v] = r
                                THEN Queued(CHOOSE v \in Versions : first[v] = r)
                                ELSE NoRun]
  BY DEF Init
<1>2. 0 \in 0 .. MaxVersion /\ Versions \subseteq 0 .. MaxVersion /\ 0 \in 0 .. MaxAttempts
      /\ 0 < MaxAttempts /\ 0 \in 0 .. MaxFaults /\ 0 \notin Versions
  BY DEF ConstantsAssumption, Versions
<1>3. /\ NoRun \in RunRows /\ NoRun.status = "ABSENT"
      /\ \A v \in Versions : /\ Queued(v) \in RunRows /\ Queued(v).status = "QUEUED"
                            /\ Queued(v).version = v /\ Queued(v).attempts = 0
  BY <1>2 DEF NoRun, Queued, RunRows
<1>4. ASSUME NEW r \in Runs
      PROVE  \/ run[r] = NoRun /\ \A v \in Versions : first[v] # r
             \/ \E v \in Versions : first[v] = r /\ run[r] = Queued(v)
  BY <1>1
<1>5. ASSUME NEW v \in Versions PROVE first[v] \in Runs /\ run[first[v]] = Queued(v)
  BY <1>1
<1>6. run \in [Runs -> RunRows]
  <2>1. \A r \in Runs : run[r] \in RunRows
    BY <1>3, <1>4
  <2> QED BY <1>1, <2>1
<1>7. TypeOK
  <2>1. NoTx \in TxRows
    BY <1>2 DEF NoTx, TxRows
  <2> QED BY <1>2, <1>6, <2>1 DEF Init, TypeOK, RunRows, TxRows, Idle
<1>8. RowsInv
  <2>1. \A r \in Runs : RowOK(run[r])
    BY <1>2, <1>3, <1>4 DEF RowOK
  <2>2. Pointer
    BY <1>2 DEF Init, Pointer
  <2>3. \A r \in Runs : IsLive(r) => \E v \in Versions : first[v] = r /\ run[r].version = v
    BY <1>3, <1>4 DEF IsLive
  <2>4. OneLive
    BY <2>3 DEF OneLive
  <2>5. Pending
    BY <1>3, <1>5 DEF Init, Pending, IsLive
  <2>6. InProgress
    BY <1>3, <1>4 DEF InProgress
  <2> QED BY <2>1, <2>2, <2>4, <2>5, <2>6 DEF RowsInv
<1>9. WorkersInv
  BY DEF Init, WorkersInv, Idle
<1>10. \A t \in Sessions : TxOK(t)
  BY DEF Init, NoTx, TxOK, Calls
<1>11. (\A h \in held : HeldOK(h)) /\ Exclusive
  BY DEF Init, Exclusive
<1> QED BY <1>7, <1>8, <1>9, <1>10, <1>11 DEF IInv

LEMMA Keeps == IInv /\ [Next]_vars => IInv'
<1> SUFFICES ASSUME IInv, [Next]_vars PROVE IInv'
  OBVIOUS
<1>1. ASSUME NEW w \in Workers, Call(w) \/ CallFails(w) \/ WorkerStops(w) PROVE IInv'
  BY <1>1, CallKeeps, CallFailsKeeps, WorkerStopsKeeps
<1>2. ASSUME NEW t \in Operators, RetryCall(t) PROVE IInv'
  BY <1>2, RetryCallKeeps
<1>3. ASSUME NEW t \in Sessions, Statement(t) PROVE IInv'
  BY <1>3, ReadKeeps, LockKeeps, LockRunKeeps, LockDocumentKeeps, PickRunKeeps DEF Statement
<1>4. ASSUME NEW t \in Sessions, Commit(t) PROVE IInv'
  BY <1>4, CommitClaimKeeps, CommitStoreKeeps, CommitFinalizeKeeps, CommitFailKeeps,
     CommitRetryKeeps, RetryRunsOutKeeps DEF Commit
<1>5. ASSUME NEW t \in Sessions, DeadlockVictim(t) PROVE IInv'
  BY <1>5, DeadlockVictimKeeps
<1>6. ASSUME NEW r \in Runs, LeaseExpires(r) \/ LeaseLapses(r) PROVE IInv'
  BY <1>6, LeaseKeeps
<1>7. CASE UNCHANGED vars
  <2>1. \A u \in Sessions : Undisturbed(u)
    BY <1>7 DEF vars, Undisturbed, SessionKept, RowsKept
  <2>2. TypeOK' /\ RowsInv' /\ WorkersInv' /\ Exclusive'
    BY <1>7 DEF vars, IInv, TypeOK, RowsInv, Pointer, OneLive, Pending, InProgress, IsLive,
       WorkersInv, Exclusive
  <2>3. (\A u \in Sessions : TxOK(u)') /\ \A h \in held' : HeldOK(h)'
    BY <2>1, <2>2, Steady DEF TypeOK
  <2> QED BY <2>2, <2>3 DEF IInv, Sessions
<1> QED BY <1>1, <1>2, <1>3, <1>4, <1>5, <1>6, <1>7 DEF Next

LEMMA Invariance ==
  ASSUME ConstantsAssumption
  PROVE  Spec => []IInv
  BY Initially, Keeps, PTL DEF Spec

LEMMA AtMostOne ==
  ASSUME NEW S, \A x, y \in S : x = y
  PROVE  Cardinality(S) <= 1
<1>1. Cardinality({}) = 0 /\ \A x : Cardinality({x}) = 1
  BY FS_EmptySet, FS_Singleton
<1>2. S = {} \/ \E x : S = {x}
  <2>1. ASSUME NEW x \in S PROVE S = {x}
    OBVIOUS
  <2> QED BY <2>1
<1>3. CASE S = {}
  BY <1>1, <1>3
<1>4. ASSUME NEW x, S = {x} PROVE Cardinality(S) = 1
  BY <1>1, <1>4
<1>5. CASE \E x : S = {x}
  BY <1>4, <1>5
<1> QED BY <1>2, <1>3, <1>5

\* Transactions, rows and locks have their types; in particular
\* automatic_attempts stays within its CHECK whatever the transactions wait for.
THEOREM TypeCorrect ==
  ASSUME ConstantsAssumption
  PROVE  Spec => []TypeOK
<1>1. IInv => TypeOK
  BY DEF IInv
<1> QED BY <1>1, Invariance, PTL

\* At most one run is live per version, a version waits or is processed exactly
\* as long as one is, and the document points to its one ACTIVE version,
\* although Finalize may have read a wrong number (ClaimNext, Finalize, Fail,
\* Retry).
THEOREM RowsAlwaysAgree ==
  ASSUME ConstantsAssumption
  PROVE  Spec => []RowsAgree
<1>1. IInv => RowsAgree
  <2> SUFFICES ASSUME IInv, NEW v \in Versions,
                      NEW live, live = {r \in Runs : run[r].version = v /\ run[r].status \in {"QUEUED", "RUNNING"}}
               PROVE  /\ version[v] = "ACTIVE" <=> active = v
                      /\ Cardinality(live) <= 1
                      /\ version[v] \in {"QUEUED", "PROCESSING"} <=> live # {}
    BY DEF RowsAgree
  <2>1. version[v] = "ACTIVE" <=> active = v
    BY DEF IInv, RowsInv, Pointer
  <2>2. version[v] \in {"QUEUED", "PROCESSING"} <=> live # {}
    BY DEF IInv, RowsInv, Pending, IsLive
  <2>3. \A r, s \in live : r = s
    BY DEF IInv, RowsInv, OneLive, IsLive
  <2>4. Cardinality(live) <= 1
    BY <2>3, AtMostOne
  <2> QED BY <2>1, <2>2, <2>4
<1> QED BY <1>1, Invariance, PTL

\* Whatever transactions wait for each other in a circle, a retry that is to be
\* refused is among them and no claim is: the store's lock order leaves no
\* other circle.
THEOREM CirclesExplained ==
  ASSUME ConstantsAssumption
  PROVE  Spec => []CirclesAreStaleRetries
<1> QED BY Circular, Invariance, PTL
=============================================================================
