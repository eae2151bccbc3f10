------------------------- MODULE RegistrationProofs -------------------------
(***************************************************************************)
(* Theorems about Registration, for every value of its constants.  What a  *)
(* step can do to a key's rows is listed in KeyStep, what it can do to a   *)
(* request in RequestStep; the invariants about keys, locks and answers    *)
(* follow from the two lists.  The originals are safe only in one process  *)
(* whose commits end before their callers give up: OneProcess.             *)
(***************************************************************************)
EXTENDS Registration, TLAPS

\* A row that was reserved has a content, and an open request a process, a key
\* and a content; once past its reservation its key is bound to that content.
Bound ==
  /\ \A k \in Keys : IF upload[k].status = "ABSENT" THEN upload[k] = NoUpload
                                                     ELSE upload[k].content \in Contents
  /\ \A q \in Requests : request[q].state \in Open =>
       /\ request[q].process \in Processes
       /\ request[q].key \in Keys
       /\ request[q].content \in Contents
       /\ request[q].state # "reserving" => upload[request[q].key].content = request[q].content

\* A transaction that has locked its row finds it pending until it ends, and
\* no other transaction has locked it.
Locks ==
  /\ \A k \in late : upload[k].status = "PENDING"
  /\ \A q \in Requests : request[q].state = "committing" =>
       /\ upload[request[q].key].status = "PENDING"
       /\ request[q].key \notin late
       /\ \A x \in Requests : request[x].state = "committing" /\ request[x].key = request[q].key
                                => x = q

Registered == TypeOK /\ Bound /\ Locks /\ KeyRegistersOnce

-----------------------------------------------------------------------------
(* What a step can do.                                                     *)

SameKey(k) == upload'[k] = upload[k] /\ versions'[k] = versions[k]

\* The rows of one key: reserved, rejected, accepted, or its time is over.
KeyStep(k) ==
  \/ /\ upload[k].status = "ABSENT"
     /\ \E c \in Contents : upload'[k] = Pending(c)
     /\ versions'[k] = versions[k]
  \/ /\ upload[k].status = "PENDING" /\ ~Locked(k)
     /\ upload'[k] = [upload[k] EXCEPT !.status = "EXPIRED", !.elapsed = TRUE]
     /\ versions'[k] = versions[k]
  \/ /\ upload[k].status = "PENDING" /\ Locked(k)
     /\ upload'[k] = [upload[k] EXCEPT !.status = "ACCEPTED", !.version = upload[k].content]
     /\ versions'[k] = [versions[k] EXCEPT ![upload[k].content] = @ + 1]
     /\ ~Locked(k)'
  \/ /\ upload[k].status # "ABSENT"
     /\ upload'[k] = [upload[k] EXCEPT !.elapsed = TRUE]
     /\ versions'[k] = versions[k]

UploadStep ==
  \/ UNCHANGED <<upload, versions>>
  \/ \E k \in Keys : KeyStep(k) /\ \A x \in Keys \ {k} : SameKey(x)

Kept(q) ==
  /\ request'[q].process = request[q].process
  /\ request'[q].key = request[q].key
  /\ request'[q].content = request[q].content

\* One request: dropped, sent, taken further, or answered.
RequestStep(q) ==
  \/ request'[q] = request[q]
  \/ request'[q] = NoRequest
  \/ /\ request[q].state \notin Open
     /\ \E p \in Processes, k \in Keys, c \in Contents :
          request'[q] = [state |-> "reserving", process |-> p, key |-> k, content |-> c,
                         answer |-> None]
  \/ /\ request[q].state \in Open
     /\ Kept(q)
     /\ \/ /\ request'[q].state \in Open \ {"reserving", "committing"}
           /\ request'[q].answer = request[q].answer
           /\ upload'[request[q].key].content = request[q].content
        \/ /\ request[q].state \in {"locking", "blocked"}
           /\ request'[q].state = "committing"
           /\ request'[q].answer = request[q].answer
           /\ upload[request[q].key].status = "PENDING"
           /\ ~Locked(request[q].key)
           /\ UNCHANGED <<upload, late>>
           /\ \A x \in Requests \ {q} : request'[x] = request[x]
        \/ /\ request'[q].state = "answered"
           /\ \/ request'[q].answer \in {"refused", "empty"}
              \/ /\ request'[q].answer = request[q].content
                 /\ versions'[request[q].key][request[q].content] = 1

-----------------------------------------------------------------------------
(* The updates of a request.                                               *)

\* A request is taken further.
LEMMA GoesFields ==
  ASSUME TypeOK, NEW q \in Requests, NEW state \in Open, Goes(q, state)
  PROVE  /\ request' \in [Requests -> RequestRow]
         /\ \A x \in Requests \ {q} : request'[x] = request[x]
         /\ Kept(q)
         /\ request'[q].state = state
         /\ request'[q].answer = request[q].answer
  BY DEF TypeOK, RequestRow, Goes, Kept

\* A request is answered.
LEMMA AnsweredFields ==
  ASSUME TypeOK, NEW q \in Requests, NEW answer \in Contents \cup {None, "refused", "empty"},
         Answered(q, answer)
  PROVE  /\ request' \in [Requests -> RequestRow]
         /\ \A x \in Requests \ {q} : request'[x] = request[x]
         /\ Kept(q)
         /\ request'[q].state = "answered"
         /\ request'[q].answer = answer
  BY DEF TypeOK, RequestRow, Answered, Kept

\* A request fails: after Put it cleans up, before that it is answered.
LEMMA RefusedFields ==
  ASSUME TypeOK, NEW q \in Requests, Refused(q)
  PROVE  /\ request' \in [Requests -> RequestRow]
         /\ \A x \in Requests \ {q} : request'[x] = request[x]
         /\ Kept(q)
         /\ IF request[q].state \in AfterPut
            THEN request'[q].state = "checking" /\ request'[q].answer = request[q].answer
            ELSE request'[q].state = "answered" /\ request'[q].answer = "refused"
  <1>1. CASE request[q].state \in AfterPut
    BY <1>1, GoesFields DEF Refused, Open, InGate, CleanUp
  <1>2. CASE request[q].state \notin AfterPut
    BY <1>2, AnsweredFields DEF Refused
  <1> QED BY <1>1, <1>2

\* A failure in any state but the first keeps to the list, and so does one in
\* the first, which has nothing to clean up.
LEMMA RefusedStep ==
  ASSUME TypeOK, Bound, NEW q \in Requests, request[q].state \in Open, Refused(q),
         upload'[request[q].key].content = upload[request[q].key].content
           \/ request[q].state = "reserving"
  PROVE  request' \in [Requests -> RequestRow] /\ \A x \in Requests : RequestStep(x)
  <1>1. CASE request[q].state \in AfterPut
    <2>1. request[q].state # "reserving" BY <1>1 DEF AfterPut
    <2> QED BY <1>1, <2>1, RefusedFields DEF Bound, RequestStep, Open, InGate, CleanUp
  <1>2. CASE request[q].state \notin AfterPut
    BY <1>2, RefusedFields DEF RequestStep
  <1> QED BY <1>1, <1>2

-----------------------------------------------------------------------------
(* Every action keeps to the lists.                                        *)

LateStep ==
  \/ late' \subseteq late
  \/ \E q \in Requests : /\ request[q].state = "committing"
                         /\ request'[q].state # "committing"
                         /\ late' = late \cup {request[q].key}

Steps == TypeOK' /\ UploadStep /\ LateStep /\ \A q \in Requests : RequestStep(q)

\* A reservation, whether it inserts the row or finds it.
LEMMA InsertedFields ==
  ASSUME Registered, NEW k \in Keys, NEW c \in Contents
  PROVE  /\ Inserted(k, c) \in UploadRow
         /\ Inserted(k, c).content \in Contents
         /\ upload[k].status # "ABSENT" => Inserted(k, c) = upload[k]
         /\ upload[k].status = "ABSENT" =>
              Inserted(k, c) = Pending(c) /\ Inserted(k, c).content = c
                /\ Inserted(k, c).status = "PENDING"
  BY DEF Registered, TypeOK, Bound, Inserted, Pending, NoUpload, UploadRow

\* The insert is a step of its key.
LEMMA InsertStep ==
  ASSUME Registered, NEW k \in Keys, NEW c \in Contents,
         upload' = [upload EXCEPT ![k] = Inserted(k, c)], UNCHANGED versions
  PROVE  upload' \in [Keys -> UploadRow] /\ UploadStep
  <1>1. upload' \in [Keys -> UploadRow] /\ upload'[k] = Inserted(k, c)
          /\ \A x \in Keys \ {k} : upload'[x] = upload[x]
    BY InsertedFields DEF Registered, TypeOK
  <1>2. CASE upload[k].status = "ABSENT"
    <2>1. upload'[k] = Pending(c) /\ versions'[k] = versions[k]
      BY <1>1, <1>2, InsertedFields
    <2>2. KeyStep(k)
      BY <1>2, <2>1 DEF KeyStep
    <2> QED BY <1>1, <2>2 DEF UploadStep, SameKey
  <1>3. CASE upload[k].status # "ABSENT"
    <2>1. upload' = upload
      BY <1>1, <1>3, InsertedFields DEF Registered, TypeOK
    <2> QED BY <1>1, <2>1 DEF UploadStep
  <1> QED BY <1>1, <1>2, <1>3

\* An open request has a key and a content.
LEMMA OpenTyped ==
  ASSUME Registered, NEW q \in Requests, request[q].state \in Open
  PROVE  /\ request[q].key \in Keys /\ request[q].content \in Contents
         /\ request[q].process \in Processes
         /\ request[q].state # "reserving" => upload[request[q].key].content = request[q].content
  BY DEF Registered, Bound

\* Requests are sent.
LEMMA SubmitSteps ==
  ASSUME Registered, NEW q \in Requests, NEW p \in Processes, NEW k \in Keys, NEW c \in Contents,
         Submit(q, p, k, c)
  PROVE  Steps
  BY DEF Registered, TypeOK, Submit, Steps, UploadStep, LateStep, RequestStep, RequestRow, Open

\* A request reserves its key, or finds it reserved.
LEMMA ReserveSteps ==
  ASSUME Registered, NEW q \in Requests, Reserve(q) \/ ReserveLost(q)
  PROVE  Steps
  <1> DEFINE k == request[q].key
             c == request[q].content
             u == Inserted(k, c)
  <1>1. /\ request[q].state \in {"reserving", "registering"}
        /\ upload' = [upload EXCEPT ![k] = u]
        /\ UNCHANGED <<versions, late, objects, faults>>
    BY DEF Reserve, ReserveLost
  <1>2. request[q].state \in Open /\ k \in Keys /\ c \in Contents
    BY <1>1, OpenTyped DEF Open, InGate, AfterPut
  <1>3. upload' \in [Keys -> UploadRow] /\ UploadStep /\ LateStep
    BY <1>1, <1>2, InsertStep DEF LateStep
  <1>4. upload'[k] = u /\ u \in UploadRow
    BY <1>1, <1>2, InsertedFields DEF Registered, TypeOK
  <1>5. upload'[k].content = upload[k].content \/ request[q].state = "reserving"
    <2>1. CASE request[q].state = "registering"
      <3>1. upload[k].content = c /\ c # None
        BY <1>2, <2>1, OpenTyped, RegistrationAssumption
      <3>2. upload[k].status # "ABSENT"
        BY <1>2, <3>1 DEF Registered, Bound, NoUpload
      <3> QED BY <1>2, <1>4, <3>2, InsertedFields
    <2> QED BY <1>1, <2>1
  <1>6. request' \in [Requests -> RequestRow] /\ \A x \in Requests : RequestStep(x)
    <2>1. CASE Refused(q)
      BY <1>2, <1>5, <2>1, RefusedStep DEF Registered
    <2>2. CASE SameIdentity(u, c) /\ u.status = "ACCEPTED" /\ Answered(q, u.version)
      <3>1. upload[k].status = "ACCEPTED" /\ u = upload[k]
        BY <1>2, <2>2, InsertedFields
      <3>2. u.version = c /\ versions[k][c] = 1
        BY <1>2, <2>2, <3>1 DEF Registered, KeyRegistersOnce, SameIdentity
      <3> QED BY <1>1, <1>2, <2>2, <3>2, AnsweredFields DEF RequestStep, Registered
    <2>3. CASE SameIdentity(u, c) /\ Goes(q, IF request[q].state = "reserving" THEN "parsing"
                                                                                ELSE "locking")
      <3>1. upload'[k].content = c
        BY <1>4, <2>3 DEF SameIdentity
      <3>2. "parsing" \in Open \ {"reserving", "committing"}
              /\ "locking" \in Open \ {"reserving", "committing"}
        BY DEF Open, InGate, AfterPut
      <3> QED BY <1>2, <2>3, <3>1, <3>2, GoesFields DEF RequestStep, Registered
    <2> QED BY <2>1, <2>2, <2>3 DEF Reserve, ReserveLost
  <1> QED BY <1>1, <1>3, <1>6 DEF Steps, Registered, TypeOK

\* A failure, with no row written.
LEMMA RefusedSteps ==
  ASSUME Registered, NEW q \in Requests, request[q].state \in Open, Refused(q),
         UNCHANGED <<upload, versions, late>>, objects' \subseteq Contents, faults' \in Nat
  PROVE  Steps
  BY RefusedStep DEF Registered, TypeOK, Steps, UploadStep, LateStep

\* A step on the way to the transaction, with no row written.
LEMMA GoesSteps ==
  ASSUME Registered, NEW q \in Requests,
         request[q].state \in Open \ {"reserving"},
         NEW state \in Open \ {"reserving", "committing"}, Goes(q, state),
         UNCHANGED <<upload, versions, late>>, objects' \subseteq Contents, faults' \in Nat
  PROVE  Steps
  <1>1. request' \in [Requests -> RequestRow] /\ \A x \in Requests : RequestStep(x)
    BY GoesFields, OpenTyped DEF Registered, RequestStep
  <1> QED BY <1>1 DEF Registered, TypeOK, Steps, UploadStep, LateStep

\* An answer, with no row written.
LEMMA AnsweredSteps ==
  ASSUME Registered, NEW q \in Requests, request[q].state \in Open,
         NEW answer \in {"refused", "empty"}, Answered(q, answer),
         UNCHANGED <<upload, versions, late>>, objects' \subseteq Contents, faults' \in Nat
  PROVE  Steps
  <1>1. request' \in [Requests -> RequestRow] /\ \A x \in Requests : RequestStep(x)
    BY AnsweredFields DEF Registered, RequestStep
  <1> QED BY <1>1 DEF Registered, TypeOK, Steps, UploadStep, LateStep

\* The steps before the transaction.
LEMMA EarlySteps ==
  ASSUME Registered, NEW q \in Requests,
         Parse(q) \/ EnterGate(q) \/ Put(q) \/ PutUnsynced(q) \/ CallFails(q)
  PROVE  Steps
  <1> USE DEF Open, InGate, AfterPut, CleanUp
  <1>t. objects \subseteq Contents /\ faults \in Nat /\ faults + 1 \in Nat
    BY DEF Registered, TypeOK
  <1>1. CASE Parse(q)
    BY <1>1, <1>t, GoesSteps DEF Parse
  <1>2. CASE EnterGate(q)
    BY <1>2, <1>t, GoesSteps DEF EnterGate
  <1>3. CASE Put(q)
    BY <1>3, <1>t, GoesSteps, OpenTyped DEF Put
  <1>4. CASE PutUnsynced(q)
    BY <1>4, <1>t, RefusedSteps, OpenTyped DEF PutUnsynced
  <1>5. CASE CallFails(q)
    BY <1>5, <1>t, RefusedSteps DEF CallFails
  <1> QED BY <1>1, <1>2, <1>3, <1>4, <1>5

\* The clean-up.
LEMMA CleanUpSteps ==
  ASSUME Registered, NEW q \in Requests, Check(q) \/ Remove(q) \/ CleanUpFails(q)
  PROVE  Steps
  <1> USE DEF Open, InGate, AfterPut, CleanUp
  <1>t. objects \subseteq Contents /\ faults \in Nat /\ faults + 1 \in Nat
    BY DEF Registered, TypeOK
  <1>1. CASE Check(q)
    BY <1>1, <1>t, GoesSteps, AnsweredSteps DEF Check
  <1>2. CASE Remove(q)
    BY <1>2, <1>t, AnsweredSteps DEF Remove
  <1>3. CASE CleanUpFails(q)
    BY <1>3, <1>t, AnsweredSteps DEF CleanUpFails
  <1> QED BY <1>1, <1>2, <1>3

\* A rejected PDF closes its reservation.
LEMMA ExpireSteps ==
  ASSUME Registered, NEW q \in Requests, Expire(q)
  PROVE  Steps
  <1> DEFINE k == request[q].key
             c == request[q].content
  <1>1. request[q].state \in Open /\ k \in Keys /\ upload[k].content = c
    BY OpenTyped DEF Expire, Open
  <1>2. /\ upload' = [upload EXCEPT ![k] = Expired(upload[k], c)]
        /\ ~Locked(k)
        /\ Answered(q, "refused")
        /\ UNCHANGED <<versions, late, objects, faults>>
    BY DEF Expire
  <1>3. request' \in [Requests -> RequestRow] /\ \A x \in Requests : RequestStep(x)
    BY <1>1, <1>2, AnsweredFields DEF Registered, RequestStep
  <1>4. upload[k] \in UploadRow
    BY <1>1 DEF Registered, TypeOK
  <1>5. Expired(upload[k], c) \in UploadRow
    BY <1>4 DEF Expired, UploadRow
  <1>6. upload'[k] = Expired(upload[k], c) /\ \A x \in Keys \ {k} : upload'[x] = upload[x]
    BY <1>1, <1>2 DEF Registered, TypeOK
  <1>7. UploadStep
    <2>1. CASE upload[k].status = "PENDING"
      <3>1. KeyStep(k)
        BY <1>1, <1>2, <1>6, <2>1 DEF KeyStep, Expired, SameIdentity
      <3> QED BY <1>1, <1>2, <1>6, <3>1 DEF UploadStep, SameKey
    <2>2. CASE upload[k].status # "PENDING"
      <3>1. upload' = upload
        BY <1>1, <1>2, <2>2 DEF Expired, Registered, TypeOK
      <3> QED BY <1>2, <3>1 DEF UploadStep
    <2> QED BY <2>1, <2>2
  <1> QED BY <1>1, <1>2, <1>3, <1>5, <1>7 DEF Steps, Registered, TypeOK, LateStep

\* The transaction reads and locks the row of its key.
LEMMA LockSteps ==
  ASSUME Registered, NEW q \in Requests, Lock(q) \/ Unblock(q)
  PROVE  Steps
  <1> DEFINE k == request[q].key
             u == upload[k]
  <1>t. objects \subseteq Contents /\ faults \in Nat
    BY DEF Registered, TypeOK
  <1>1. /\ request[q].state \in {"locking", "blocked"}
        /\ UNCHANGED <<upload, versions, late, objects, faults>>
    BY DEF Lock, Unblock
  <1>2. request[q].state \in Open \ {"reserving"}
    BY <1>1 DEF Open, InGate, AfterPut
  <1>3. CASE Goes(q, "blocked")
    BY <1>1, <1>2, <1>3, <1>t, GoesSteps DEF Open, InGate, AfterPut
  <1>4. CASE Refused(q)
    BY <1>1, <1>2, <1>4, <1>t, RefusedSteps
  <1>5. CASE Answered(q, "empty")
    BY <1>1, <1>2, <1>5, <1>t, AnsweredSteps
  <1>6. CASE u.status = "ACCEPTED" /\ Answered(q, u.version)
    <2>1. u.version = request[q].content /\ versions[k][request[q].content] = 1
            /\ request[q].content \in Contents
      BY <1>2, <1>6, OpenTyped DEF Registered, KeyRegistersOnce
    <2>2. request' \in [Requests -> RequestRow] /\ \A x \in Requests : RequestStep(x)
      BY <1>1, <1>2, <1>6, <2>1, AnsweredFields DEF Registered, RequestStep
    <2> QED BY <1>1, <2>2 DEF Registered, TypeOK, Steps, UploadStep, LateStep
  <1>7. CASE u.status = "PENDING" /\ ~Locked(k) /\ Goes(q, "committing")
    <2>1. request' \in [Requests -> RequestRow] /\ \A x \in Requests : RequestStep(x)
      <3>1. "committing" \in Open
        BY DEF Open, InGate, AfterPut
      <3> QED BY <1>1, <1>2, <1>7, <3>1, GoesFields DEF Registered, RequestStep
    <2> QED BY <1>1, <2>1 DEF Registered, TypeOK, Steps, UploadStep, LateStep
  <1> QED BY <1>3, <1>4, <1>5, <1>6, <1>7 DEF Lock, Unblock, Found

\* The version of a key is inserted by the one transaction that has its row
\* locked, and which ends with it.
LEMMA AcceptedSteps ==
  ASSUME Registered, NEW k \in Keys, Accepted(k, upload[k].content), Locked(k), ~Locked(k)'
  PROVE  UploadStep /\ upload' \in [Keys -> UploadRow]
                   /\ versions' \in [Keys -> [Contents -> Nat]]
                   /\ upload'[k].content = upload[k].content
                   /\ upload[k].content \in Contents
                   /\ versions'[k][upload[k].content] = 1
  <1> DEFINE c == upload[k].content
  <1>1. upload[k].status = "PENDING"
    BY DEF Registered, Locks, Locked
  <1>2. upload[k] \in UploadRow /\ c \in Contents /\ versions[k] \in [Contents -> Nat]
          /\ versions[k][c] = 0
    BY <1>1 DEF Registered, TypeOK, Bound, KeyRegistersOnce
  <1>3. /\ upload'[k] = [upload[k] EXCEPT !.status = "ACCEPTED", !.version = c]
        /\ versions'[k] = [versions[k] EXCEPT ![c] = @ + 1]
        /\ \A x \in Keys \ {k} : SameKey(x)
    BY DEF Accepted, Registered, TypeOK, SameKey
  <1>4. KeyStep(k)
    BY <1>1, <1>3 DEF KeyStep
  <1>5. upload'[k] \in UploadRow /\ upload'[k].content = c
    BY <1>2, <1>3 DEF UploadRow
  <1>6. versions'[k] \in [Contents -> Nat] /\ versions'[k][c] = 1
    BY <1>2, <1>3
  <1> HIDE DEF c
  <1>7. upload' \in [Keys -> UploadRow] /\ versions' \in [Keys -> [Contents -> Nat]]
    BY <1>5, <1>6 DEF Accepted, Registered, TypeOK
  <1> QED BY <1>2, <1>3, <1>4, <1>5, <1>6, <1>7 DEF UploadStep, c

\* A transaction commits, and its answer arrives or is lost.
LEMMA CommitSteps ==
  ASSUME Registered, NEW q \in Requests, Commit(q)
  PROVE  Steps
  <1>0. PICK k \in Keys, c \in Contents : k = request[q].key /\ c = request[q].content
    BY OpenTyped DEF Commit, Open, InGate, AfterPut
  <1>1. request[q].state = "committing" /\ Accepted(k, c) /\ UNCHANGED <<late, objects, faults>>
    BY <1>0 DEF Commit
  <1>2. request[q].state \in Open /\ k \in Keys /\ upload[k].content = c /\ c \in Contents
    BY <1>0, <1>1, OpenTyped DEF Open, InGate, AfterPut
  <1>3. /\ \A x \in Requests \ {q} : request'[x] = request[x]
        /\ request'[q].state # "committing"
    BY <1>0, <1>1, <1>2, AnsweredFields, RefusedFields DEF Commit, Registered, AfterPut
  <1>4. Locked(k) /\ ~Locked(k)'
    BY <1>0, <1>1, <1>3 DEF Locked, Registered, Locks
  <1>5. /\ UploadStep
        /\ upload' \in [Keys -> UploadRow]
        /\ versions' \in [Keys -> [Contents -> Nat]]
        /\ upload'[k].content = c /\ versions'[k][c] = 1
    BY <1>1, <1>2, <1>4, AcceptedSteps
  <1>6. request' \in [Requests -> RequestRow] /\ \A x \in Requests : RequestStep(x)
    <2>1. CASE Answered(q, c)
      BY <1>0, <1>2, <1>5, <2>1, AnsweredFields DEF Registered, RequestStep
    <2>2. CASE Refused(q)
      BY <1>0, <1>2, <1>5, <2>2, RefusedStep DEF Registered
    <2> QED BY <1>0, <2>1, <2>2 DEF Commit
  <1> QED BY <1>1, <1>5, <1>6 DEF Registered, TypeOK, Steps, LateStep

\* The caller gives up on a commit, which then takes effect or does not.
LEMMA LateSteps ==
  ASSUME Registered, (\E q \in Requests : AbandonCommit(q))
                       \/ (\E k \in Keys : LateCommit(k) \/ LateRollback(k))
  PROVE  Steps
  <1>1. ASSUME NEW q \in Requests, AbandonCommit(q) PROVE Steps
    <2>1. request[q].state = "committing" /\ request[q].state \in Open
            /\ late' = late \cup {request[q].key} /\ Refused(q)
            /\ UNCHANGED <<upload, versions, objects, faults>>
      BY <1>1 DEF AbandonCommit, Open, InGate, AfterPut
    <2>2. request[q].key \in Keys
      BY <2>1, OpenTyped
    <2>3. request' \in [Requests -> RequestRow] /\ \A x \in Requests : RequestStep(x)
      BY <2>1, RefusedStep DEF Registered
    <2>4. request'[q].state # "committing"
      BY <2>1, RefusedFields DEF Registered, AfterPut
    <2> QED BY <2>1, <2>2, <2>3, <2>4 DEF Registered, TypeOK, Steps, UploadStep, LateStep
  <1>2. ASSUME NEW k \in Keys, LateCommit(k) PROVE Steps
    <2>1. Locked(k) /\ ~Locked(k)' /\ Accepted(k, upload[k].content)
            /\ late' = late \ {k} /\ UNCHANGED <<objects, request, faults>>
      BY <1>2 DEF LateCommit, Locked, Registered, Locks
    <2> QED BY <2>1, AcceptedSteps DEF Registered, TypeOK, Steps, LateStep, RequestStep
  <1>3. ASSUME NEW k \in Keys, LateRollback(k) PROVE Steps
    BY <1>3 DEF LateRollback, Registered, TypeOK, Steps, UploadStep, LateStep, RequestStep
  <1> QED BY <1>1, <1>2, <1>3

\* A process stops, or the 24 hours of a key end.
LEMMA OutsideSteps ==
  ASSUME Registered, (\E p \in Processes : Stop(p)) \/ (\E k \in Keys : Elapse(k))
  PROVE  Steps
  <1>1. ASSUME NEW p \in Processes, Stop(p) PROVE Steps
    <2>1. NoRequest \in RequestRow
      BY DEF NoRequest, RequestRow
    <2>2. request' \in [Requests -> RequestRow]
            /\ \A q \in Requests : request'[q] = request[q] \/ request'[q] = NoRequest
      BY <1>1, <2>1 DEF Stop, Registered, TypeOK
    <2>3. faults' \in Nat /\ UNCHANGED <<upload, versions, late, objects>>
      BY <1>1 DEF Stop, Registered, TypeOK
    <2> QED BY <2>2, <2>3 DEF Registered, TypeOK, Steps, UploadStep, LateStep, RequestStep
  <1>2. ASSUME NEW k \in Keys, Elapse(k) PROVE Steps
    <2>1. upload[k] \in UploadRow
      BY DEF Registered, TypeOK
    <2>2. [upload[k] EXCEPT !.elapsed = TRUE] \in UploadRow
      BY <2>1 DEF UploadRow
    <2>3. /\ upload' = [upload EXCEPT ![k] = [upload[k] EXCEPT !.elapsed = TRUE]]
          /\ upload[k].status # "ABSENT"
          /\ UNCHANGED <<versions, late, objects, request, faults>>
      BY <1>2 DEF Elapse
    <2>4. /\ upload' \in [Keys -> UploadRow]
          /\ upload'[k] = [upload[k] EXCEPT !.elapsed = TRUE]
          /\ \A x \in Keys \ {k} : upload'[x] = upload[x]
      BY <2>2, <2>3 DEF Registered, TypeOK
    <2>5. UploadStep
      <3>1. KeyStep(k)
        BY <2>3, <2>4 DEF KeyStep
      <3> QED BY <2>3, <2>4, <3>1 DEF UploadStep, SameKey
    <2> QED BY <2>3, <2>4, <2>5 DEF Registered, TypeOK, Steps, LateStep, RequestStep
  <1> QED BY <1>1, <1>2

\* Every step keeps to the lists.
LEMMA NextSteps == Registered /\ [Next]_vars => Steps
  <1> SUFFICES ASSUME Registered, [Next]_vars PROVE Steps
    OBVIOUS
  <1>1. CASE UNCHANGED vars
    BY <1>1 DEF vars, Registered, TypeOK, Steps, UploadStep, LateStep, RequestStep
  <1> QED BY <1>1, SubmitSteps, ReserveSteps, EarlySteps, CleanUpSteps, ExpireSteps, LockSteps,
             CommitSteps, LateSteps, OutsideSteps DEF Next, Register

-----------------------------------------------------------------------------
(* Keys, locks and answers.                                                *)

\* A key keeps its content, its one version and what is known of it.
LEMMA KeyStepKeeps ==
  ASSUME Registered, NEW k \in Keys, KeyStep(k) \/ SameKey(k), upload'[k] \in UploadRow
  PROVE  /\ IF upload'[k].status = "ABSENT" THEN upload'[k] = NoUpload
                                             ELSE upload'[k].content \in Contents
         /\ upload[k].content \in Contents => upload'[k].content = upload[k].content
         /\ upload'[k].status = "ACCEPTED" => upload'[k].version = upload'[k].content
         /\ \A c \in Contents :
              versions'[k][c] = IF upload'[k].status = "ACCEPTED" /\ upload'[k].content = c
                                THEN 1 ELSE 0
         /\ \A c \in Contents : versions[k][c] = 1 => versions'[k][c] = 1
         /\ Locked(k) /\ Locked(k)' => upload'[k].status = upload[k].status
  <1> DEFINE u == upload[k]
  <1>1. /\ u \in UploadRow /\ versions[k] \in [Contents -> Nat]
        /\ IF u.status = "ABSENT" THEN u = NoUpload ELSE u.content \in Contents
        /\ u.status = "ACCEPTED" => u.version = u.content
        /\ \A c \in Contents :
             versions[k][c] = IF u.status = "ACCEPTED" /\ u.content = c THEN 1 ELSE 0
        /\ Locked(k) => u.status = "PENDING"
    BY DEF Registered, TypeOK, Bound, KeyRegistersOnce, Locks, Locked
  <1>2. CASE SameKey(k)
    BY <1>1, <1>2 DEF SameKey
  <1>3. CASE u.status = "ABSENT" /\ (\E c \in Contents : upload'[k] = Pending(c))
               /\ versions'[k] = versions[k]
    <2>1. PICK c \in Contents : upload'[k] = Pending(c)
      BY <1>3
    <2>2. upload'[k].status = "PENDING" /\ upload'[k].content = c
      BY <2>1 DEF Pending, NoUpload
    <2>3. u.content = None
      BY <1>1, <1>3 DEF NoUpload
    <2> QED BY <1>1, <1>3, <2>2, <2>3, RegistrationAssumption
  <1>4. CASE u.status = "PENDING" /\ ~Locked(k) /\ versions'[k] = versions[k]
               /\ upload'[k] = [u EXCEPT !.status = "EXPIRED", !.elapsed = TRUE]
    <2>1. upload'[k].status = "EXPIRED" /\ upload'[k].content = u.content
      BY <1>1, <1>4 DEF UploadRow
    <2> QED BY <1>1, <1>4, <2>1
  <1>5. CASE /\ u.status = "PENDING" /\ Locked(k)
             /\ upload'[k] = [u EXCEPT !.status = "ACCEPTED", !.version = u.content]
             /\ versions'[k] = [versions[k] EXCEPT ![u.content] = @ + 1]
             /\ ~Locked(k)'
    <2>1. upload'[k].status = "ACCEPTED" /\ upload'[k].content = u.content
            /\ upload'[k].version = u.content
      BY <1>1, <1>5 DEF UploadRow
    <2>2. \A c \in Contents : versions'[k][c] = IF c = u.content THEN 1 ELSE 0
      <3>1. \A c \in Contents : versions[k][c] = 0
        BY <1>1, <1>5
      <3> HIDE DEF u
      <3> QED BY <1>1, <1>5, <3>1
    <2> QED BY <1>1, <1>5, <2>1, <2>2
  <1>6. CASE u.status # "ABSENT" /\ upload'[k] = [u EXCEPT !.elapsed = TRUE]
               /\ versions'[k] = versions[k]
    <2>1. upload'[k].status = u.status /\ upload'[k].content = u.content
            /\ upload'[k].version = u.version
      BY <1>1, <1>6 DEF UploadRow
    <2> QED BY <1>1, <1>6, <2>1
  <1> QED BY <1>2, <1>3, <1>4, <1>5, <1>6 DEF KeyStep

\* The same of every key.
LEMMA KeysKeep ==
  ASSUME Registered, Steps, NEW k \in Keys
  PROVE  /\ IF upload'[k].status = "ABSENT" THEN upload'[k] = NoUpload
                                             ELSE upload'[k].content \in Contents
         /\ upload[k].content \in Contents => upload'[k].content = upload[k].content
         /\ upload'[k].status = "ACCEPTED" => upload'[k].version = upload'[k].content
         /\ \A c \in Contents :
              versions'[k][c] = IF upload'[k].status = "ACCEPTED" /\ upload'[k].content = c
                                THEN 1 ELSE 0
         /\ \A c \in Contents : versions[k][c] = 1 => versions'[k][c] = 1
         /\ Locked(k) /\ Locked(k)' => upload'[k].status = upload[k].status
  <1>1. KeyStep(k) \/ SameKey(k)
    BY DEF Steps, UploadStep, SameKey
  <1>2. upload'[k] \in UploadRow
    BY DEF Steps, TypeOK
  <1> QED BY <1>1, <1>2, KeyStepKeeps

\* Bound is kept.
LEMMA BoundKept == Registered /\ Steps => Bound'
  <1> SUFFICES ASSUME Registered, Steps PROVE Bound'
    OBVIOUS
  <1>1. ASSUME NEW q \in Requests, request'[q].state \in Open
        PROVE  /\ request'[q].process \in Processes
               /\ request'[q].key \in Keys
               /\ request'[q].content \in Contents
               /\ request'[q].state # "reserving" =>
                    upload'[request'[q].key].content = request'[q].content
    <2>1. RequestStep(q)
      BY DEF Steps
    <2>2. CASE request'[q] = request[q]
      BY <1>1, <2>2, KeysKeep, OpenTyped
    <2>3. CASE request'[q] = NoRequest
      BY <1>1, <2>3 DEF NoRequest, Open, InGate, AfterPut, CleanUp
    <2>4. CASE \E p \in Processes, k \in Keys, c \in Contents :
                 request'[q] = [state |-> "reserving", process |-> p, key |-> k, content |-> c,
                                answer |-> None]
      BY <2>4
    <2>5. CASE /\ request[q].state \in Open /\ Kept(q)
               /\ request'[q].state \in Open \ {"reserving", "committing"}
               /\ upload'[request[q].key].content = request[q].content
      BY <2>5, OpenTyped DEF Kept
    <2>6. CASE /\ request[q].state \in Open /\ Kept(q)
               /\ request[q].state \in {"locking", "blocked"}
               /\ UNCHANGED upload
      BY <2>6, OpenTyped DEF Kept
    <2>7. CASE request'[q].state = "answered"
      BY <1>1, <2>7 DEF Open, InGate, AfterPut, CleanUp
    <2> QED BY <2>1, <2>2, <2>3, <2>4, <2>5, <2>6, <2>7 DEF RequestStep
  <1> QED BY <1>1, KeysKeep DEF Bound

\* Locks are kept.
LEMMA LocksKept == Registered /\ Steps => Locks'
  <1> SUFFICES ASSUME Registered, Steps PROVE Locks'
    OBVIOUS
  <1>1. ASSUME NEW q \in Requests, request'[q].state = "committing"
        PROVE  \/ request'[q] = request[q]
               \/ /\ request[q].state \in Open /\ Kept(q)
                  /\ upload[request[q].key].status = "PENDING" /\ ~Locked(request[q].key)
                  /\ UNCHANGED <<upload, late>>
                  /\ \A x \in Requests \ {q} : request'[x] = request[x]
    <2>1. RequestStep(q)
      BY DEF Steps
    <2>2. request'[q] # NoRequest
      BY <1>1 DEF NoRequest
    <2>3. ASSUME NEW p \in Processes, NEW k \in Keys, NEW c \in Contents,
                 request'[q] = [state |-> "reserving", process |-> p, key |-> k, content |-> c,
                                answer |-> None]
          PROVE  FALSE
      BY <1>1, <2>3
    <2> QED BY <1>1, <2>1, <2>2, <2>3 DEF RequestStep
  <1>2. ASSUME NEW k \in late' PROVE Locked(k) /\ Locked(k)'
    BY <1>2 DEF Steps, LateStep, Locked
  <1>3. \A k \in late' : k \in Keys /\ upload'[k].status = "PENDING"
    <2> SUFFICES ASSUME NEW k \in late' PROVE k \in Keys /\ upload'[k].status = "PENDING"
      OBVIOUS
    <2>1. k \in Keys
      BY DEF Steps, TypeOK
    <2> QED BY <1>2, <2>1, KeysKeep DEF Registered, Locks, Locked
  <1>4. ASSUME NEW q \in Requests, request'[q].state = "committing"
        PROVE  /\ upload'[request'[q].key].status = "PENDING"
               /\ request'[q].key \notin late'
               /\ \A x \in Requests : request'[x].state = "committing"
                                         /\ request'[x].key = request'[q].key => x = q
    <2>1. CASE request'[q] = request[q]
      <3>0. PICK k \in Keys : k = request[q].key
        BY <1>4, <2>1, OpenTyped DEF Open, InGate, AfterPut
      <3>1. Locked(k) /\ Locked(k)'
        BY <1>4, <2>1, <3>0 DEF Locked
      <3>2. upload'[k].status = "PENDING"
        BY <1>4, <2>1, <3>0, <3>1, KeysKeep DEF Registered, Locks
      <3>3. k \notin late'
        BY <1>4, <2>1, <3>0 DEF Registered, Locks, Steps, LateStep
      <3>4. ASSUME NEW x \in Requests, request'[x].state = "committing", request'[x].key = k
            PROVE  x = q
        BY <1>1, <1>4, <2>1, <3>0, <3>1, <3>4 DEF Registered, Locks, Kept
      <3> QED BY <2>1, <3>0, <3>2, <3>3, <3>4
    <2>2. CASE request'[q] # request[q]
      <3>1. /\ Kept(q) /\ upload[request[q].key].status = "PENDING" /\ ~Locked(request[q].key)
            /\ UNCHANGED <<upload, late>>
            /\ \A x \in Requests \ {q} : request'[x] = request[x]
        BY <1>1, <1>4, <2>2
      <3> QED BY <3>1 DEF Kept, Locked
    <2> QED BY <2>1, <2>2
  <1> QED BY <1>3, <1>4 DEF Locks

\* A key registers at most one version.
LEMMA KeysKept == Registered /\ Steps => KeyRegistersOnce'
  BY KeysKeep DEF KeyRegistersOnce

\* The layer holds in every state.
LEMMA RegisteredAlways == Spec => []Registered
  <1>1. Init => Registered
    BY RegistrationAssumption
       DEF Init, Registered, TypeOK, Bound, Locks, KeyRegistersOnce, NoUpload, NoRequest,
           UploadRow, RequestRow, Open, InGate, AfterPut, CleanUp
  <1>2. Registered /\ [Next]_vars => Registered'
    BY NextSteps, BoundKept, LocksKept, KeysKept DEF Registered, Steps
  <1> QED BY <1>1, <1>2, PTL DEF Spec

\* The rows, locks and requests of the registration keep their types.
THEOREM RegistrationTyped == Spec => []TypeOK
  BY RegisteredAlways, PTL DEF Registered

\* However often a request is sent, by whatever processes, and however its
\* transactions end, its key registers one version at most, of its content.
THEOREM KeysRegisterOnce == Spec => []KeyRegistersOnce
  BY RegisteredAlways, PTL DEF Registered

-----------------------------------------------------------------------------
(* Answers.                                                                *)

\* AnswersAreTrue, of requests whose key is a key.
Answers ==
  \A q \in Requests : request[q].answer \in Contents =>
    /\ request[q].key \in Keys
    /\ request[q].answer = request[q].content
    /\ versions[request[q].key][request[q].answer] = 1

\* An answer that named a version goes on naming it.
LEMMA AnswersKept == Registered /\ Answers /\ Steps => Answers'
  <1> SUFFICES ASSUME Registered, Answers, Steps,
                      NEW q \in Requests, request'[q].answer \in Contents
               PROVE  /\ request'[q].key \in Keys
                      /\ request'[q].answer = request'[q].content
                      /\ versions'[request'[q].key][request'[q].answer] = 1
    BY DEF Answers
  <1>1. RequestStep(q) /\ request'[q] # NoRequest
    BY RegistrationAssumption DEF Steps, NoRequest
  <1>2. ASSUME NEW p \in Processes, NEW k \in Keys, NEW c \in Contents,
               request'[q] = [state |-> "reserving", process |-> p, key |-> k, content |-> c,
                              answer |-> None]
        PROVE  FALSE
    BY <1>2, RegistrationAssumption
  <1>3. CASE request'[q].answer = request[q].answer /\ (request'[q] = request[q] \/ Kept(q))
    BY <1>3, KeysKeep DEF Answers, Kept
  <1>4. CASE /\ request[q].state \in Open /\ Kept(q)
             /\ request'[q].answer = request[q].content
             /\ versions'[request[q].key][request[q].content] = 1
    BY <1>4, OpenTyped DEF Kept
  <1>5. request'[q].answer \notin {"refused", "empty"}
    BY RegistrationAssumption
  <1> QED BY <1>1, <1>2, <1>3, <1>4, <1>5 DEF RequestStep

\* Whoever is told a version is told the one version of the request's key,
\* and it is of the request's content.
THEOREM AnswersCorrect == Spec => []AnswersAreTrue
  <1>1. Init => Answers
    BY RegistrationAssumption DEF Init, Answers, NoRequest
  <1>2. Registered /\ Answers /\ [Next]_vars => Answers'
    BY NextSteps, AnswersKept
  <1>3. Answers => AnswersAreTrue
    BY DEF Answers, AnswersAreTrue
  <1> QED BY <1>1, <1>2, <1>3, RegisteredAlways, PTL DEF Spec

-----------------------------------------------------------------------------
(* The refinement.                                                         *)

KnownOutcome(status) ==
  IF status = "ACCEPTED" THEN "registered" ELSE IF status = "EXPIRED" THEN "rejected" ELSE "open"

\* The outcome of a key is its row's status.
LEMMA OutcomeNow ==
  ASSUME Registered, NEW k \in Keys
  PROVE  Outcome(k) = KnownOutcome(upload[k].status)
  BY DEF Registered, Bound, KeyRegistersOnce, Outcome, KnownOutcome, NoUpload

\* Also after a step.
LEMMA OutcomeNext ==
  ASSUME Registered, Steps, NEW k \in Keys
  PROVE  Outcome(k)' = KnownOutcome(upload'[k].status)
  BY KeysKeep DEF Outcome, KnownOutcome, NoUpload

Binding == [k \in Keys |-> upload[k].content]
Outcomes == [k \in Keys |-> Outcome(k)]

\* Every step binds or settles one key, or none.
LEMMA RefinesPromise == Registered /\ Steps => [Promise!Next]_<<Binding, Outcomes>>
  <1> SUFFICES ASSUME Registered, Steps PROVE [Promise!Next]_<<Binding, Outcomes>>
    OBVIOUS
  <1>1. ASSUME \A k \in Keys : upload'[k].content = upload[k].content
                              /\ KnownOutcome(upload'[k].status) = KnownOutcome(upload[k].status)
        PROVE  UNCHANGED <<Binding, Outcomes>>
    BY <1>1, OutcomeNow, OutcomeNext DEF Binding, Outcomes
  <1>2. CASE UNCHANGED <<upload, versions>>
    BY <1>1, <1>2
  <1>3. ASSUME NEW k \in Keys, KeyStep(k), \A x \in Keys \ {k} : SameKey(x)
        PROVE  [Promise!Next]_<<Binding, Outcomes>>
    <2>1. \A x \in Keys \ {k} : upload'[x].content = upload[x].content
                                /\ Outcome(x)' = Outcome(x)
      BY <1>3, OutcomeNow, OutcomeNext DEF SameKey
    <2>2. upload[k] \in UploadRow
      BY DEF Registered, TypeOK
    <2>3. CASE upload[k].status = "ABSENT" /\ \E c \in Contents : upload'[k] = Pending(c)
      <3>1. PICK c \in Contents : upload'[k] = Pending(c)
        BY <2>3
      <3>2. upload'[k].status = "PENDING" /\ upload'[k].content = c /\ upload[k].content = None
        <4>1. upload'[k].status = "PENDING" /\ upload'[k].content = c
          BY <3>1 DEF Pending, NoUpload
        <4>2. upload[k] = NoUpload
          BY <2>3 DEF Registered, Bound
        <4> QED BY <4>1, <4>2 DEF NoUpload
      <3>3. Outcome(k) = "open" /\ Outcome(k)' = "open"
        BY <2>3, <3>2, OutcomeNow, OutcomeNext DEF KnownOutcome
      <3>4. Binding' = [Binding EXCEPT ![k] = c] /\ Outcomes' = Outcomes /\ Binding[k] = None
        BY <2>1, <3>2, <3>3 DEF Binding, Outcomes
      <3>5. Promise!Bind(k, c)
        BY <3>4 DEF Promise!Bind, Binding, Outcomes
      <3> QED BY <3>5 DEF Promise!Next
    <2>4. CASE /\ upload[k].status = "PENDING"
               /\ upload'[k].status \in {"EXPIRED", "ACCEPTED"}
               /\ upload'[k].content = upload[k].content
      <3>1. PICK result \in {"registered", "rejected"} : Outcome(k)' = result
        BY <2>4, OutcomeNext DEF KnownOutcome
      <3>2. Outcome(k) = "open" /\ upload[k].content # None
        BY <2>4, OutcomeNow, RegistrationAssumption DEF KnownOutcome, Registered, Bound
      <3>3. Binding' = Binding /\ Outcomes' = [Outcomes EXCEPT ![k] = result]
        BY <2>1, <2>4, <3>1 DEF Binding, Outcomes
      <3>4. Promise!Settle(k, result)
        BY <3>2, <3>3 DEF Promise!Settle, Binding, Outcomes
      <3> QED BY <3>4 DEF Promise!Next
    <2>5. CASE upload'[k].status = upload[k].status /\ upload'[k].content = upload[k].content
      BY <1>1, <1>3, <2>5 DEF SameKey
    <2> QED BY <1>3, <2>2, <2>3, <2>4, <2>5 DEF KeyStep, UploadRow
  <1> QED BY <1>2, <1>3 DEF Steps, UploadStep

\* Whatever is lost, repeated or interrupted, the keys of requests behave as
\* RequestKeys says: bound once, settled once, each for ever.
THEOREM RegistrationImplementsKeys == Spec => ImplementsRequestKeys
  <1>1. Init => Promise!Init
    BY DEF Init, Promise!Init, Outcome, NoUpload
  <1>2. Registered /\ [Next]_vars => [Promise!Next]_(Promise!vars)
    BY NextSteps, RefinesPromise DEF Binding, Outcomes, Promise!vars
  <1> QED BY <1>1, <1>2, RegisteredAlways, PTL DEF Spec, ImplementsRequestKeys, Promise!Spec

-----------------------------------------------------------------------------
(* Originals.                                                              *)

\* Referenced after the step.
Refers(c) == \E k \in Keys : versions'[k][c] > 0

\* What a request's own step does to its place in Service.Register, to the
\* objects and to what they are referred to by.
Move(q) ==
  /\ Kept(q)
  /\ \A x \in Requests \ {q} : request'[x] = request[x]
  /\ late' = late \/ LateCommits
  /\ faults' \in {faults, faults + 1}
  /\ \A c \in Contents : Refers(c) =>
       Referenced(c) \/ (request[q].state = "committing" /\ c = request[q].content)
  /\ LET from == request[q].state
         to == request'[q].state
         c == request[q].content
     IN
     \/ from \in Open \ InGate /\ to \notin InGate /\ UNCHANGED objects
     \/ from = "waiting" /\ to = "storing" /\ ~GateTaken(request[q].process) /\ UNCHANGED objects
     \/ from = "storing" /\ to = "registering" /\ objects' = objects \cup {c}
     \/ from = "storing" /\ to = "answered" /\ UNCHANGED objects
     \/ from = "storing" /\ to = "answered" /\ objects' = objects \cup {c} /\ faults' = faults + 1
     \/ from \in AfterPut /\ to \in AfterPut \cup {"checking"} /\ UNCHANGED objects
     \/ from \in AfterPut /\ to = "answered" /\ Refers(c) /\ UNCHANGED objects
     \/ from = "checking" /\ to = "answered" /\ Refers(c) /\ UNCHANGED objects
     \/ from = "checking" /\ to = "removing" /\ ~Referenced(c) /\ UNCHANGED objects
     \/ from = "removing" /\ to = "answered" /\ objects' = objects \ {c}
     \/ from \in CleanUp /\ to = "answered" /\ UNCHANGED objects /\ faults' = faults + 1

\* The steps outside the transaction.
LEMMA OuterMoves ==
  ASSUME Registered, NEW q \in Requests,
         Parse(q) \/ Expire(q) \/ EnterGate(q) \/ Put(q) \/ PutUnsynced(q)
           \/ Check(q) \/ Remove(q) \/ CleanUpFails(q) \/ CallFails(q)
  PROVE  Move(q)
  <1> USE DEF Open, InGate, AfterPut, CleanUp, Referenced, Refers
  <1>t. TypeOK /\ faults + 1 \in Nat
    BY DEF Registered, TypeOK
  <1>1. CASE Parse(q)
    BY <1>1, <1>t, GoesFields DEF Parse, Move
  <1>2. CASE Expire(q)
    BY <1>2, <1>t, AnsweredFields DEF Expire, Move
  <1>3. CASE EnterGate(q)
    BY <1>3, <1>t, GoesFields DEF EnterGate, Move
  <1>4. CASE Put(q)
    BY <1>4, <1>t, GoesFields DEF Put, Move
  <1>5. CASE PutUnsynced(q)
    BY <1>5, <1>t, RefusedFields DEF PutUnsynced, Move
  <1>6. CASE Check(q)
    <2>1. CASE Referenced(request[q].content) /\ Answered(q, "refused")
      BY <1>6, <1>t, <2>1, AnsweredFields DEF Check, Move
    <2>2. CASE ~Referenced(request[q].content) /\ Goes(q, "removing")
      BY <1>6, <1>t, <2>2, GoesFields DEF Check, Move
    <2> QED BY <1>6, <2>1, <2>2 DEF Check
  <1>7. CASE Remove(q)
    BY <1>7, <1>t, AnsweredFields DEF Remove, Move
  <1>8. CASE CleanUpFails(q)
    BY <1>8, <1>t, AnsweredFields DEF CleanUpFails, Move
  <1>9. CASE CallFails(q)
    BY <1>9, <1>t, RefusedFields DEF CallFails, Move
  <1> QED BY <1>1, <1>2, <1>3, <1>4, <1>5, <1>6, <1>7, <1>8, <1>9

\* A key that is accepted refers to its content.
LEMMA AcceptedReferenced ==
  ASSUME Registered, NEW k \in Keys, upload[k].status = "ACCEPTED"
  PROVE  upload[k].content \in Contents /\ upload[k].version = upload[k].content
           /\ Referenced(upload[k].content)
  BY DEF Registered, Bound, KeyRegistersOnce, Referenced

\* The reservations, before parsing and in Store.Register.
LEMMA ReserveMoves ==
  ASSUME Registered, NEW q \in Requests, Reserve(q) \/ ReserveLost(q)
  PROVE  Move(q)
  <1> USE DEF Open, InGate, AfterPut, CleanUp
  <1> DEFINE k == request[q].key
             c == request[q].content
             u == Inserted(k, c)
  <1>t. TypeOK
    BY DEF Registered
  <1>1. /\ request[q].state \in {"reserving", "registering"}
        /\ UNCHANGED <<versions, late, objects, faults>>
        /\ k \in Keys /\ c \in Contents
    BY OpenTyped DEF Reserve, ReserveLost
  <1>2. \A x \in Contents : Refers(x) <=> Referenced(x)
    BY <1>1 DEF Referenced, Refers
  <1>3. CASE Refused(q)
    BY <1>t, <1>1, <1>2, <1>3, RefusedFields DEF Move
  <1>4. CASE SameIdentity(u, c) /\ u.status = "ACCEPTED" /\ Answered(q, u.version)
    <2>1. upload[k].status = "ACCEPTED" /\ u = upload[k]
      BY <1>1, <1>4, InsertedFields
    <2>2. Referenced(c) /\ u.version \in Contents
      BY <1>1, <1>4, <2>1, AcceptedReferenced DEF SameIdentity
    <2> QED BY <1>t, <1>1, <1>2, <1>4, <2>2, AnsweredFields DEF Move
  <1>5. CASE Goes(q, IF request[q].state = "reserving" THEN "parsing" ELSE "locking")
    BY <1>t, <1>1, <1>2, <1>5, GoesFields DEF Move
  <1> QED BY <1>3, <1>4, <1>5 DEF Reserve, ReserveLost

\* The steps of the transaction.
LEMMA TransactionMoves ==
  ASSUME Registered, NEW q \in Requests,
         Lock(q) \/ Unblock(q) \/ Commit(q) \/ AbandonCommit(q)
  PROVE  Move(q)
  <1> USE DEF Open, InGate, AfterPut, CleanUp
  <1> DEFINE k == request[q].key
             c == request[q].content
  <1>t. TypeOK
    BY DEF Registered
  <1>1. k \in Keys /\ c \in Contents /\ upload[k].content = c /\ request[q].state \in AfterPut
          /\ UNCHANGED <<objects, faults>>
    BY OpenTyped DEF Lock, Unblock, Commit, AbandonCommit
  <1>2. CASE Lock(q) \/ Unblock(q)
    <2>1. UNCHANGED <<versions, late>> /\ \A x \in Contents : Refers(x) <=> Referenced(x)
      BY <1>2 DEF Lock, Unblock, Referenced, Refers
    <2>2. CASE Refused(q)
      BY <1>t, <1>1, <2>1, <2>2, RefusedFields DEF Move
    <2>3. CASE Goes(q, "blocked") \/ Goes(q, "committing")
      BY <1>t, <1>1, <2>1, <2>3, GoesFields DEF Move
    <2>4. CASE upload[k].status = "ACCEPTED" /\ (Answered(q, "empty") \/ Answered(q, upload[k].version))
      BY <1>t, <1>1, <2>1, <2>4, AcceptedReferenced, AnsweredFields DEF Move
    <2> QED BY <1>2, <2>2, <2>3, <2>4 DEF Lock, Unblock, Found
  <1>3. CASE Commit(q)
    <2>1. request[q].state = "committing" /\ Accepted(k, c) /\ UNCHANGED late
      BY <1>3 DEF Commit
    <2>2. \A x \in Keys, y \in Contents :
            versions'[x][y] = IF x = k /\ y = c THEN versions[x][y] + 1 ELSE versions[x][y]
      <3> HIDE DEF k, c
      <3> QED BY <1>t, <1>1, <2>1 DEF Accepted, TypeOK
    <2>3. ASSUME NEW y \in Contents
          PROVE  Refers(y) <=> Referenced(y) \/ y = c
      <3>1. \A x \in Keys : versions[x][y] \in Nat
        BY <1>t DEF TypeOK
      <3> HIDE DEF k, c
      <3> QED BY <1>1, <2>2, <3>1 DEF Referenced, Refers
    <2>4. CASE Answered(q, c)
      BY <1>t, <1>1, <2>1, <2>3, <2>4, AnsweredFields DEF Move
    <2>5. CASE Refused(q)
      BY <1>t, <1>1, <2>1, <2>3, <2>5, RefusedFields DEF Move
    <2> QED BY <1>3, <2>4, <2>5 DEF Commit
  <1>4. CASE AbandonCommit(q)
    BY <1>t, <1>1, <1>4, RefusedFields DEF AbandonCommit, Move, Referenced, Refers
  <1> QED BY <1>2, <1>3, <1>4

\* Every step is a request's own, or leaves the objects and keeps what refers
\* to them, but for a commit whose caller has gone.
LEMMA NextMoves ==
  ASSUME Registered, [Next]_vars
  PROVE  \/ \E q \in Requests : Move(q)
         \/ /\ UNCHANGED objects /\ late' \subseteq late
            /\ faults' \in {faults, faults + 1}
            /\ \A c \in Contents : Referenced(c) => Refers(c)
            /\ late = {} => \A c \in Contents : Refers(c) => Referenced(c)
            /\ \A q \in Requests :
                 \/ request'[q] = request[q]
                 \/ request'[q] = NoRequest /\ faults' = faults + 1
                 \/ request[q].state \notin Open /\ request'[q].state = "reserving"
  <1> USE DEF Referenced, Refers
  <1>1. CASE UNCHANGED vars
    BY <1>1 DEF vars
  <1>2. ASSUME NEW q \in Requests, Register(q) PROVE Move(q)
    BY <1>2, OuterMoves, ReserveMoves, TransactionMoves DEF Register
  <1>3. ASSUME NEW q \in Requests, NEW p \in Processes, NEW k \in Keys, NEW c \in Contents,
               Submit(q, p, k, c)
        PROVE  /\ UNCHANGED <<versions, objects, late, faults>>
               /\ request[q].state \notin Open /\ request'[q].state = "reserving"
               /\ \A x \in Requests \ {q} : request'[x] = request[x]
    BY <1>3 DEF Submit, Registered, TypeOK
  <1>4. ASSUME NEW k \in Keys, LateCommit(k)
        PROVE  /\ UNCHANGED <<objects, request, faults>> /\ late' \subseteq late /\ late # {}
               /\ \A c \in Contents : Referenced(c) => Refers(c)
    <2>1. ASSUME NEW x \in Keys, NEW c \in Contents, versions[x][c] > 0
          PROVE  versions'[x][c] > 0
      BY <1>4, <2>1 DEF LateCommit, Accepted, Registered, TypeOK
    <2> QED BY <1>4, <2>1 DEF LateCommit
  <1>5. ASSUME NEW k \in Keys, LateRollback(k) \/ Elapse(k)
        PROVE  UNCHANGED <<versions, objects, request, faults>> /\ late' \subseteq late
    BY <1>5 DEF LateRollback, Elapse
  <1>6. ASSUME NEW p \in Processes, Stop(p)
        PROVE  /\ UNCHANGED <<versions, objects, late>> /\ faults' = faults + 1
               /\ \A q \in Requests : request'[q] = request[q] \/ request'[q] = NoRequest
    BY <1>6 DEF Stop
  <1>7. CASE \E q \in Requests, p \in Processes, k \in Keys, c \in Contents : Submit(q, p, k, c)
    BY <1>3, <1>7
  <1>8. CASE \E k \in Keys : LateCommit(k)
    BY <1>4, <1>8
  <1>9. CASE \E k \in Keys : LateRollback(k) \/ Elapse(k)
    BY <1>5, <1>9
  <1>10. CASE \E p \in Processes : Stop(p)
    BY <1>6, <1>10
  <1> QED BY <1>1, <1>2, <1>7, <1>8, <1>9, <1>10 DEF Next

\* A content goes on being referred to.
LEMMA ReferencedKept ==
  ASSUME Registered, [Next]_vars, NEW c \in Contents, Referenced(c)
  PROVE  Refers(c)
  <1>1. PICK k \in Keys : versions[k][c] > 0
    BY DEF Referenced
  <1>2. versions[k][c] = 1
    BY <1>1 DEF Registered, KeyRegistersOnce
  <1> QED BY <1>2, NextSteps, KeysKeep DEF Refers

\* Without stops and failed clean-ups, every original belongs to a version or
\* to a request that will register or remove it.
THEOREM NothingLeftOver == Spec => []NoOriginalLeftOver
  <1> DEFINE Holder(q, c) == request[q].content = c /\ request[q].state \in AfterPut \cup CleanUp
  <1>1. Init => NoOriginalLeftOver
    BY DEF Init, NoOriginalLeftOver
  <1>2. ASSUME Registered, NoOriginalLeftOver, [Next]_vars, faults' = 0, NEW c \in objects'
        PROVE  Refers(c) \/ \E q \in Requests : /\ request'[q].content = c
                                                /\ request'[q].state \in AfterPut \cup CleanUp
    <2>1. c \in Contents /\ faults \in Nat
      BY <1>2, NextSteps DEF Steps, TypeOK, Registered
    <2>2. CASE \E q \in Requests : Move(q)
      <3>1. PICK q \in Requests : Move(q)
        BY <2>2
      <3>2. faults = 0
        BY <1>2, <2>1, <3>1 DEF Move
      <3>3. CASE c \notin objects
        BY <1>2, <2>1, <3>1, <3>2, <3>3 DEF Move, Kept, AfterPut
      <3>4. CASE Referenced(c)
        BY <1>2, <2>1, <3>4, ReferencedKept
      <3>5. ASSUME NEW x \in Requests, x # q, Holder(x, c)
            PROVE  request'[x] = request[x]
        BY <3>1, <3>5 DEF Move
      <3>6. CASE Holder(q, c)
        BY <1>2, <2>1, <3>1, <3>2, <3>6 DEF Move, Kept, Open, InGate, AfterPut, CleanUp
      <3> QED BY <1>2, <3>2, <3>3, <3>4, <3>5, <3>6 DEF NoOriginalLeftOver
    <2>3. CASE /\ UNCHANGED objects /\ faults' \in {faults, faults + 1}
               /\ \A q \in Requests :
                    \/ request'[q] = request[q]
                    \/ request'[q] = NoRequest /\ faults' = faults + 1
                    \/ request[q].state \notin Open /\ request'[q].state = "reserving"
      <3>1. faults = 0 /\ c \in objects /\ faults' # faults + 1
        BY <1>2, <2>1, <2>3
      <3>2. ASSUME NEW x \in Requests, Holder(x, c)
            PROVE  request'[x] = request[x]
        BY <2>3, <3>1, <3>2 DEF Open, InGate
      <3> QED BY <1>2, <2>1, <3>1, <3>2, ReferencedKept DEF NoOriginalLeftOver
    <2> QED BY <1>2, <2>2, <2>3, NextMoves
  <1>3. Registered /\ NoOriginalLeftOver /\ [Next]_vars => NoOriginalLeftOver'
    BY <1>2 DEF NoOriginalLeftOver, Refers, Referenced
  <1> QED BY <1>1, <1>3, RegisteredAlways, PTL DEF Spec

\* One web process, whose transactions end before its calls do.
OneProcess == LateCommits = FALSE /\ \A p, r \in Processes : p = r

\* One request at a time is past the gate; its original is on disk until its
\* clean-up removes it, which it does only while nothing refers to it.
Gated ==
  /\ late = {}
  /\ \A q \in Requests : request[q].state \in InGate =>
       \A x \in Requests : request[x].state \in InGate => x = q
  /\ \A q \in Requests :
       /\ request[q].state \in AfterPut => request[q].content \in objects
       /\ request[q].state = "removing" => ~Referenced(request[q].content)
  /\ OriginalsKept

\* Gated is kept.
LEMMA GatedKept ==
  ASSUME OneProcess
  PROVE  Registered /\ Gated /\ [Next]_vars => Gated'
  <1> SUFFICES ASSUME Registered, Gated, [Next]_vars PROVE Gated'
    OBVIOUS
  <1> USE DEF Open, InGate, AfterPut, CleanUp
  <1>1. ASSUME NEW c \in Contents, Referenced(c) PROVE Refers(c) /\ c \in objects
    BY <1>1, ReferencedKept DEF Gated, OriginalsKept
  <1>2. CASE \E q \in Requests : Move(q)
    <2>1. PICK q \in Requests : Move(q)
      BY <1>2
    <2>2. PICK c : c = request[q].content
      OBVIOUS
    <2>3. \A x \in Requests \ {q} : request'[x] = request[x]
      BY <2>1 DEF Move
    <2>4. request'[q].content = c /\ request'[q].process = request[q].process
      BY <2>1, <2>2 DEF Move, Kept
    <2>5. late' = {}
      BY <2>1 DEF Move, Gated, OneProcess
    <2>6. ASSUME NEW x \in Requests, NEW y \in Requests,
                 request'[x].state \in InGate, request'[y].state \in InGate
          PROVE  x = y
      <3>1. CASE request[q].state \in InGate
        BY <2>3, <2>6, <3>1 DEF Gated
      <3>2. CASE request[q].state \notin InGate /\ request'[q].state \in InGate
        <4>1. request[q].state = "waiting" /\ ~GateTaken(request[q].process)
          BY <2>1, <3>2 DEF Move
        <4>2. ASSUME NEW z \in Requests, request[z].state \in InGate PROVE FALSE
          BY <4>1, <4>2, OpenTyped DEF OneProcess, GateTaken
        <4> QED BY <2>3, <2>6, <4>2
      <3>3. CASE request[q].state \notin InGate /\ request'[q].state \notin InGate
        BY <2>3, <2>6, <3>3 DEF Gated
      <3> QED BY <3>1, <3>2, <3>3
    <2>7. ASSUME request[q].state \in InGate, NEW x \in Requests, request[x].state \in InGate
          PROVE  x = q
      BY <2>7 DEF Gated
    <2>8. \A d \in Contents : Refers(d) =>
            Referenced(d) \/ (request[q].state = "committing" /\ d = c)
      BY <2>1, <2>2 DEF Move
    <2>9. ASSUME NEW x \in Requests, request'[x].state \in AfterPut
          PROVE  request'[x].content \in objects'
      <3>1. CASE x = q
        BY <2>1, <2>2, <2>4, <2>9, <3>1 DEF Move, Gated
      <3>2. CASE x # q
        BY <2>1, <2>2, <2>3, <2>7, <2>9, <3>2 DEF Move, Gated
      <3> QED BY <3>1, <3>2
    <2>10. ASSUME NEW x \in Requests, request'[x].state = "removing"
           PROVE  ~Refers(request'[x].content)
      <3>1. request'[x].content \in Contents
        BY <2>10, NextSteps, BoundKept DEF Bound
      <3>2. CASE x = q
        BY <2>1, <2>2, <2>4, <2>8, <2>10, <3>1, <3>2 DEF Move
      <3>3. CASE x # q
        BY <2>3, <2>7, <2>8, <2>10, <3>1, <3>3 DEF Gated
      <3> QED BY <3>2, <3>3
    <2>11. ASSUME NEW d \in Contents, Refers(d) PROVE d \in objects'
      <3>1. CASE Referenced(d)
        <4>1. d \in objects
          BY <1>1, <3>1
        <4>2. request[q].state = "removing" => d # c
          BY <2>2, <3>1 DEF Gated
        <4> QED BY <2>1, <2>2, <4>1, <4>2 DEF Move
      <3>2. CASE request[q].state = "committing" /\ d = c
        BY <2>1, <2>2, <3>2 DEF Move, Gated
      <3> QED BY <2>8, <2>11, <3>1, <3>2
    <2> QED BY <2>5, <2>6, <2>9, <2>10, <2>11 DEF Gated, OriginalsKept, Referenced, Refers
  <1>3. CASE /\ UNCHANGED objects /\ late' \subseteq late
             /\ late = {} => \A c \in Contents : Refers(c) => Referenced(c)
             /\ \A q \in Requests :
                  \/ request'[q] = request[q]
                  \/ request'[q] = NoRequest
                  \/ request'[q].state = "reserving"
    <2>1. late' = {} /\ \A c \in Contents : Refers(c) => Referenced(c)
      BY <1>3 DEF Gated
    <2>2. ASSUME NEW q \in Requests, request'[q].state \in InGate
          PROVE  request'[q] = request[q] /\ request[q].content \in Contents
      BY <1>3, <2>2, OpenTyped DEF NoRequest
    <2>3. \A q \in Requests : request'[q].state \in InGate =>
            \A x \in Requests : request'[x].state \in InGate => x = q
      BY <2>2 DEF Gated
    <2>4. \A q \in Requests :
            /\ request'[q].state \in AfterPut => request'[q].content \in objects'
            /\ request'[q].state = "removing" => ~Refers(request'[q].content)
      BY <1>3, <2>1, <2>2 DEF Gated
    <2>5. \A c \in Contents : Refers(c) => c \in objects'
      BY <1>1, <1>3, <2>1
    <2> QED BY <2>1, <2>3, <2>4, <2>5 DEF Gated, OriginalsKept, Referenced, Refers
  <1> QED BY <1>2, <1>3, NextMoves

\* In one web process whose transactions end before its calls do, the original
\* of a registered version is never removed.
THEOREM OriginalsSafe == ASSUME OneProcess PROVE Spec => []OriginalsKept
  <1>1. Init => Gated
    BY DEF Init, Gated, OriginalsKept, Referenced, NoRequest, InGate, AfterPut, CleanUp
  <1>2. Registered /\ Gated /\ [Next]_vars => Gated'
    BY GatedKept
  <1>3. Gated => OriginalsKept
    BY DEF Gated
  <1> QED BY <1>1, <1>2, <1>3, RegisteredAlways, PTL DEF Spec
=============================================================================
