---------------------------- MODULE Registration ----------------------------
(***************************************************************************)
(* The registration of an uploaded PDF: Service.Register of internal/      *)
(* modules/documents/service.go with the store calls it makes (internal/   *)
(* adapters/postgres/store.go) and the content-addressed store of the      *)
(* originals (internal/adapters/objectstore/store.go).                     *)
(*                                                                         *)
(* A request reserves its key, is parsed, passes the registration gate of  *)
(* its web process, puts the original on disk and then inserts the version *)
(* that refers to it; when the insert fails it asks whether any version    *)
(* refers to the original and removes it if none does.  Requests with the  *)
(* same key or the same content run at the same time, in one process or    *)
(* in several, and a client repeats a request whose answer it lost.        *)
(*                                                                         *)
(* The identity of a reservation (operation, target, digest and size) is   *)
(* one value, the content.  RunQueue has what the insert does to documents *)
(* and runs; here a version is the content it refers to.                   *)
(***************************************************************************)
EXTENDS Integers, FiniteSets

CONSTANTS
  Processes,    \* web processes, each with its own gate
  Requests,     \* requests that can be open at once
  Keys,         \* request keys
  Contents,     \* uploaded contents, and the objects they are stored as
  None,
  LateCommits,  \* a COMMIT may take effect after its caller has given up on it
  MaxFaults     \* bound: stopped processes, and failures in the clean-up

ASSUME RegistrationAssumption ==
  /\ None \notin Requests \cup Keys \cup Contents
  /\ {"refused", "empty"} \cap (Contents \cup {None}) = {}
  /\ LateCommits \in BOOLEAN
  /\ MaxFaults \in Nat

VARIABLES
  upload,    \* upload_request rows
  versions,  \* how many document_version rows a key has inserted, by content
  late,      \* keys whose transaction is still committing, its caller gone
  objects,   \* originals on disk
  request,   \* the requests in the web processes
  faults

vars == <<upload, versions, late, objects, request, faults>>

-----------------------------------------------------------------------------
(* elapsed: expires_at has passed.  version: what version_id refers to.    *)
UploadRow ==
  [status : {"ABSENT", "PENDING", "ACCEPTED", "EXPIRED"},
   content : Contents \cup {None}, version : Contents \cup {None}, elapsed : BOOLEAN]

NoUpload == [status |-> "ABSENT", content |-> None, version |-> None, elapsed |-> FALSE]

\* From the insert to the end of its transaction a request can fail in a way
\* that makes it clean up.
AfterPut == {"registering", "locking", "blocked", "committing"}
CleanUp  == {"checking", "removing"}

\* The gate is held from before Put to the return of Service.Register.
InGate == {"storing"} \cup AfterPut \cup CleanUp

Open == {"reserving", "parsing", "rejected", "waiting"} \cup InGate

\* "refused" is any error, "empty" a success that names no version.
RequestRow ==
  [state : {"idle", "answered"} \cup Open, process : Processes \cup {None},
   key : Keys \cup {None}, content : Contents \cup {None},
   answer : Contents \cup {None, "refused", "empty"}]

NoRequest ==
  [state |-> "idle", process |-> None, key |-> None, content |-> None, answer |-> None]

Referenced(c) == \E k \in Keys : versions[k][c] > 0

\* Locked by FOR UPDATE, until the transaction ends.
Locked(k) == k \in late \/ \E q \in Requests : request[q].state = "committing"
                                               /\ request[q].key = k

\* Mutant: no gate.
GateOpen(p) == FALSE

GateTaken(p) == \E q \in Requests : request[q].process = p /\ request[q].state \in InGate

-----------------------------------------------------------------------------
Goes(q, state) == request' = [request EXCEPT ![q].state = state]

Answered(q, answer) ==
  request' = [request EXCEPT ![q].state = "answered", ![q].answer = answer]

\* Mutant: a failed transaction leaves the original behind.
RefusedAtOnce(q) == Answered(q, "refused")

\* A failure after Put returns through removeUncommittedOriginal.
Refused(q) ==
  IF request[q].state \in AfterPut THEN Goes(q, "checking") ELSE Answered(q, "refused")

Init ==
  /\ upload = [k \in Keys |-> NoUpload]
  /\ versions = [k \in Keys |-> [c \in Contents |-> 0]]
  /\ late = {}
  /\ objects = {}
  /\ request = [q \in Requests |-> NoRequest]
  /\ faults = 0

\* A client sends a request, for the first time or again.
Submit(q, p, k, c) ==
  /\ request[q].state \notin Open
  /\ request' = [request EXCEPT ![q] = [state |-> "reserving", process |-> p, key |-> k,
                                        content |-> c, answer |-> None]]
  /\ UNCHANGED <<upload, versions, late, objects, faults>>

\* Mutant: only the key is compared.
AnyIdentity(u, c) == TRUE

SameIdentity(u, c) == u.content = c

Pending(c) == [NoUpload EXCEPT !.status = "PENDING", !.content = c]

\* Mutant: a conflicting request marks the row.
InsertedOrConflict(k, c) ==
  IF upload[k].status = "ABSENT" THEN Pending(c)
  ELSE IF upload[k].content # c THEN [upload[k] EXCEPT !.status = "CONFLICT"]
  ELSE upload[k]

\* ReserveRegistration's insert, which does nothing if the key has a row.
Inserted(k, c) == IF upload[k].status = "ABSENT" THEN Pending(c) ELSE upload[k]

\* ReserveRegistration, before parsing and again at the head of Register.
Reserve(q) ==
  LET k == request[q].key
      c == request[q].content
      u == Inserted(k, c)
  IN
  /\ request[q].state \in {"reserving", "registering"}
  /\ upload' = [upload EXCEPT ![k] = u]
  /\ \/ ~SameIdentity(u, c) /\ Refused(q)
     \/ SameIdentity(u, c) /\ (u.elapsed \/ u.status = "EXPIRED") /\ Refused(q)
     \/ /\ SameIdentity(u, c) /\ ~u.elapsed /\ u.status = "ACCEPTED"
        /\ Answered(q, u.version)
     \/ /\ SameIdentity(u, c) /\ ~u.elapsed /\ u.status = "PENDING"
        /\ Goes(q, IF request[q].state = "reserving" THEN "parsing" ELSE "locking")
  /\ UNCHANGED <<versions, late, objects, faults>>

\* The reservation commits, its answer is lost.
ReserveLost(q) ==
  /\ request[q].state \in {"reserving", "registering"}
  /\ upload' = [upload EXCEPT ![request[q].key] = Inserted(request[q].key, request[q].content)]
  /\ Refused(q)
  /\ UNCHANGED <<versions, late, objects, faults>>

\* inspectPDF accepts or rejects the PDF.  It rejects for every error of the
\* PDF library too, so two requests with one content can fare differently.
Parse(q) ==
  /\ request[q].state = "parsing"
  /\ Goes(q, "waiting") \/ Goes(q, "rejected")
  /\ UNCHANGED <<upload, versions, late, objects, faults>>

\* Mutant: the status is not looked at.
ExpiredAnyhow(u, c) ==
  IF SameIdentity(u, c) THEN [u EXCEPT !.status = "EXPIRED", !.elapsed = TRUE] ELSE u

Expired(u, c) ==
  IF u.status = "PENDING" /\ SameIdentity(u, c)
  THEN [u EXCEPT !.status = "EXPIRED", !.elapsed = TRUE] ELSE u

\* ExpireRegistration, whose update waits for the row's lock.
Expire(q) ==
  LET k == request[q].key IN
  /\ request[q].state = "rejected"
  /\ ~Locked(k)
  /\ upload' = [upload EXCEPT ![k] = Expired(@, request[q].content)]
  /\ Answered(q, "refused")
  /\ UNCHANGED <<versions, late, objects, faults>>

EnterGate(q) ==
  /\ request[q].state = "waiting"
  /\ ~GateTaken(request[q].process)
  /\ Goes(q, "storing")
  /\ UNCHANGED <<upload, versions, late, objects, faults>>

\* Put: the object is there already, or is renamed into place.
Put(q) ==
  /\ request[q].state = "storing"
  /\ objects' = objects \cup {request[q].content}
  /\ Goes(q, "registering")
  /\ UNCHANGED <<upload, versions, late, faults>>

\* The object is renamed into place but its directory cannot be synced.
PutUnsynced(q) ==
  /\ request[q].state = "storing"
  /\ faults < MaxFaults
  /\ faults' = faults + 1
  /\ objects' = objects \cup {request[q].content}
  /\ Refused(q)
  /\ UNCHANGED <<upload, versions, late>>

-----------------------------------------------------------------------------
(* Register's transaction.  It reads and locks the upload's row.           *)

\* What it does with the row it finds.  The row is read together with the
\* version it refers to; after a wait for the lock PostgreSQL reads the row
\* anew but not the version, and Register takes an accepted row without one
\* for a corrupted one.
Found(q, waited) ==
  LET u == upload[request[q].key] IN
  \/ /\ u.status = "ACCEPTED"
     /\ \/ u.elapsed /\ Answered(q, "empty")
        \/ ~u.elapsed /\ waited /\ Refused(q)
        \/ ~u.elapsed /\ ~waited /\ Answered(q, u.version)
  \/ u.status = "PENDING" /\ ~u.elapsed /\ Goes(q, "committing")
  \/ (u.status = "EXPIRED" \/ (u.status = "PENDING" /\ u.elapsed)) /\ Refused(q)

\* Mutant: a row that another transaction has locked is not waited for, and
\* is taken to be still pending.
LockAtOnce(q) ==
  /\ request[q].state = "locking"
  /\ Goes(q, "committing")
  /\ UNCHANGED <<upload, versions, late, objects, faults>>

Lock(q) ==
  /\ request[q].state = "locking"
  /\ IF Locked(request[q].key) THEN Goes(q, "blocked") ELSE Found(q, FALSE)
  /\ UNCHANGED <<upload, versions, late, objects, faults>>

Unblock(q) ==
  /\ request[q].state = "blocked"
  /\ ~Locked(request[q].key)
  /\ Found(q, TRUE)
  /\ UNCHANGED <<upload, versions, late, objects, faults>>

\* The version is inserted and the upload accepted.
Accepted(k, c) ==
  /\ versions' = [versions EXCEPT ![k][c] = @ + 1]
  /\ upload' = [upload EXCEPT ![k].status = "ACCEPTED", ![k].version = c]

\* The transaction commits, and its answer arrives or is lost.
Commit(q) ==
  /\ request[q].state = "committing"
  /\ Accepted(request[q].key, request[q].content)
  /\ Answered(q, request[q].content) \/ Refused(q)
  /\ UNCHANGED <<late, objects, faults>>

\* The caller gives up on a COMMIT that the server has not finished.
AbandonCommit(q) ==
  /\ LateCommits
  /\ request[q].state = "committing"
  /\ late' = late \cup {request[q].key}
  /\ Refused(q)
  /\ UNCHANGED <<upload, versions, objects, faults>>

LateCommit(k) ==
  /\ k \in late
  /\ late' = late \ {k}
  /\ Accepted(k, upload[k].content)
  /\ UNCHANGED <<objects, request, faults>>

LateRollback(k) ==
  /\ k \in late
  /\ late' = late \ {k}
  /\ UNCHANGED <<upload, versions, objects, request, faults>>

\* Any call can fail without an effect: a lost connection, a deadline (of the
\* wait for the gate too), a lock timeout, a full queue, a full disk.
CallFails(q) ==
  /\ request[q].state \in Open \ CleanUp
  /\ Refused(q)
  /\ UNCHANGED <<upload, versions, late, objects, faults>>

-----------------------------------------------------------------------------
(* removeUncommittedOriginal                                               *)

\* StorageKeyReferenced: versions that are committed.
Check(q) ==
  /\ request[q].state = "checking"
  /\ IF Referenced(request[q].content) THEN Answered(q, "refused") ELSE Goes(q, "removing")
  /\ UNCHANGED <<upload, versions, late, objects, faults>>

Remove(q) ==
  /\ request[q].state = "removing"
  /\ objects' = objects \ {request[q].content}
  /\ Answered(q, "refused")
  /\ UNCHANGED <<upload, versions, late, faults>>

\* The check or the removal fails: the original stays.
CleanUpFails(q) ==
  /\ request[q].state \in CleanUp
  /\ faults < MaxFaults
  /\ faults' = faults + 1
  /\ Answered(q, "refused")
  /\ UNCHANGED <<upload, versions, late, objects>>

-----------------------------------------------------------------------------
\* A web process stops; its transactions are rolled back.
Stop(p) ==
  /\ \E q \in Requests : request[q].process = p /\ request[q].state \in Open
  /\ faults < MaxFaults
  /\ faults' = faults + 1
  /\ request' = [q \in Requests |-> IF request[q].process = p THEN NoRequest ELSE request[q]]
  /\ UNCHANGED <<upload, versions, late, objects>>

\* 24 hours after the reservation.
Elapse(k) ==
  /\ upload[k].status # "ABSENT"
  /\ ~upload[k].elapsed
  /\ upload' = [upload EXCEPT ![k].elapsed = TRUE]
  /\ UNCHANGED <<versions, late, objects, request, faults>>

Register(q) ==
  \/ Reserve(q) \/ ReserveLost(q) \/ Parse(q) \/ Expire(q) \/ EnterGate(q)
  \/ Put(q) \/ PutUnsynced(q)
  \/ Lock(q) \/ Unblock(q) \/ Commit(q) \/ AbandonCommit(q)
  \/ CallFails(q) \/ Check(q) \/ Remove(q) \/ CleanUpFails(q)

Next ==
  \/ \E q \in Requests : \/ \E p \in Processes, k \in Keys, c \in Contents : Submit(q, p, k, c)
                         \/ Register(q)
  \/ \E k \in Keys : LateCommit(k) \/ LateRollback(k) \/ Elapse(k)
  \/ \E p \in Processes : Stop(p)

Spec == Init /\ [][Next]_vars

-----------------------------------------------------------------------------
(* Properties.                                                             *)

TypeOK ==
  /\ upload \in [Keys -> UploadRow]
  /\ versions \in [Keys -> [Contents -> Nat]]
  /\ late \subseteq Keys
  /\ objects \subseteq Contents
  /\ request \in [Requests -> RequestRow]
  /\ faults \in Nat

\* Repeated and concurrent requests insert one version under their key, of
\* the content the key was reserved for, if the key is ACCEPTED, else none.
KeyRegistersOnce ==
  \A k \in Keys :
    /\ upload[k].status = "ACCEPTED" => upload[k].version = upload[k].content
    /\ \A c \in Contents :
         versions[k][c] = IF upload[k].status = "ACCEPTED" /\ upload[k].content = c THEN 1 ELSE 0

\* A version that an answer names is the one version of the request's key,
\* and of the request's content.
AnswersAreTrue ==
  \A q \in Requests :
    request[q].answer \in Contents =>
      request[q].answer = request[q].content /\ versions[request[q].key][request[q].answer] = 1

\* The clean-up never takes the original of a registered version away.
OriginalsKept == \A c \in Contents : Referenced(c) => c \in objects

\* No original is left over: each belongs to a version or to a request that
\* will still register or remove it.
NoOriginalLeftOver ==
  faults = 0 =>
    \A c \in objects :
      \/ Referenced(c)
      \/ \E q \in Requests : request[q].content = c /\ request[q].state \in AfterPut \cup CleanUp

\* "repeated registration diverged" (store_test.go): whoever repeats a request
\* and is told that it succeeded is told the version.
RepeatsAgree ==
  \A q \in Requests :
    request[q].state = "answered" => request[q].answer \in {request[q].content, "refused"}

-----------------------------------------------------------------------------
Outcome(k) ==
  IF \E c \in Contents : versions[k][c] > 0 THEN "registered"
  ELSE IF upload[k].status = "EXPIRED" THEN "rejected" ELSE "open"

Promise == INSTANCE RequestKeys
  WITH bound <- [k \in Keys |-> upload[k].content], outcome <- [k \in Keys |-> Outcome(k)]

\* The keys keep the promise of RequestKeys.
ImplementsRequestKeys == Promise!Spec
=============================================================================
