----------------------------- MODULE Migrations -----------------------------
(***************************************************************************)
(* Releases that share a database: Migrate of                              *)
(* internal/adapters/postgres/migrate.go, run by cmd/migrate of every      *)
(* release, and VerifyProfile, which a worker and the search runtime call  *)
(* when they start.                                                        *)
(*                                                                         *)
(* A release is the checksums of its migrations and its processing         *)
(* profile.  A migrator is one transaction; what it wrote is its own until *)
(* it commits, and a statement that meets another's uncommitted row waits. *)
(***************************************************************************)
EXTENDS Integers, Sequences, FiniteSets

CONSTANTS
  Releases,  \* the releases: sums and profile
  Migrators, \* runs of cmd/migrate
  Services,  \* workers and search runtimes
  NoProfile,
  Nobody

\* A release numbers its migrations from 1 and has one at least.
ASSUME ReleasesAssumption ==
  /\ Releases # {}
  /\ \A r \in Releases :
       /\ Len(r.sums) \in Nat \ {0} /\ DOMAIN r.sums = 1 .. Len(r.sums)
       /\ r.profile # NoProfile
  /\ Nobody \notin Migrators

VARIABLES
  db,      \* committed: migrations whose SQL ran, their ledger, the active profile
  lock,    \* who holds the advisory lock of the migrations
  mig,     \* the migrators' transactions
  serving  \* the profile of each running service

vars == <<db, lock, mig, serving>>

NoTx == [at |-> "idle", release |-> CHOOSE r \in Releases : TRUE, next |-> 0,
         ran |-> {}, profile |-> NoProfile]

\* An empty database, or one whose tables were made without a ledger.
Init ==
  /\ db \in {[schema |-> s, ledger |-> {}, profile |-> NoProfile] : s \in {{}, {<<0, "unknown">>}}}
  /\ lock = Nobody
  /\ mig = [m \in Migrators |-> NoTx]
  /\ serving = [s \in Services |-> NoProfile]

-----------------------------------------------------------------------------
(* The transaction of a migrator.                                          *)

Open(m) == mig[m].at \notin {"idle", "done", "failed", "lost"}

\* Mutant: the transaction begins without the lock.
LockFreeAlways(m) == TRUE

LockFree(m) == lock = Nobody

Unlocked(m) == IF lock = m THEN Nobody ELSE lock

\* Mutant: every statement commits by itself.
RolledBackNot(m) ==
  [db EXCEPT !.schema = @ \cup mig[m].ran, !.ledger = @ \cup mig[m].ran]

RolledBack(m) == db

Ends(m, how) ==
  /\ mig' = [mig EXCEPT ![m].at = how, ![m].ran = {}, ![m].profile = NoProfile]
  /\ lock' = Unlocked(m)
  /\ db' = RolledBack(m)
  /\ UNCHANGED serving

Begin(m) ==
  /\ mig[m].at = "idle"
  /\ \E r \in Releases :
       mig' = [mig EXCEPT ![m] = [NoTx EXCEPT !.at = "lock", !.release = r, !.next = 1]]
  /\ UNCHANGED <<db, lock, serving>>

Lock(m) ==
  /\ mig[m].at = "lock"
  /\ LockFree(m)
  /\ lock' = m
  /\ mig' = [mig EXCEPT ![m].at = "inspect"]
  /\ UNCHANGED <<db, serving>>

\* A schema without a ledger is not touched.
Inspect(m) ==
  /\ mig[m].at = "inspect"
  /\ IF db.schema # {} /\ db.ledger = {}
     THEN Ends(m, "failed")
     ELSE /\ mig' = [mig EXCEPT ![m].at = "apply"]
          /\ UNCHANGED <<db, lock, serving>>

Versions(rows) == {row[1] : row \in rows}

Recorded(v, sum) == <<v, sum>> \in db.ledger

\* applyMigration looks for the version in the ledger: recorded with this
\* checksum it is skipped, with another it is refused.
Apply(m) ==
  LET v == mig[m].next
  IN /\ mig[m].at = "apply" /\ v <= Len(mig[m].release.sums)
     /\ IF v \in Versions(db.ledger) /\ ~Recorded(v, mig[m].release.sums[v])
        THEN Ends(m, "failed")
        ELSE /\ mig' = IF v \in Versions(db.ledger)
                      THEN [mig EXCEPT ![m].next = v + 1]
                      ELSE [mig EXCEPT ![m].at = "execute"]
             /\ UNCHANGED <<db, lock, serving>>

\* Its SQL runs and is recorded; both fail on what is there by then.
Execute(m) ==
  LET v == mig[m].next
  IN /\ mig[m].at = "execute"
     /\ \A other \in Migrators \ {m} : v \notin Versions(mig[other].ran)
     /\ IF v \in Versions(db.schema \cup db.ledger)
        THEN Ends(m, "failed")
        ELSE /\ mig' = [mig EXCEPT ![m].at = "apply", ![m].next = v + 1,
                                  ![m].ran = @ \cup {<<v, mig[m].release.sums[v]>>}]
             /\ UNCHANGED <<db, lock, serving>>

ProfileFits(profile) == db.profile \in {NoProfile, profile}

\* The profile is inserted if there is none, and must be the active one if
\* there is.
Profile(m) ==
  /\ mig[m].at = "apply" /\ mig[m].next > Len(mig[m].release.sums)
  /\ \A other \in Migrators \ {m} : mig[other].profile = NoProfile
  /\ IF ProfileFits(mig[m].release.profile)
     THEN /\ mig' = [mig EXCEPT ![m].at = "commit", ![m].profile = mig[m].release.profile]
          /\ UNCHANGED <<db, lock, serving>>
     ELSE Ends(m, "failed")

\* COMMIT; its answer may be lost.
Commit(m) ==
  /\ mig[m].at = "commit"
  /\ db' = [schema |-> db.schema \cup mig[m].ran, ledger |-> db.ledger \cup mig[m].ran,
            profile |-> mig[m].profile]
  /\ lock' = Unlocked(m)
  /\ \E how \in {"done", "lost"} :
       mig' = [mig EXCEPT ![m].at = how, ![m].ran = {}, ![m].profile = NoProfile]
  /\ UNCHANGED serving

\* The process is killed or loses its connection; PostgreSQL rolls back.
Lost(m) == Open(m) /\ Ends(m, "lost")

-----------------------------------------------------------------------------
(* A service verifies the profile once, when it starts.                    *)

VerifyProfile(s) ==
  /\ serving[s] = NoProfile
  /\ db.profile # NoProfile
  /\ \E r \in Releases : r.profile = db.profile /\ serving' = [serving EXCEPT ![s] = r.profile]
  /\ UNCHANGED <<db, lock, mig>>

Stop(s) ==
  /\ serving[s] # NoProfile
  /\ serving' = [serving EXCEPT ![s] = NoProfile]
  /\ UNCHANGED <<db, lock, mig>>

Step(m) == Lock(m) \/ Inspect(m) \/ Apply(m) \/ Execute(m) \/ Profile(m) \/ Commit(m)

Next ==
  \/ \E m \in Migrators : Begin(m) \/ Step(m) \/ Lost(m)
  \/ \E s \in Services : VerifyProfile(s) \/ Stop(s)

Spec == Init /\ [][Next]_vars

\* A statement is answered, and the lock is handed to each who waits (the
\* queue of PostgreSQL's lock manager).
FairSpec ==
  /\ Spec
  /\ \A m \in Migrators : WF_vars(Step(m)) /\ SF_vars(Lock(m))

-----------------------------------------------------------------------------
(* Properties.                                                             *)

Installed == INSTANCE Installation WITH ledger <- db.ledger, profile <- db.profile

RowsOf(r) == Installed!RowsOf(r)

\* What ran is what the ledger says, and only the transaction with the lock has
\* written - whichever migrators died, failed or met.
TypeOK ==
  /\ db.ledger # {} => db.schema = db.ledger
  /\ db.profile = NoProfile <=> db.ledger = {}
  /\ \A m \in Migrators : mig[m].ran # {} => lock = m

\* Releases are installed whole, one on top of the other, under the profile of
\* the first: migrators implement Installation.
ImplementsInstallation == Installed!Spec

\* A migrator that reported success found, and every later release leaves, its
\* migrations and its profile in the database.
SuccessIsTrue ==
  \A m \in Migrators : mig[m].at = "done" =>
    RowsOf(mig[m].release) \subseteq db.ledger /\ mig[m].release.profile = db.profile

\* Several migrators at once do not make each other fail: one fails only if its
\* release disagrees with what is installed.
OnlyMismatchesFail ==
  \A m \in Migrators : mig[m].at = "failed" =>
    \/ db.schema # {} /\ db.ledger = {}
    \/ db.profile # NoProfile /\ db.profile # mig[m].release.profile
    \/ \E row \in RowsOf(mig[m].release) :
         row[1] \in Versions(db.ledger) /\ row \notin db.ledger

\* A service that runs embeds and searches with the active profile.
ServicesMatch ==
  \A s \in Services : serving[s] # NoProfile => serving[s] = db.profile

\* What is reported of the database is true of it: by a migrator that succeeds,
\* by one that fails, and by a service that runs.
ConclusionsAreTrue == SuccessIsTrue /\ OnlyMismatchesFail /\ ServicesMatch

\* Every migrator ends, also when those before it died or failed.
EveryMigratorEnds == \A m \in Migrators : Open(m) ~> ~Open(m)
=============================================================================
