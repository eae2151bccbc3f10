-------------------------- MODULE MigrationsProofs --------------------------
(***************************************************************************)
(* Proofs about Migrations, for any releases, migrators and services: only *)
(* the holder of the lock has written, what is reported of the database    *)
(* is true of it, and migrators implement Installation.                    *)
(***************************************************************************)
EXTENDS Migrations, TLAPS

-----------------------------------------------------------------------------
(* The inductive invariant.                                                *)

Phases == {"idle", "lock", "inspect", "apply", "execute", "commit", "done", "failed", "lost"}

Holding == {"inspect", "apply", "execute", "commit"}

Working == {"apply", "execute", "commit"}

AllRows == UNION {RowsOf(r) : r \in Releases}

Profiles == {r.profile : r \in Releases}

Transactions ==
  [at: Phases, release: Releases, next: Nat, ran: SUBSET AllRows,
   profile: Profiles \cup {NoProfile}]

Types ==
  /\ lock \in Migrators \cup {Nobody}
  /\ mig \in [Migrators -> Transactions]
  /\ serving \in [Services -> Profiles \cup {NoProfile}]

\* The lock is with the one migrator that is past it, and a transaction that
\* has not begun its work, or has ended, has written nothing.
Locked ==
  \A m \in Migrators :
    /\ mig[m].at \in Holding <=> lock = m
    /\ mig[m].at \notin Working => mig[m].ran = {}
    /\ mig[m].at # "commit" => mig[m].profile = NoProfile
    /\ mig[m].at \in {"lock", "inspect"} => mig[m].next = 1

\* The ledger is that of one release, and of all that ran.
OneRelease ==
  /\ db = [schema |-> db.schema, ledger |-> db.ledger, profile |-> db.profile]
  /\ db.ledger # {} => db.schema = db.ledger
  /\ db.profile = NoProfile <=> db.ledger = {}
  /\ db.ledger # {} => \E r \in Releases : db.ledger = RowsOf(r)

\* What a transaction at work has behind it: each migration before the next is
\* recorded, or is in the transaction and was not there.
Behind(t) ==
  /\ db.schema = db.ledger
  /\ t.next \in 1 .. Len(t.release.sums) + 1
  /\ \A v \in 1 .. t.next - 1 : <<v, t.release.sums[v]>> \in db.ledger \cup t.ran
  /\ t.ran \subseteq {row \in RowsOf(t.release) : row[1] \notin Versions(db.ledger)}
  /\ t.at = "execute" =>
       t.next <= Len(t.release.sums) /\ t.next \notin Versions(db.ledger)
  /\ t.at = "commit" =>
       /\ t.next = Len(t.release.sums) + 1
       /\ t.profile = t.release.profile
       /\ ProfileFits(t.release.profile)

Progress == \A m \in Migrators : mig[m].at \in Working => Behind(mig[m])

IInv == Types /\ Locked /\ OneRelease /\ Progress

-----------------------------------------------------------------------------
(* Lemmas about the model's operators.                                     *)

LEMMA RowsFacts ==
  ASSUME NEW r \in Releases
  PROVE  /\ Len(r.sums) \in Nat \ {0}
         /\ DOMAIN r.sums = 1 .. Len(r.sums)
         /\ RowsOf(r) = {<<v, r.sums[v]>> : v \in 1 .. Len(r.sums)}
         /\ RowsOf(r) # {}
         /\ RowsOf(r) \subseteq AllRows
         /\ r.profile \in Profiles
         /\ r.profile # NoProfile
<1>1. /\ Len(r.sums) \in Nat \ {0}
      /\ DOMAIN r.sums = 1 .. Len(r.sums)
      /\ r.profile # NoProfile
  BY ReleasesAssumption
<1>2. RowsOf(r) = {<<v, r.sums[v]>> : v \in 1 .. Len(r.sums)}
  BY <1>1 DEF RowsOf, Installed!RowsOf
<1>3. <<1, r.sums[1]>> \in RowsOf(r)
  BY <1>1, <1>2
<1>4. QED  BY <1>1, <1>2, <1>3 DEF AllRows, Profiles

LEMMA RowsVersions ==
  ASSUME NEW r \in Releases
  PROVE  Versions(RowsOf(r)) = 1 .. Len(r.sums)
<1> DEFINE n == Len(r.sums)
           R == {<<v, r.sums[v]>> : v \in 1 .. n}
<1>1. RowsOf(r) = R
  BY RowsFacts
<1>2. ASSUME NEW v \in 1 .. n PROVE v \in {row[1] : row \in R}
  <2>1. <<v, r.sums[v]>> \in R
    OBVIOUS
  <2>2. <<v, r.sums[v]>>[1] = v
    OBVIOUS
  <2>3. QED  BY <2>1, <2>2, Zenon
<1>3. \A row \in R : row[1] \in 1 .. n
  OBVIOUS
<1> HIDE DEF R
<1>4. QED  BY <1>1, <1>2, <1>3 DEF Versions

\* The transaction that NoTx is.
LEMMA NoTxType ==
  /\ NoTx \in Transactions
  /\ NoTx.at = "idle" /\ NoTx.ran = {} /\ NoTx.profile = NoProfile
<1>1. (CHOOSE r \in Releases : TRUE) \in Releases
  BY ReleasesAssumption
<1>2. QED  BY <1>1 DEF NoTx, Transactions, Phases

\* A step of one migrator that leaves the database alone.
LEMMA OneMoves ==
  ASSUME IInv, NEW m \in Migrators, NEW t \in Transactions,
         db' = db, serving' = serving,
         mig' = [mig EXCEPT ![m] = t],
         lock' \in Migrators \cup {Nobody},
         \A other \in Migrators \ {m} : lock' = other <=> lock = other,
         t.at \in Holding <=> lock' = m,
         t.at \notin Working => t.ran = {},
         t.at # "commit" => t.profile = NoProfile,
         t.at \in {"lock", "inspect"} => t.next = 1,
         t.at \in Working => Behind(t)
  PROVE  IInv'
<1>1. \A other \in Migrators : mig'[other] = IF other = m THEN t ELSE mig[other]
  BY DEF IInv, Types
<1>2. Types'
  BY DEF IInv, Types
<1>3. Locked'
  BY <1>1 DEF IInv, Locked
<1>4. OneRelease'
  BY DEF IInv, OneRelease
<1>5. Progress'
  BY <1>1 DEF IInv, Progress, Behind, ProfileFits
<1>6. QED  BY <1>2, <1>3, <1>4, <1>5 DEF IInv

\* Who ends without a commit leaves the database as it was.
LEMMA EndsKeeps ==
  ASSUME IInv, NEW m \in Migrators, NEW how \in {"failed", "lost"},
         mig[m].at \notin {"idle", "done", "failed", "lost"}, Ends(m, how)
  PROVE  IInv'
<1> DEFINE t == [mig[m] EXCEPT !.at = how, !.ran = {}, !.profile = NoProfile]
<1>1. mig[m] \in Transactions
  BY DEF IInv, Types
<1>2. /\ t \in Transactions
      /\ t.at = how /\ t.ran = {} /\ t.profile = NoProfile
  BY <1>1 DEF Transactions, Phases
<1>3. mig' = [mig EXCEPT ![m] = t] /\ db' = db /\ serving' = serving
  BY DEF Ends, RolledBack, IInv, Types
<1>4. /\ lock' \in Migrators \cup {Nobody} /\ lock' # m
      /\ \A other \in Migrators \ {m} : lock' = other <=> lock = other
  BY ReleasesAssumption DEF Ends, Unlocked, IInv, Types
<1> HIDE DEF t
<1>5. QED  BY <1>2, <1>3, <1>4, OneMoves DEF Holding, Working

-----------------------------------------------------------------------------
(* One lemma per action.                                                   *)

LEMMA InitIInv == Init => IInv
<1> SUFFICES ASSUME Init PROVE IInv
  OBVIOUS
<1>1. Types
  BY NoTxType DEF Init, Types
<1>2. Locked
  BY NoTxType, ReleasesAssumption DEF Init, Locked, Holding, Working
<1>3. OneRelease
  BY DEF Init, OneRelease
<1>4. Progress
  BY NoTxType DEF Init, Progress, Working
<1>5. QED  BY <1>1, <1>2, <1>3, <1>4 DEF IInv

LEMMA BeginKeeps ==
  ASSUME IInv, NEW m \in Migrators, Begin(m)
  PROVE  IInv'
<1>1. PICK r \in Releases :
        mig' = [mig EXCEPT ![m] = [NoTx EXCEPT !.at = "lock", !.release = r, !.next = 1]]
  BY DEF Begin
<1> DEFINE t == [NoTx EXCEPT !.at = "lock", !.release = r, !.next = 1]
<1>2. /\ t \in Transactions
      /\ t.at = "lock" /\ t.next = 1 /\ t.ran = {} /\ t.profile = NoProfile
  BY NoTxType DEF Transactions, Phases
<1>3. lock \in Migrators \cup {Nobody} /\ lock # m
  BY DEF IInv, Types, Locked, Holding, Begin
<1>4. mig' = [mig EXCEPT ![m] = t] /\ UNCHANGED <<db, lock, serving>>
  BY <1>1 DEF Begin
<1> HIDE DEF t
<1>5. QED  BY <1>2, <1>3, <1>4, OneMoves DEF Holding, Working

LEMMA LockKeeps ==
  ASSUME IInv, NEW m \in Migrators, Lock(m)
  PROVE  IInv'
<1> DEFINE t == [mig[m] EXCEPT !.at = "inspect"]
<1>1. /\ mig[m] \in Transactions
      /\ mig[m].next = 1 /\ mig[m].ran = {} /\ mig[m].profile = NoProfile
  BY DEF IInv, Types, Locked, Working, Lock
<1>2. t \in Transactions /\ t.at = "inspect" /\ t.next = 1 /\ t.ran = {} /\ t.profile = NoProfile
  BY <1>1 DEF Transactions, Phases
<1>3. mig' = [mig EXCEPT ![m] = t] /\ lock = Nobody /\ lock' = m /\ UNCHANGED <<db, serving>>
  BY DEF Lock, LockFree, IInv, Types
<1> HIDE DEF t
<1>4. QED  BY <1>2, <1>3, OneMoves, ReleasesAssumption DEF Holding, Working

LEMMA InspectKeeps ==
  ASSUME IInv, NEW m \in Migrators, Inspect(m)
  PROVE  IInv'
<1>1. CASE Ends(m, "failed")
  BY <1>1, EndsKeeps DEF Inspect
<1>2. CASE ~Ends(m, "failed")
  <2> DEFINE t == [mig[m] EXCEPT !.at = "apply"]
  <2>1. /\ mig[m] \in Transactions
        /\ mig[m].next = 1 /\ mig[m].ran = {} /\ mig[m].profile = NoProfile
        /\ mig[m].at = "inspect" /\ lock = m
    BY DEF IInv, Types, Locked, Working, Holding, Inspect
  <2>2. /\ mig' = [mig EXCEPT ![m] = t] /\ UNCHANGED <<db, lock, serving>>
        /\ db.schema = db.ledger
    BY <1>2 DEF Inspect, IInv, Types, OneRelease
  <2>3. /\ t \in Transactions /\ t.at = "apply" /\ t.ran = {} /\ t.profile = NoProfile
        /\ t.release = mig[m].release /\ t.next = 1
    BY <2>1 DEF Transactions, Phases
  <2> HIDE DEF t
  <2>4. t.release \in Releases
    BY <2>3 DEF Transactions
  <2>5. Behind(t)
    BY <2>2, <2>3, <2>4, RowsFacts DEF Behind
  <2>6. lock \in Migrators \cup {Nobody}
    BY DEF IInv, Types
  <2>7. QED  BY <2>1, <2>2, <2>3, <2>5, <2>6, OneMoves DEF Holding, Working
<1>3. QED  BY <1>1, <1>2

LEMMA ApplyKeeps ==
  ASSUME IInv, NEW m \in Migrators, Apply(m)
  PROVE  IInv'
<1>1. CASE Ends(m, "failed")
  BY <1>1, EndsKeeps DEF Apply
<1>2. CASE ~Ends(m, "failed")
  <2> DEFINE v == mig[m].next
             r == mig[m].release
             skip == [mig[m] EXCEPT !.next = v + 1]
             turn == [mig[m] EXCEPT !.at = "execute"]
  <2>1. /\ mig[m] \in Transactions /\ r \in Releases /\ mig[m].profile = NoProfile
        /\ mig[m].at = "apply" /\ lock = m /\ lock \in Migrators
    BY DEF IInv, Types, Transactions, Locked, Holding, Apply
  <2>2. Behind(mig[m])
    BY <2>1 DEF IInv, Progress, Working
  <2>3. v \in 1 .. Len(r.sums) /\ Len(r.sums) \in Nat
    BY <2>1, <2>2, RowsFacts DEF Behind, Apply
  <2>4. CASE v \in Versions(db.ledger)
    <3>1. mig' = [mig EXCEPT ![m] = skip] /\ UNCHANGED <<db, lock, serving>>
      BY <1>2, <2>4 DEF Apply, IInv, Types
    <3>2. <<v, r.sums[v]>> \in db.ledger
      BY <1>2, <2>4 DEF Apply, Recorded
    <3>3. /\ skip \in Transactions /\ skip.at = "apply" /\ skip.next = v + 1
          /\ skip.release = r /\ skip.ran = mig[m].ran /\ skip.profile = NoProfile
      BY <2>1, <2>3 DEF Transactions
    <3> HIDE DEF skip
    <3>4. \A w \in 1 .. skip.next - 1 : <<w, r.sums[w]>> \in db.ledger \cup skip.ran
      <4> SUFFICES ASSUME NEW w \in 1 .. v
                   PROVE  <<w, r.sums[w]>> \in db.ledger \cup mig[m].ran
        BY <2>3, <3>3
      <4>1. CASE w = v
        BY <4>1, <3>2
      <4>2. CASE w # v
        BY <4>2, <2>2, <2>3 DEF Behind
      <4>3. QED  BY <4>1, <4>2
    <3>5. Behind(skip)
      BY <2>2, <2>3, <3>3, <3>4, SMTT(30) DEF Behind
    <3>6. QED  BY <2>1, <3>1, <3>3, <3>5, OneMoves DEF Holding, Working
  <2>5. CASE v \notin Versions(db.ledger)
    <3>1. mig' = [mig EXCEPT ![m] = turn] /\ UNCHANGED <<db, lock, serving>>
      BY <1>2, <2>5 DEF Apply, IInv, Types
    <3>2. /\ turn \in Transactions /\ turn.at = "execute" /\ turn.next = v
          /\ turn.release = r /\ turn.ran = mig[m].ran /\ turn.profile = NoProfile
      BY <2>1 DEF Transactions, Phases
    <3> HIDE DEF turn
    <3>3. Behind(turn)
      BY <2>2, <2>3, <2>5, <3>2 DEF Behind
    <3>4. QED  BY <2>1, <3>1, <3>2, <3>3, OneMoves DEF Holding, Working
  <2>6. QED  BY <2>4, <2>5
<1>3. QED  BY <1>1, <1>2

\* The version it executes is not in the database: with the lock, the check of
\* Apply still holds.
LEMMA ExecuteSucceeds ==
  ASSUME IInv, NEW m \in Migrators, Execute(m)
  PROVE  mig[m].next \notin Versions(db.schema \cup db.ledger)
BY DEF IInv, Progress, Behind, Working, Execute

LEMMA ExecuteKeeps ==
  ASSUME IInv, NEW m \in Migrators, Execute(m)
  PROVE  IInv'
<1> DEFINE v == mig[m].next
           r == mig[m].release
           row == <<v, r.sums[v]>>
           t == [mig[m] EXCEPT !.at = "apply", !.next = v + 1, !.ran = @ \cup {row}]
<1>1. /\ mig[m] \in Transactions /\ r \in Releases /\ mig[m].profile = NoProfile
      /\ mig[m].at = "execute" /\ lock = m /\ lock \in Migrators
  BY DEF IInv, Types, Transactions, Locked, Holding, Execute
<1>2. Behind(mig[m])
  BY <1>1 DEF IInv, Progress, Working
<1>3. v \in 1 .. Len(r.sums) /\ Len(r.sums) \in Nat /\ v \notin Versions(db.ledger)
  BY <1>1, <1>2, RowsFacts DEF Behind
<1>4. row \in RowsOf(r) /\ row \in AllRows /\ row[1] = v
  BY <1>1, <1>3, RowsFacts
<1>5. mig' = [mig EXCEPT ![m] = t] /\ UNCHANGED <<db, lock, serving>>
  BY ExecuteSucceeds DEF Execute, IInv, Types
<1>6. /\ t \in Transactions /\ t.at = "apply" /\ t.next = v + 1
      /\ t.release = r /\ t.ran = mig[m].ran \cup {row} /\ t.profile = NoProfile
  <2> HIDE DEF row
  <2>1. mig[m].ran \cup {row} \in SUBSET AllRows /\ v + 1 \in Nat
    BY <1>1, <1>3, <1>4 DEF Transactions
  <2>2. QED  BY <1>1, <2>1 DEF Transactions, Phases
<1> HIDE DEF t
<1>7. \A w \in 1 .. t.next - 1 : <<w, r.sums[w]>> \in db.ledger \cup t.ran
  <2> SUFFICES ASSUME NEW w \in 1 .. v
               PROVE  <<w, r.sums[w]>> \in db.ledger \cup mig[m].ran \cup {row}
    BY <1>3, <1>6
  <2>1. CASE w = v
    BY <2>1
  <2>2. CASE w # v
    BY <2>2, <1>2, <1>3 DEF Behind
  <2>3. QED  BY <2>1, <2>2
<1>8. t.ran \subseteq {x \in RowsOf(r) : x[1] \notin Versions(db.ledger)}
  <2> HIDE DEF row
  <2>1. QED  BY <1>2, <1>3, <1>4, <1>6 DEF Behind
<1>9. Behind(t)
  <2> HIDE DEF row
  <2>1. QED  BY <1>2, <1>3, <1>6, <1>7, <1>8 DEF Behind
<1>10. QED  BY <1>1, <1>5, <1>6, <1>9, OneMoves DEF Holding, Working

LEMMA ProfileKeeps ==
  ASSUME IInv, NEW m \in Migrators, Profile(m)
  PROVE  IInv'
<1>1. CASE Ends(m, "failed")
  BY <1>1, EndsKeeps DEF Profile
<1>2. CASE ~Ends(m, "failed")
  <2> DEFINE r == mig[m].release
             t == [mig[m] EXCEPT !.at = "commit", !.profile = r.profile]
  <2>1. /\ mig[m] \in Transactions /\ r \in Releases
        /\ mig[m].at = "apply" /\ lock = m /\ lock \in Migrators
    BY DEF IInv, Types, Transactions, Locked, Holding, Profile
  <2>2. Behind(mig[m])
    BY <2>1 DEF IInv, Progress, Working
  <2>3. mig[m].next = Len(r.sums) + 1
    <3>1. /\ mig[m].next > Len(r.sums) /\ mig[m].next \in 1 .. Len(r.sums) + 1
          /\ Len(r.sums) \in Nat
      BY <2>1, <2>2, RowsFacts DEF Behind, Profile
    <3>2. QED  BY <3>1
  <2>4. /\ mig' = [mig EXCEPT ![m] = t] /\ UNCHANGED <<db, lock, serving>>
        /\ ProfileFits(r.profile)
    BY <1>2 DEF Profile, IInv, Types
  <2>5. /\ t \in Transactions /\ t.at = "commit" /\ t.next = mig[m].next
        /\ t.release = r /\ t.ran = mig[m].ran /\ t.profile = r.profile
    BY <2>1, RowsFacts DEF Transactions, Phases
  <2> HIDE DEF t
  <2>6. Behind(t)
    BY <2>2, <2>3, <2>4, <2>5 DEF Behind
  <2>7. QED  BY <2>1, <2>4, <2>5, <2>6, OneMoves DEF Holding, Working
<1>3. QED  BY <1>1, <1>2

LEMMA LostKeeps ==
  ASSUME IInv, NEW m \in Migrators, Lost(m)
  PROVE  IInv'
BY EndsKeeps DEF Lost, Open

\* At its commit a transaction repeats what is there, or has what is there and
\* all the rest of its release.
LEMMA CommitLedger ==
  ASSUME IInv, NEW m \in Migrators, mig[m].at = "commit"
  PROVE  \/ /\ mig[m].ran = {} /\ db.ledger # {}
            /\ RowsOf(mig[m].release) \subseteq db.ledger
         \/ /\ db.ledger \subseteq RowsOf(mig[m].release)
            /\ db.ledger \cup mig[m].ran = RowsOf(mig[m].release)
<1> DEFINE r == mig[m].release
           ran == mig[m].ran
           n == Len(r.sums)
<1>1. r \in Releases /\ n \in Nat \ {0} /\ RowsOf(r) = {<<v, r.sums[v]>> : v \in 1 .. n}
  BY RowsFacts DEF IInv, Types, Transactions
<1>2. /\ \A v \in 1 .. n : <<v, r.sums[v]>> \in db.ledger \cup ran
      /\ \A row \in ran : row \in RowsOf(r) /\ row[1] \notin Versions(db.ledger)
  BY <1>1 DEF IInv, Progress, Behind, Working
<1>3. CASE db.ledger = {}
  BY <1>1, <1>2, <1>3
<1>4. CASE db.ledger # {}
  <2>1. PICK s \in Releases : db.ledger = RowsOf(s)
    BY <1>4 DEF IInv, OneRelease
  <2> DEFINE k == Len(s.sums)
  <2>2. /\ k \in Nat \ {0} /\ db.ledger = {<<v, s.sums[v]>> : v \in 1 .. k}
        /\ Versions(db.ledger) = 1 .. k
    BY <2>1, RowsFacts, RowsVersions
  <2> HIDE DEF r, ran, n, k
  <2>3. \A row \in ran : row[1] \notin 1 .. k
    BY <1>2, <2>2
  <2>4. ASSUME NEW v \in 1 .. n, v \in 1 .. k PROVE r.sums[v] = s.sums[v]
    <3>1. <<v, r.sums[v]>> \notin ran
      <4>1. <<v, r.sums[v]>>[1] = v
        OBVIOUS
      <4>2. QED  BY <2>3, <2>4, <4>1
    <3>2. <<v, r.sums[v]>> \in db.ledger
      BY <1>2, <3>1
    <3>3. PICK w \in 1 .. k : <<v, r.sums[v]>> = <<w, s.sums[w]>>
      BY <2>2, <3>2
    <3>4. QED  BY <3>3
  <2>5. CASE k <= n
    <3>1. db.ledger \subseteq RowsOf(r)
      <4> SUFFICES ASSUME NEW v \in 1 .. k PROVE <<v, s.sums[v]>> \in RowsOf(r)
        BY <2>2
      <4>1. v \in 1 .. n
        BY <1>1, <2>2, <2>5
      <4>2. QED  BY <1>1, <2>4, <4>1
    <3>2. QED  BY <1>1, <1>2, <3>1 DEF r, ran
  <2>6. CASE k > n
    <3>1. RowsOf(r) \subseteq db.ledger
      <4> SUFFICES ASSUME NEW v \in 1 .. n PROVE <<v, r.sums[v]>> \in db.ledger
        BY <1>1
      <4>1. v \in 1 .. k
        BY <1>1, <2>2, <2>6
      <4>2. QED  BY <2>2, <2>4, <4>1
    <3>2. ran = {}
      <4> SUFFICES ASSUME NEW row \in ran PROVE FALSE
        OBVIOUS
      <4>1. PICK v \in 1 .. n : row = <<v, r.sums[v]>>
        BY <1>1, <1>2
      <4>2. row[1] = v /\ v \in 1 .. k
        BY <4>1, <1>1, <2>2, <2>6
      <4>3. QED  BY <2>3, <4>2
    <3>3. QED  BY <1>4, <3>1, <3>2 DEF r, ran
  <2>7. QED  BY <1>1, <2>2, <2>5, <2>6
<1>5. QED  BY <1>3, <1>4

\* What a commit leaves in the database.
LEMMA CommitDb ==
  ASSUME IInv, NEW m \in Migrators, Commit(m)
  PROVE  LET r == mig[m].release
         IN /\ r \in Releases
            /\ db'.profile = r.profile
            /\ db'.schema = db'.ledger
            /\ RowsOf(r) \subseteq db'.ledger
            /\ \/ db' = db /\ db.ledger # {}
               \/ db.ledger \subseteq RowsOf(r) /\ db'.ledger = RowsOf(r)
            /\ db.ledger # {} => db.profile = r.profile
<1> DEFINE r == mig[m].release
<1>1. mig[m].at = "commit" /\ r \in Releases
  BY DEF Commit, IInv, Types, Transactions
<1>2. Behind(mig[m]) /\ mig[m].profile = r.profile /\ ProfileFits(r.profile)
      /\ db.schema = db.ledger
  BY <1>1 DEF IInv, Progress, Behind, Working
<1>3. /\ db'.schema = db.ledger \cup mig[m].ran
      /\ db'.ledger = db.ledger \cup mig[m].ran
      /\ db'.profile = r.profile
      /\ db' = [schema |-> db'.schema, ledger |-> db'.ledger, profile |-> db'.profile]
  BY <1>2 DEF Commit
<1>4. db.ledger # {} => db.profile = r.profile
  BY <1>2 DEF IInv, OneRelease, ProfileFits
<1>5. db = [schema |-> db.schema, ledger |-> db.ledger, profile |-> db.profile]
  BY DEF IInv, OneRelease
<1> HIDE DEF r
<1>6. \/ mig[m].ran = {} /\ db.ledger # {} /\ RowsOf(r) \subseteq db.ledger
      \/ db.ledger \subseteq RowsOf(r) /\ db.ledger \cup mig[m].ran = RowsOf(r)
  BY <1>1, CommitLedger DEF r
<1>7. CASE mig[m].ran = {} /\ db.ledger # {} /\ RowsOf(r) \subseteq db.ledger
  <2>1. db'.schema = db.schema /\ db'.ledger = db.ledger /\ db'.profile = db.profile
    BY <1>2, <1>3, <1>4, <1>7
  <2>2. db' = db
    BY <1>3, <1>5, <2>1
  <2>3. QED  BY <1>1, <1>3, <1>4, <1>7, <2>1, <2>2 DEF r
<1>8. CASE db.ledger \subseteq RowsOf(r) /\ db.ledger \cup mig[m].ran = RowsOf(r)
  BY <1>1, <1>3, <1>4, <1>8 DEF r
<1>9. QED  BY <1>6, <1>7, <1>8

LEMMA CommitKeeps ==
  ASSUME IInv, NEW m \in Migrators, Commit(m)
  PROVE  IInv'
<1> DEFINE r == mig[m].release
<1>1. PICK how \in {"done", "lost"} :
        mig' = [mig EXCEPT ![m].at = how, ![m].ran = {}, ![m].profile = NoProfile]
  BY DEF Commit
<1> DEFINE t == [mig[m] EXCEPT !.at = how, !.ran = {}, !.profile = NoProfile]
<1>2. mig[m] \in Transactions /\ mig[m].at = "commit" /\ lock = m /\ r \in Releases
  BY DEF Commit, IInv, Types, Transactions, Locked, Holding
<1>3. /\ t \in Transactions /\ t.at = how /\ t.ran = {} /\ t.profile = NoProfile
      /\ mig' = [mig EXCEPT ![m] = t]
  BY <1>1, <1>2 DEF Transactions, Phases, IInv, Types
<1>4. lock' = Nobody /\ serving' = serving
  BY <1>2 DEF Commit, Unlocked
<1> HIDE DEF t
<1>5. \A other \in Migrators : mig'[other] = IF other = m THEN t ELSE mig[other]
  BY <1>3 DEF IInv, Types
<1>6. Types'
  BY <1>3, <1>4 DEF IInv, Types
<1>7. Locked'
  BY <1>2, <1>3, <1>4, <1>5, ReleasesAssumption DEF IInv, Locked, Holding, Working
<1>8. OneRelease'
  <2>1. db' = [schema |-> db'.schema, ledger |-> db'.ledger, profile |-> db'.profile]
    BY DEF Commit
  <2>2. r \in Releases /\ RowsOf(r) # {} /\ r.profile # NoProfile
    BY <1>2, RowsFacts
  <2>3. /\ db'.profile = r.profile /\ db'.schema = db'.ledger
        /\ RowsOf(r) \subseteq db'.ledger
        /\ \/ db' = db /\ db.ledger # {}
           \/ db'.ledger = RowsOf(r)
    BY CommitDb
  <2> HIDE DEF r
  <2>4. \E s \in Releases : db'.ledger = RowsOf(s)
    BY <2>2, <2>3 DEF IInv, OneRelease
  <2>5. QED  BY <2>1, <2>2, <2>3, <2>4 DEF OneRelease
<1>9. Progress'
  BY <1>3, <1>4, <1>5, <1>7, ReleasesAssumption DEF Progress, Locked, Holding, Working
<1>10. QED  BY <1>6, <1>7, <1>8, <1>9 DEF IInv

LEMMA ServiceKeeps ==
  ASSUME IInv, NEW s \in Services, VerifyProfile(s) \/ Stop(s)
  PROVE  IInv'
<1>1. serving' \in [Services -> Profiles \cup {NoProfile}] /\ UNCHANGED <<db, lock, mig>>
  BY RowsFacts DEF IInv, Types, VerifyProfile, Stop
<1>2. QED
  BY <1>1 DEF IInv, Types, Locked, OneRelease, Progress, Behind, ProfileFits

LEMMA NextKeeps == IInv /\ [Next]_vars => IInv'
<1> SUFFICES ASSUME IInv, [Next]_vars PROVE IInv'
  OBVIOUS
<1>1. ASSUME NEW m \in Migrators, Begin(m) \/ Step(m) \/ Lost(m)
      PROVE  IInv'
  BY <1>1, BeginKeeps, LockKeeps, InspectKeeps, ApplyKeeps, ExecuteKeeps, ProfileKeeps,
     CommitKeeps, LostKeeps DEF Step
<1>2. ASSUME NEW s \in Services, VerifyProfile(s) \/ Stop(s)
      PROVE  IInv'
  BY <1>2, ServiceKeeps
<1>3. CASE UNCHANGED vars
  BY <1>3 DEF vars, IInv, Types, Locked, OneRelease, Progress, Behind, ProfileFits
<1>4. QED  BY <1>1, <1>2, <1>3 DEF Next

LEMMA Inductive == Spec => []IInv
BY InitIInv, NextKeeps, PTL DEF Spec

\* What ran is what the ledger says, and only the transaction with the lock of
\* Migrate has written: for any releases and any number of migrators.
THEOREM OnlyTheHolderWrote == Spec => []TypeOK
<1>1. IInv => TypeOK
  BY DEF IInv, OneRelease, Locked, TypeOK, Working, Holding
<1>2. QED  BY <1>1, Inductive, PTL

-----------------------------------------------------------------------------
(* Migrators implement Installation.                                       *)

\* Only a commit changes what is committed.
LEMMA OnlyCommitChangesDb ==
  ASSUME [Next]_vars
  PROVE  db' = db \/ \E m \in Migrators : Commit(m)
BY DEF Next, vars, Begin, Step, Lost, Lock, Inspect, Apply, Execute, Profile, Ends,
       RolledBack, VerifyProfile, Stop

LEMMA CommitInstalls ==
  ASSUME IInv, NEW m \in Migrators, Commit(m)
  PROVE  [Installed!Next]_(Installed!vars)
<1> DEFINE r == mig[m].release
<1>1. /\ r \in Releases /\ db'.profile = r.profile
      /\ \/ db' = db
         \/ db.ledger \subseteq RowsOf(r) /\ db'.ledger = RowsOf(r)
      /\ db.ledger # {} => db.profile = r.profile
      /\ db.ledger = {} => db.profile = NoProfile
  BY CommitDb DEF IInv, OneRelease
<1> HIDE DEF r
<1>2. CASE db' = db
  BY <1>2 DEF Installed!vars
<1>3. CASE db.ledger \subseteq RowsOf(r) /\ db'.ledger = RowsOf(r)
  <2>1. Installed!Install(r)
    BY <1>1, <1>3 DEF Installed!Install, RowsOf
  <2>2. QED  BY <1>1, <2>1 DEF Installed!Next
<1>4. QED  BY <1>1, <1>2, <1>3

\* Releases are installed whole, each on top of one that it extends, under the
\* profile of the first: the transactions of Migrate implement Installation.
THEOREM MigratorsInstall == Spec => ImplementsInstallation
<1>1. Init => Installed!Init
  BY DEF Init, Installed!Init
<1>2. IInv /\ [Next]_vars => [Installed!Next]_(Installed!vars)
  <2> SUFFICES ASSUME IInv, [Next]_vars PROVE [Installed!Next]_(Installed!vars)
    OBVIOUS
  <2>1. CASE db' = db
    BY <2>1 DEF Installed!vars
  <2>2. ASSUME NEW m \in Migrators, Commit(m)
        PROVE  [Installed!Next]_(Installed!vars)
    BY <2>2, CommitInstalls
  <2>3. QED  BY <2>1, <2>2, OnlyCommitChangesDb
<1>3. QED
  BY <1>1, <1>2, Inductive, PTL DEF Spec, ImplementsInstallation, Installed!Spec

-----------------------------------------------------------------------------
(* What is reported of the database stays true of it.                      *)

\* Two rows of a release with one version are one row.
LEMMA OneRowPerVersion ==
  ASSUME NEW r \in Releases, NEW x \in RowsOf(r), NEW y \in RowsOf(r), x[1] = y[1]
  PROVE  x = y
<1>1. PICK v \in 1 .. Len(r.sums) : x = <<v, r.sums[v]>>
  BY RowsFacts
<1>2. PICK w \in 1 .. Len(r.sums) : y = <<w, r.sums[w]>>
  BY RowsFacts
<1>3. v = w
  BY <1>1, <1>2
<1>4. QED  BY <1>1, <1>2, <1>3

\* A step adds to the ledger rows of versions it does not have, and never
\* changes the profile or adopts a schema without a ledger.
Extends ==
  /\ db.ledger \subseteq db'.ledger
  /\ db.profile # NoProfile => db'.profile = db.profile
  /\ db.schema # {} /\ db.ledger = {} => db' = db
  /\ \A row : row[1] \in Versions(db.ledger) /\ row \notin db.ledger =>
       row[1] \in Versions(db'.ledger) /\ row \notin db'.ledger

LEMMA DbExtends ==
  ASSUME IInv, [Next]_vars
  PROVE  Extends
<1>1. CASE db' = db
  BY <1>1 DEF Extends
<1>2. ASSUME NEW m \in Migrators, Commit(m), db' # db
      PROVE  Extends
  <2> DEFINE r == mig[m].release
  <2>1. /\ r \in Releases /\ db'.profile = r.profile
        /\ db.ledger \subseteq RowsOf(r) /\ db'.ledger = RowsOf(r)
        /\ db.ledger # {} => db.profile = r.profile
        /\ db.ledger = {} => db.profile = NoProfile
    BY <1>2, CommitDb DEF IInv, OneRelease
  <2>2. db.schema = db.ledger
    BY <1>2 DEF Commit, IInv, Progress, Behind, Working
  <2> HIDE DEF r
  <2>3. ASSUME NEW row, row[1] \in Versions(db.ledger), row \notin db.ledger
        PROVE  row[1] \in Versions(db'.ledger) /\ row \notin db'.ledger
    <3>1. PICK x \in db.ledger : row[1] = x[1]
      BY <2>3 DEF Versions
    <3>2. x \in db'.ledger
      BY <2>1
    <3>3. row \notin db'.ledger
      BY <2>1, <2>3, <3>1, <3>2, OneRowPerVersion
    <3>4. QED  BY <3>1, <3>2, <3>3 DEF Versions
  <2>4. QED  BY <2>1, <2>2, <2>3 DEF Extends
<1>3. QED  BY <1>1, <1>2, OnlyCommitChangesDb

\* A migrator that has ended is where it was, or has ended with this step.
LEMMA WhoEnds ==
  ASSUME IInv, [Next]_vars, NEW m \in Migrators, mig'[m].at \in {"done", "failed"}
  PROVE  \/ mig'[m] = mig[m]
         \/ mig'[m].release = mig[m].release /\ mig'[m].at = "done" /\ Commit(m)
         \/ /\ mig'[m].release = mig[m].release /\ mig'[m].at = "failed"
            /\ Ends(m, "failed") /\ (Inspect(m) \/ Apply(m) \/ Profile(m))
<1>1. mig \in [Migrators -> Transactions]
  BY DEF IInv, Types
<1>2. ASSUME NEW x \in Migrators \ {m}, Begin(x) \/ Step(x) \/ Lost(x)
      PROVE  mig'[m] = mig[m]
  BY <1>1, <1>2 DEF Begin, Step, Lock, Inspect, Apply, Execute, Profile, Commit, Lost, Ends
<1>3. CASE Begin(m) \/ Lock(m) \/ Lost(m)
  <2>1. mig'[m].at \in {"lock", "inspect", "lost"}
    <3>1. CASE Begin(m)
      <4>1. PICK r \in Releases :
              mig' = [mig EXCEPT ![m] = [NoTx EXCEPT !.at = "lock", !.release = r, !.next = 1]]
        BY <3>1 DEF Begin
      <4>2. [NoTx EXCEPT !.at = "lock", !.release = r, !.next = 1].at = "lock"
        BY NoTxType DEF Transactions
      <4>3. QED  BY <1>1, <4>1, <4>2
    <3>2. CASE Lock(m) \/ Lost(m)
      BY <1>1, <3>2 DEF Lock, Lost, Ends, Transactions
    <3>3. QED  BY <1>3, <3>1, <3>2
  <2>2. QED  BY <2>1
<1>4. CASE Execute(m)
  <2>1. mig'[m].at = "apply"
    BY <1>1, <1>4, ExecuteSucceeds DEF Execute, Transactions
  <2>2. QED  BY <2>1
<1>5. CASE Inspect(m) \/ Apply(m) \/ Profile(m)
  <2>1. CASE Ends(m, "failed")
    BY <1>1, <1>5, <2>1 DEF Ends, Transactions
  <2>2. CASE ~Ends(m, "failed")
    <3>1. mig'[m].at \in {"apply", "execute", "commit"}
      BY <1>1, <1>5, <2>2 DEF Inspect, Apply, Profile, Transactions
    <3>2. QED  BY <3>1
  <2>3. QED  BY <2>1, <2>2
<1>6. CASE Commit(m)
  <2>1. mig'[m].at \in {"done", "lost"} /\ mig'[m].release = mig[m].release
    BY <1>1, <1>6 DEF Commit, Transactions
  <2>2. QED  BY <1>6, <2>1
<1>7. CASE UNCHANGED mig
  BY <1>7
<1>8. QED
  BY <1>2, <1>3, <1>4, <1>5, <1>6, <1>7 DEF Next, Step, VerifyProfile, Stop, vars

LEMMA SuccessStaysTrue ==
  ASSUME IInv, SuccessIsTrue, [Next]_vars
  PROVE  SuccessIsTrue'
<1> SUFFICES ASSUME NEW m \in Migrators, mig'[m].at = "done"
             PROVE  /\ RowsOf(mig'[m].release) \subseteq db'.ledger
                    /\ mig'[m].release.profile = db'.profile
  BY DEF SuccessIsTrue
<1>1. mig[m].release \in Releases
  BY DEF IInv, Types, Transactions
<1>2. CASE mig'[m] = mig[m]
  BY <1>1, <1>2, DbExtends, RowsFacts DEF SuccessIsTrue, Extends
<1>3. CASE mig'[m].release = mig[m].release /\ Commit(m)
  BY <1>3, CommitDb
<1>4. QED  BY <1>2, <1>3, WhoEnds

LEMMA FailureStaysTrue ==
  ASSUME IInv, OnlyMismatchesFail, [Next]_vars
  PROVE  OnlyMismatchesFail'
<1> SUFFICES ASSUME NEW m \in Migrators, mig'[m].at = "failed"
             PROVE  \/ db'.schema # {} /\ db'.ledger = {}
                    \/ db'.profile # NoProfile /\ db'.profile # mig'[m].release.profile
                    \/ \E row \in RowsOf(mig'[m].release) :
                         row[1] \in Versions(db'.ledger) /\ row \notin db'.ledger
  BY DEF OnlyMismatchesFail
<1>1. mig[m].release \in Releases
  BY DEF IInv, Types, Transactions
<1>2. CASE mig'[m] = mig[m]
  BY <1>2, DbExtends DEF OnlyMismatchesFail, Extends
<1>3. CASE mig'[m].release = mig[m].release /\ Ends(m, "failed")
           /\ (Inspect(m) \/ Apply(m) \/ Profile(m))
  <2>1. db' = db
    BY <1>3 DEF Ends, RolledBack
  <2>2. mig[m].at \in {"inspect", "apply"} /\ mig'[m].at = "failed"
    BY <1>3 DEF Inspect, Apply, Profile, Ends, IInv, Types
  <2>3. mig[m] \in Transactions /\ mig \in [Migrators -> Transactions]
    BY DEF IInv, Types
  <2>4. CASE Inspect(m)
    <3>1. mig' # [mig EXCEPT ![m].at = "apply"]
      BY <2>2, <2>3 DEF Transactions
    <3>2. QED  BY <1>3, <2>1, <2>4, <3>1 DEF Inspect
  <2>5. CASE Apply(m)
    <3> DEFINE v == mig[m].next
               row == <<v, mig[m].release.sums[v]>>
    <3>1. /\ mig' # [mig EXCEPT ![m].next = v + 1]
          /\ mig' # [mig EXCEPT ![m].at = "execute"]
      BY <2>2, <2>3 DEF Transactions
    <3>2. v \in Versions(db.ledger) /\ row \notin db.ledger /\ v <= Len(mig[m].release.sums)
      BY <2>5, <3>1 DEF Apply, Recorded
    <3>3. v \in 1 .. Len(mig[m].release.sums)
      BY <2>5, <3>2, <1>1, RowsFacts DEF IInv, Progress, Behind, Working, Apply
    <3>4. row \in RowsOf(mig[m].release) /\ row[1] = v
      BY <1>1, <3>3, RowsFacts
    <3>5. QED  BY <1>3, <2>1, <3>2, <3>4
  <2>6. CASE Profile(m)
    <3>1. mig' # [mig EXCEPT ![m].at = "commit", ![m].profile = mig[m].release.profile]
      BY <2>2, <2>3 DEF Transactions
    <3>2. QED  BY <1>3, <2>1, <2>6, <3>1 DEF Profile, ProfileFits
  <2>7. QED  BY <1>3, <2>4, <2>5, <2>6
<1>4. QED  BY <1>2, <1>3, WhoEnds

LEMMA ServicesStayMatched ==
  ASSUME IInv, ServicesMatch, [Next]_vars
  PROVE  ServicesMatch'
<1> SUFFICES ASSUME NEW s \in Services, serving'[s] # NoProfile
             PROVE  serving'[s] = db'.profile
  BY DEF ServicesMatch
<1>1. CASE serving'[s] = serving[s]
  BY <1>1, DbExtends DEF ServicesMatch, Extends
<1>2. ASSUME NEW x \in Services, VerifyProfile(x) \/ Stop(x)
      PROVE  serving'[s] = db'.profile
  BY <1>1, <1>2 DEF VerifyProfile, Stop, IInv, Types
<1>3. CASE serving' = serving
  BY <1>1, <1>3
<1>4. QED
  BY <1>2, <1>3 DEF Next, vars, Begin, Step, Lost, Lock, Inspect, Apply, Execute, Profile,
                    Commit, Ends

\* What a migrator that ends and a service that starts report of the database
\* is true of it from then on, whatever other releases run Migrate.
THEOREM ReportsStayTrue == Spec => []ConclusionsAreTrue
<1>1. Init => ConclusionsAreTrue
  BY NoTxType DEF Init, ConclusionsAreTrue, SuccessIsTrue, OnlyMismatchesFail, ServicesMatch
<1>2. IInv /\ ConclusionsAreTrue /\ [Next]_vars => ConclusionsAreTrue'
  BY SuccessStaysTrue, FailureStaysTrue, ServicesStayMatched DEF ConclusionsAreTrue
<1>3. QED  BY <1>1, <1>2, Inductive, PTL DEF Spec
=============================================================================
