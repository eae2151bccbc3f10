----------------------------- MODULE LoginGuard -----------------------------
(***************************************************************************)
(* The guard of the login handler: apiLogin of                             *)
(* internal/transport/webapp/api.go and loginGuard of server.go.           *)
(*                                                                         *)
(* A login reads the clock, asks the guard, compares the password for as   *)
(* long as bcrypt takes, and tells the guard the outcome, with the time it *)
(* read at first.  Other logins run in between; only the guard's methods   *)
(* exclude each other.                                                     *)
(***************************************************************************)
EXTENDS Integers, Sequences, FiniteSets

CONSTANTS
  Addresses,         \* client addresses
  Logins,            \* logins the server handles at a time
  FailureLimit,      \* loginFailureLimit (5)
  FailureWindow,     \* loginFailureWindow (5 minutes)
  MaxFailureEntries, \* maxLoginFailureEntries (1024)
  LoginTime,         \* the longest a login takes (a bcrypt comparison)
  MaxNow,            \* bound: the clock
  MaxFailures        \* bound: wrong passwords in all

GuardAssumption ==
  /\ IsFiniteSet(Addresses) /\ IsFiniteSet(Logins)
  /\ {FailureLimit, FailureWindow, MaxFailureEntries, MaxNow} \subseteq Nat \ {0}
  /\ {LoginTime, MaxFailures} \subseteq Nat

VARIABLES
  now,      \* the clock
  failures, \* loginGuard.failures
  login,    \* the logins under way
  wrong,    \* history: when wrong passwords of an address were recorded,
            \* since its last right one
  dropped   \* history: addresses of whose failures some were dropped within
            \* their window, since the last right password

guardVars == <<now, failures, login, wrong, dropped>>

NoEntry == [count |-> 0, resetAt |-> 0, lastSeen |-> 0]
NoLogin == [at |-> "idle", address |-> "none", now |-> 0]

GuardInit ==
  /\ now = 1
  /\ failures = [a \in Addresses |-> NoEntry]
  /\ login = [q \in Logins |-> NoLogin]
  /\ wrong = [a \in Addresses |-> <<>>]
  /\ dropped = {}

Entries(table) == {a \in Addresses : table[a] # NoEntry}

Without(table, gone) == [a \in Addresses |-> IF a \in gone THEN NoEntry ELSE table[a]]

Attempt(q) ==
  /\ login[q] = NoLogin
  /\ \E a \in Addresses :
       login' = [login EXCEPT ![q] = [at |-> "arrived", address |-> a, now |-> now]]
  /\ UNCHANGED <<now, failures, wrong, dropped>>

-----------------------------------------------------------------------------
(* loginGuard.                                                             *)

\* Mutant: one failure more.
BlockedLate(entry, time) == time < entry.resetAt /\ entry.count > FailureLimit

Blocked(entry, time) == time < entry.resetAt /\ entry.count >= FailureLimit

\* allow, which also forgets an entry whose window is over.
Allow(q) ==
  LET a == login[q].address
      t == login[q].now
  IN /\ login[q].at = "arrived"
     /\ failures' = IF t >= failures[a].resetAt THEN Without(failures, {a}) ELSE failures
     /\ login' = [login EXCEPT ![q] = IF Blocked(failures[a], t) THEN NoLogin
                                      ELSE [@ EXCEPT !.at = "compare"]]
     /\ UNCHANGED <<now, wrong, dropped>>

\* Mutant: every failure starts the window again.
CountedSliding(entry, time) ==
  [count |-> (IF time >= entry.resetAt THEN 0 ELSE entry.count) + 1,
   resetAt |-> time + FailureWindow, lastSeen |-> time]

Counted(entry, time) ==
  LET over == time >= entry.resetAt
  IN [count    |-> (IF over THEN 0 ELSE entry.count) + 1,
      resetAt  |-> IF over THEN time + FailureWindow ELSE entry.resetAt,
      lastSeen |-> time]

\* The entries a full table loses: those whose window is over, and if there
\* are none, one seen the longest ago - it may be the one just written.
Evictions(table, time) ==
  LET over   == {a \in Entries(table) : time >= table[a].resetAt}
      oldest == {a \in Entries(table) : \A b \in Entries(table) : table[a].lastSeen <= table[b].lastSeen}
  IN IF Cardinality(Entries(table)) <= MaxFailureEntries THEN {{}}
     ELSE IF over # {} THEN {over}
     ELSE {{a} : a \in oldest}

WrongPassword(q) ==
  LET a == login[q].address
      t == login[q].now
      recorded == [failures EXCEPT ![a] = Counted(@, t)]
  IN /\ login[q].at = "compare"
     /\ \E gone \in Evictions(recorded, t) :
          /\ failures' = Without(recorded, gone)
          /\ dropped' = dropped \cup {b \in gone : t < recorded[b].resetAt}
     /\ wrong' = [wrong EXCEPT ![a] = Append(@, now)]
     /\ login' = [login EXCEPT ![q] = NoLogin]
     /\ UNCHANGED now

Reset(a) == failures' = Without(failures, {a})

RightPassword(q) ==
  LET a == login[q].address
  IN /\ login[q].at = "compare"
     /\ Reset(a)
     /\ wrong' = [wrong EXCEPT ![a] = <<>>]
     /\ dropped' = dropped \ {a}
     /\ login' = [login EXCEPT ![q] = NoLogin]
     /\ UNCHANGED now

Elapse ==
  /\ now < MaxNow
  /\ \A q \in Logins : login[q] # NoLogin => now < login[q].now + LoginTime
  /\ now' = now + 1
  /\ UNCHANGED <<failures, login, wrong, dropped>>

Recorded == {r \in Addresses \X (1 .. MaxFailures) : r[2] <= Len(wrong[r[1]])}

GuardNext ==
  \/ Elapse
  \/ \E q \in Logins : \/ Attempt(q) \/ Allow(q) \/ RightPassword(q)
                       \/ Cardinality(Recorded) < MaxFailures /\ WrongPassword(q)

GuardSpec == GuardInit /\ [][GuardNext]_guardVars

-----------------------------------------------------------------------------
(* Properties.                                                             *)

Within(a, first, last) == Cardinality({i \in DOMAIN wrong[a] : wrong[a][i] \in first .. last})

\* What one entry can count: up to the limit, and the logins that were past the
\* guard when it was reached.
MostCounted == FailureLimit - 1 + Cardinality(Logins)

GuardTypeOK ==
  /\ now \in 1 .. MaxNow
  /\ Cardinality(Entries(failures)) <= MaxFailureEntries
  /\ \A a \in Addresses : failures[a].count <= MostCounted
  /\ \A q \in Logins : login[q].at \in {"idle", "arrived", "compare"} /\ login[q].now <= now

\* Unless the full table forgot some, an address gets only so many wrong
\* passwords into any span shorter than the window by the time a login takes:
\* those of two windows that meet in it.
GuessesAreBounded ==
  \A a \in Addresses \ dropped, t \in 1 .. MaxNow :
    Within(a, t, t + FailureWindow - 1 - LoginTime) <= 2 * MostCounted

\* The guard bounds its memory and the wrong passwords it lets pass.
GuardIsBounded == GuardTypeOK /\ GuessesAreBounded

\* A login is refused only after as many wrong passwords from its address as
\* the limit, recorded within the window before it and since its last right
\* password.
RefusalIsEarned ==
  \A q \in Logins : login[q].at = "arrived" /\ login'[q] = NoLogin =>
    LET a == login[q].address
    IN Within(a, login[q].now - FailureWindow + 1, now) >= FailureLimit

\* A blocked address stays blocked, for no longer than it was told, until its
\* window is over, one of its logins succeeds, or the table is full.
BlockHolds ==
  \A a \in Addresses : Blocked(failures[a], now) /\ failures'[a] # failures[a] =>
    \/ failures'[a].count > failures[a].count /\ failures'[a].resetAt = failures[a].resetAt
    \/ wrong'[a] = <<>>
    \/ failures'[a] = NoEntry /\ Cardinality(Entries(failures)) = MaxFailureEntries

\* Logins are refused for what was recorded of their address, and an address
\* that is blocked stays so (allow, recordFailure, reset).
BlocksAreJust == [][RefusalIsEarned /\ BlockHolds]_guardVars
=============================================================================
