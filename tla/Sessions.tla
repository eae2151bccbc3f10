------------------------------ MODULE Sessions ------------------------------
(***************************************************************************)
(* Browser sessions shared by several web processes: issueSession,         *)
(* currentSession, auth, csrf and deleteSession of                         *)
(* internal/transport/webapp, over SessionStore of                         *)
(* internal/adapters/postgres/session_store.go.                            *)
(*                                                                         *)
(* Three clocks decide: that of the process that issues a session sets its *)
(* end, that of the process that loads it is compared with the end, and    *)
(* the database's prunes.  A clock is read before the statement it goes    *)
(* into.  That a token is not guessed and that a form sends its CSRF token *)
(* is taken for granted.                                                   *)
(***************************************************************************)
EXTENDS Integers

CONSTANTS
  Processes,   \* web processes
  Skew,        \* how far the clock of each process is ahead
  DatabaseSkew,
  Spread,      \* how far any two of the clocks are apart
  Tokens,      \* session tokens, each issued once
  Requests,    \* requests the processes handle at a time
  TTL,         \* sessionTTL (30 minutes)
  RequestTime, \* the longest from reading a clock to the end of the statement
  MaxTime      \* bound: time

\* Only differences of clocks count, so time is counted from where no process
\* reads less than 0: a row's end is never 0.
ClocksAssumption ==
  /\ Skew \in [Processes -> Int] /\ DatabaseSkew \in Int /\ Spread \in Nat
  /\ \A p \in Processes :
       /\ Skew[p] >= -1
       /\ Skew[p] - DatabaseSkew \in -Spread .. Spread
       /\ \A other \in Processes : Skew[p] - Skew[other] <= Spread
  /\ TTL \in Nat \ {0} /\ RequestTime \in Nat /\ MaxTime \in Nat \ {0}

VARIABLES
  time,    \* the time all clocks are off from
  rows,    \* browser_session: when each session ends, 0 without a row
  request, \* the requests under way
  issued,  \* history: when the sessions that browsers hold were issued, or 0
  revoked  \* history: tokens that were deleted

sessionVars == <<time, rows, request, issued, revoked>>

NoRequest == [at |-> "idle", token |-> "none", clock |-> 0, since |-> 0, process |-> "none", kind |-> "none"]

SessionInit ==
  /\ time = 1
  /\ rows = [t \in Tokens |-> 0]
  /\ request = [q \in Requests |-> NoRequest]
  /\ issued = [t \in Tokens |-> 0]
  /\ revoked = {}

Clock(p) == time + Skew[p]

Goes(q, at) == request' = [request EXCEPT ![q].at = at, ![q].since = time]

-----------------------------------------------------------------------------
(* Login: Create prunes with the database's clock, then inserts.           *)

Login(q) ==
  /\ request[q] = NoRequest
  /\ \E p \in Processes, t \in Tokens :
       /\ issued[t] = 0 /\ rows[t] = 0 /\ \A other \in Requests : request[other].token # t
       /\ request' = [request EXCEPT ![q] =
            [at |-> "prune", token |-> t, clock |-> Clock(p) + TTL, since |-> time,
             process |-> p, kind |-> "login"]]
  /\ UNCHANGED <<time, rows, issued, revoked>>

\* Mutant: without the condition.
OverAny(end) == TRUE

Over(end) == end <= time + DatabaseSkew

Prune(q) ==
  /\ request[q].at = "prune"
  /\ rows' = [t \in Tokens |-> IF Over(rows[t]) THEN 0 ELSE rows[t]]
  /\ Goes(q, "insert")
  /\ UNCHANGED <<time, issued, revoked>>

Inserted(q) == [rows EXCEPT ![request[q].token] = request[q].clock]

Insert(q) ==
  /\ request[q].at = "insert"
  /\ rows' = Inserted(q)
  /\ issued' = [issued EXCEPT ![request[q].token] =
       request[q].clock - TTL - Skew[request[q].process]]
  /\ request' = [request EXCEPT ![q] = NoRequest]
  /\ UNCHANGED <<time, revoked>>

-----------------------------------------------------------------------------
(* A request with a session's cookie.                                      *)

\* Only what changes state passes csrf, which loads the session again.
Arrive(q) ==
  /\ request[q] = NoRequest
  /\ \E p \in Processes, t \in Tokens, kind \in {"read", "logout"} :
       /\ issued[t] # 0
       /\ request' = [request EXCEPT ![q] =
            [at |-> "auth", token |-> t, clock |-> Clock(p), since |-> time,
             process |-> p, kind |-> kind]]
  /\ UNCHANGED <<time, rows, issued, revoked>>

Live(end, clock) == end > clock

Passes(q) ==
  /\ request[q].at \in {"auth", "csrf"}
  /\ Live(rows[request[q].token], request[q].clock)

Admitted(q) ==
  /\ Passes(q)
  /\ \/ /\ request[q].kind = "read"
        /\ request' = [request EXCEPT ![q] = NoRequest]
     \/ /\ request[q].kind = "logout" /\ request[q].at = "auth"
        /\ request' = [request EXCEPT ![q].at = "csrf", ![q].since = time,
                                      ![q].clock = Clock(request[q].process)]
     \/ /\ request[q].at = "csrf"
        /\ Goes(q, "delete")
  /\ UNCHANGED <<time, rows, issued, revoked>>

Refused(q) ==
  /\ request[q].at \in {"auth", "csrf"} /\ ~Passes(q)
  /\ request' = [request EXCEPT ![q] = NoRequest]
  /\ UNCHANGED <<time, rows, issued, revoked>>

\* Mutant: a logout takes the cookie back and leaves the row.
DeletedNothing(t) == rows

Deleted(t) == [rows EXCEPT ![t] = 0]

Logout(q) ==
  /\ request[q].at = "delete"
  /\ rows' = Deleted(request[q].token)
  /\ revoked' = revoked \cup {request[q].token}
  /\ request' = [request EXCEPT ![q] = NoRequest]
  /\ UNCHANGED <<time, issued>>

\* The statement is answered with an error, or not at all: it may have been
\* carried out.
CallFails(q) ==
  /\ request[q] # NoRequest
  /\ \/ UNCHANGED <<rows, revoked>>
     \/ request[q].at = "insert" /\ rows' = Inserted(q) /\ UNCHANGED revoked
     \/ /\ request[q].at = "delete"
        /\ rows' = Deleted(request[q].token)
        /\ revoked' = revoked \cup {request[q].token}
  /\ request' = [request EXCEPT ![q] = NoRequest]
  /\ UNCHANGED <<time, issued>>

Tick ==
  /\ time < MaxTime
  /\ \A q \in Requests : request[q] # NoRequest => time < request[q].since + RequestTime
  /\ time' = time + 1
  /\ UNCHANGED <<rows, request, issued, revoked>>

SessionNext ==
  \/ Tick
  \/ \E q \in Requests :
       \/ Login(q) \/ Prune(q) \/ Insert(q)
       \/ Arrive(q) \/ Admitted(q) \/ Refused(q) \/ Logout(q) \/ CallFails(q)

SessionSpec == SessionInit /\ [][SessionNext]_sessionVars

-----------------------------------------------------------------------------
(* Properties.                                                             *)

Loading(q) == request[q].at \in {"auth", "csrf"}

\* Rows are there for issued sessions and for logins that lost their answer.
SessionTypeOK ==
  /\ rows \in [Tokens -> Nat] /\ time \in 1 .. MaxTime
  /\ \A q \in Requests : request[q] # NoRequest => time <= request[q].since + RequestTime
  /\ \A t \in revoked : issued[t] # 0 /\ rows[t] = 0

\* A session is honoured for no longer than its time, give or take what the
\* clocks differ by and the statement that was under way.
EndsInTime ==
  \A q \in Requests : Loading(q) /\ Passes(q) =>
    time < issued[request[q].token] + TTL + Spread + RequestTime

\* No session ends sooner, whoever else logs in meanwhile, unless it is logged
\* out.
NotSooner ==
  \A q \in Requests : Loading(q) /\ ~Passes(q) /\ request[q].token \notin revoked =>
    time >= issued[request[q].token] + TTL - Spread

\* A session lasts its time (Create, Load).
SessionsLast == EndsInTime /\ NotSooner

\* A request that comes after the logout is refused in every process, and one
\* that was under way is refused at its next look.
LogoutIsFinal ==
  \A q \in Requests : request[q].token \in revoked => ~Passes(q)
=============================================================================
