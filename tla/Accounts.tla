------------------------------ MODULE Accounts ------------------------------
(***************************************************************************)
(* The accounts (internal/auth, sqlstore/auth.go, the handlers of          *)
(* internal/api): requests in flight that change who may do what, in       *)
(* transactions of SQLite, where the first statement that writes waits for *)
(* the one transaction that is writing; logins with the lockout that       *)
(* follows failures; the sessions they open.  A password is a number, a    *)
(* scope is whether it is everything.                                      *)
(***************************************************************************)
EXTENDS Naturals

CONSTANTS
    Accounts,
    Clients,            \* requests in flight
    None,               \* no account, no record of failures, no client
    Gone,               \* an account that was deleted: its id is not reused
    MaxLoginAttempts,   \* MaxLoginAttempts
    LockoutWindow,      \* LockoutWindow
    SessionTTL,         \* Options.SessionTTL
    Patience,           \* bound: how long a login lasts, less than LockoutWindow
    MaxTime,            \* bound: the clock
    MaxRequests         \* bound: the number of requests

VARIABLES
    account,        \* table app_user, with the scope
    sessions,       \* table session
    failures,       \* Service.failures, under Service.mu
    writer,         \* the transaction that holds the write lock
    request, requests, now,
    granted,        \* ghost: the access each account was last given
    chosen,         \* ghost: the password each was last given
    administered,   \* ghost: an account has administered everything
    earned          \* ghost: failures since a success or the end of a lockout

vars == <<account, sessions, failures, writer, request, requests, now, granted, chosen,
          administered, earned>>
ghosts == <<granted, chosen, administered, earned>>

Roles == {"admin", "viewer"}
Row == [role: Roles, all: BOOLEAN, hash: 0..MaxRequests]
Idle == [step |-> "idle"]
Live(u) == account[u] \notin {None, Gone}
Access(row) == <<row.role, row.all>>
FullAdmins(table) == {u \in Accounts : table[u] \notin {None, Gone} /\ Access(table[u]) = <<"admin", TRUE>>}

TypeOK ==
    /\ account \in [Accounts -> Row \cup {None, Gone}]
    /\ sessions \subseteq [user: Accounts, until: 0..MaxTime + SessionTTL]
    /\ \A u \in Accounts :
         failures[u] = None \/ failures[u] \in [count: Nat \ {0}, till: 0..MaxTime + LockoutWindow]
    /\ writer \in Clients \cup {None}
    /\ \A c \in Clients : request[c].step \in
         {"idle", "setup", "lock", "keep", "commit", "password", "hash", "drop", "verify", "open"}
    /\ requests \in 0..MaxRequests /\ now \in 0..MaxTime

Init ==
    /\ account = [u \in Accounts |-> None]
    /\ sessions = {} /\ failures = [u \in Accounts |-> None]
    /\ writer = None /\ request = [c \in Clients |-> Idle] /\ requests = 0 /\ now = 0
    /\ granted = [u \in Accounts |-> <<"viewer", FALSE>>] /\ chosen = [u \in Accounts |-> 0]
    /\ administered = FALSE /\ earned = [u \in Accounts |-> 0]

Goes(c, r) == request' = [request EXCEPT ![c] = r]
End(c) == Goes(c, Idle)

\* A login does not outlast a lockout.
Tick ==
    /\ now < MaxTime
    /\ \A c \in Clients : request[c].step = "verify" => now < request[c].at + Patience
    /\ now' = now + 1
    /\ earned' = [u \in Accounts |->
         IF failures[u] # None /\ failures[u].till = now + 1 THEN 0 ELSE earned[u]]
    /\ UNCHANGED <<account, sessions, failures, writer, request, requests, granted, chosen,
                   administered>>

Request(c) == request[c].step = "idle" /\ requests < MaxRequests /\ requests' = requests + 1

-----------------------------------------------------------------------------
(***************************************************************************)
(* Who may do what.                                                        *)
(***************************************************************************)
\* A row that is committed, and the ghosts that follow it.
Stored(u, row) ==
    /\ account' = [account EXCEPT ![u] = row]
    /\ administered' = (administered \/ FullAdmins(account') # {})

\* CreateInitialAdmin: an empty table ...
Setup(c) ==
    /\ Request(c) /\ \A u \in Accounts : ~ Live(u)
    /\ Goes(c, [step |-> "setup"])
    /\ UNCHANGED <<account, sessions, failures, writer, now, ghosts>>

\* ... and a first account, an administrator of everything.
\* CreateUser: an account with what the caller may give.
Create(c) ==
    /\ writer = None
    /\ \E u \in Accounts, role \in Roles, all \in BOOLEAN :
         /\ account[u] = None
         /\ \/ request[c].step = "setup" /\ role = "admin" /\ all /\ End(c) /\ UNCHANGED requests
            \/ FullAdmins(account) # {} /\ Request(c) /\ UNCHANGED request
         /\ Stored(u, [role |-> role, all |-> all, hash |-> 0])
         /\ granted' = [granted EXCEPT ![u] = <<role, all>>]
         /\ chosen' = [chosen EXCEPT ![u] = 0]
    /\ UNCHANGED <<sessions, failures, writer, now, earned>>

\* Mutant of Waits: the transactions are not serialised.
WaitsNot == TRUE

\* lockFullAdmins writes first, so that the second transaction waits here.
Waits == writer = None

\* SetAccess or Delete: the request, its transaction and the count before.
Begin(c) ==
    /\ Request(c)
    /\ \E u \in Accounts, role \in Roles, all \in BOOLEAN \cup {None} :
         \/ Goes(c, [step |-> "lock", user |-> u, role |-> role, all |-> all])
         \/ Goes(c, [step |-> "lock", user |-> u, role |-> None, all |-> None])
    /\ UNCHANGED <<account, sessions, failures, writer, now, ghosts>>

Lock(c) ==
    /\ request[c].step = "lock" /\ Waits
    /\ IF ~ Live(request[c].user) THEN End(c) /\ UNCHANGED writer
       ELSE /\ writer' = c
            /\ request' = [request EXCEPT ![c] = [step |-> "keep", user |-> @.user,
                 role |-> @.role, all |-> @.all, before |-> FullAdmins(account) # {}]]
    /\ UNCHANGED <<account, sessions, failures, requests, now, ghosts>>

\* Mutant of Changed: a scope that is left out is everything.
ChangedToAll(row, role, all) ==
    [row EXCEPT !.role = role, !.all = IF all = None THEN TRUE ELSE all]

\* The row a transaction leaves: a scope that is left out stays.
Changed(row, role, all) ==
    [row EXCEPT !.role = role, !.all = IF all = None THEN @ ELSE all]

After(r) == IF r.role = None THEN Gone ELSE Changed(account[r.user], r.role, r.all)

\* Mutant of Refused: the last administrator may go.
RefusedNever(before, table) == FALSE

\* keepFullAdmin: from some to none.
Refused(before, table) == before /\ FullAdmins(table) = {}

Keep(c) ==
    LET r == request[c] IN
    /\ r.step = "keep"
    /\ IF ~ Live(r.user) \/ Refused(r.before, [account EXCEPT ![r.user] = After(r)])
         THEN End(c) /\ writer' = None
         ELSE request' = [request EXCEPT ![c].step = "commit"] /\ UNCHANGED writer
    /\ UNCHANGED <<account, sessions, failures, requests, now, ghosts>>

\* The sessions of an account that is deleted go with it.
Commit(c) ==
    LET r == request[c] IN
    /\ r.step = "commit"
    /\ Stored(r.user, IF Live(r.user) THEN After(r) ELSE account[r.user])
    /\ sessions' = IF r.role = None THEN {s \in sessions : s.user # r.user} ELSE sessions
    /\ granted' = [granted EXCEPT ![r.user] =
         IF r.role = None THEN @ ELSE <<r.role, IF r.all = None THEN @[2] ELSE r.all>>]
    /\ writer' = None /\ End(c)
    /\ UNCHANGED <<failures, requests, now, chosen, earned>>

-----------------------------------------------------------------------------
(***************************************************************************)
(* The password.                                                           *)
(***************************************************************************)
\* ChangePassword reads the account ...
Read(c) ==
    /\ Request(c)
    /\ \E u \in Accounts :
         /\ Live(u)
         /\ Goes(c, [step |-> "hash", user |-> u, read |-> account[u], next |-> requests'])
    /\ UNCHANGED <<account, sessions, failures, writer, now, ghosts>>

\* Mutant of Hashed: the account is written back as it was read.
HashedWhole(row, read, next) == [read EXCEPT !.hash = next]

\* SetPasswordHash.
Hashed(row, read, next) == [row EXCEPT !.hash = next]

\* ... writes its column ...
WriteHash(c) ==
    LET r == request[c] IN
    /\ r.step = "hash" /\ writer = None
    /\ IF ~ Live(r.user) THEN End(c) /\ UNCHANGED <<account, chosen>>
       ELSE /\ account' = [account EXCEPT ![r.user] = Hashed(@, r.read, r.next)]
            /\ chosen' = [chosen EXCEPT ![r.user] = r.next]
            /\ Goes(c, [step |-> "drop", user |-> r.user])
    /\ UNCHANGED <<sessions, failures, writer, requests, now, granted, administered, earned>>

\* ... and ends the sessions.
DropSessions(c) ==
    /\ request[c].step = "drop" /\ writer = None
    /\ sessions' = {s \in sessions : s.user # request[c].user}
    /\ End(c)
    /\ UNCHANGED <<account, failures, writer, requests, now, ghosts>>

-----------------------------------------------------------------------------
(***************************************************************************)
(* Logins.                                                                 *)
(***************************************************************************)
\* Mutant of Forgets: a lockout that ended leaves its count.
ForgetsNever(u) == FALSE

\* locked: a record whose window is over is dropped.
Forgets(u) == failures[u] # None /\ failures[u].till # 0 /\ now >= failures[u].till
IsLocked(u) == failures[u] # None /\ failures[u].till # 0 /\ now < failures[u].till

Login(c) ==
    /\ Request(c)
    /\ \E u \in Accounts :
         /\ failures' = IF Forgets(u) THEN [failures EXCEPT ![u] = None] ELSE failures
         /\ IF IsLocked(u) THEN UNCHANGED request
            ELSE Goes(c, [step |-> "verify", user |-> u, at |-> now])
    /\ UNCHANGED <<account, sessions, writer, now, ghosts>>

\* recordFailure: the record locks once the count is reached.
Recorded(record) ==
    LET count == IF record = None THEN 1 ELSE record.count + 1
    IN [count |-> count,
        till  |-> IF count >= MaxLoginAttempts THEN now + LockoutWindow
                  ELSE IF record = None THEN 0 ELSE record.till]

Fail(c) ==
    /\ request[c].step = "verify"
    /\ LET u == request[c].user IN
       /\ failures' = [failures EXCEPT ![u] = Recorded(@)]
       /\ earned' = [earned EXCEPT ![u] = @ + 1]
    /\ End(c)
    /\ UNCHANGED <<account, sessions, writer, requests, now, granted, chosen, administered>>

\* clearFailures.
Succeed(c) ==
    /\ request[c].step = "verify" /\ Live(request[c].user)
    /\ LET u == request[c].user IN
       /\ failures' = [failures EXCEPT ![u] = None]
       /\ earned' = [earned EXCEPT ![u] = 0]
    /\ request' = [request EXCEPT ![c].step = "open"]
    /\ UNCHANGED <<account, sessions, writer, requests, now, granted, chosen, administered>>

\* openSession, of an account that is still there.
OpenSession(c) ==
    /\ request[c].step = "open" /\ writer = None
    /\ sessions' = IF Live(request[c].user)
                     THEN sessions \cup {[user |-> request[c].user, until |-> now + SessionTTL]}
                     ELSE sessions
    /\ End(c)
    /\ UNCHANGED <<account, failures, writer, requests, now, ghosts>>

\* Logout; SweepExpiredSessions.
Logout(s) ==
    /\ s \in sessions /\ writer = None /\ sessions' = sessions \ {s}
    /\ UNCHANGED <<account, failures, writer, request, requests, now, ghosts>>

Sweep ==
    /\ writer = None /\ sessions' = {s \in sessions : s.until >= now} /\ sessions' # sessions
    /\ UNCHANGED <<account, failures, writer, request, requests, now, ghosts>>

Next ==
    \/ Tick \/ Sweep
    \/ \E s \in sessions : Logout(s)
    \/ \E c \in Clients :
         \/ Setup(c) \/ Create(c) \/ Begin(c) \/ Lock(c) \/ Keep(c) \/ Commit(c)
         \/ Read(c) \/ WriteHash(c) \/ DropSessions(c)
         \/ Login(c) \/ Fail(c) \/ Succeed(c) \/ OpenSession(c)

Spec == Init /\ [][Next]_vars

-----------------------------------------------------------------------------
\* An installation that had an administrator of everything has one, whatever
\* the demotions and deletions that overlap (sqlstore/auth.go, keepFullAdmin).
FullAdminStays == administered => FullAdmins(account) # {}

\* No request undoes another: each account has the access and the password it
\* was last given (auth.go, ChangePassword and SetAccess).
NothingUndone ==
    \A u \in Accounts : Live(u) =>
        Access(account[u]) = granted[u] /\ account[u].hash = chosen[u]

\* A lockout takes MaxLoginAttempts failures since the last success or the end
\* of the last lockout, not one more failure after it (auth.go, locked).
LockIsEarned ==
    \A u \in Accounts : IsLocked(u) => earned[u] >= MaxLoginAttempts

\* A session belongs to an account that is there.
SessionsHaveAccounts == \A s \in sessions : Live(s.user)

AccountsSound == FullAdminStays /\ NothingUndone /\ LockIsEarned /\ SessionsHaveAccounts
=============================================================================
