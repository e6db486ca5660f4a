---------------------------- MODULE AccessProofs ----------------------------
(***************************************************************************)
(* Theorems of who may see and change what, and of what is kept from them: *)
(* each part below instantiates the module it is about, under the names    *)
(* that module gives its constants and variables.                          *)
(***************************************************************************)
EXTENDS Integers, Sequences, FiniteSets, FiniteSetTheorems, WellFoundedInduction, TLAPS

CONSTANTS
    \* Accounts
    Accounts, Clients, None, Gone, MaxLoginAttempts, LockoutWindow, SessionTTL, Patience,
    MaxTime, MaxRequests,
    \* Scopes
    Groups, Monitors, Names, Absent, Known, Named, Asked, MaxDecrees,
    \* Events
    EventBuffer, ScopeTTL, Recheck, MaxDelay, MaxEvents,
    \* Secrets
    Rows, Pushers, Instances, Keys, Generated, Texts, Targets, Levels, AutoFile, MaxStarts,
    MaxEdits,
    \* Channels
    Channels, Bodies, Ties,
    \* Announcements
    Announcements, Phases, WindowDays, Limit, MaxFailures, MaxViews,
    \* StatusPage
    Loose, Pages, Slugs, PageOf, StatusOf, Starts

VARIABLES
    \* Accounts
    account, sessions, failures, writer, request, requests, now, granted, chosen,
    administered, earned,
    \* Scopes
    group, name, place, decrees, owned, law, told,
    \* Events
    lost, session, ended, stream, screen, missed, late, blind, changes,
    \* Secrets
    row, check, file, proc, starts, edits, hand, given, past,
    \* Channels
    channel, tied, over, secret, answered, crossed,
    \* Announcements
    monitors, announcement, timeline, published, view, views, closed, overlapped, silent,
    could, always,
    \* StatusPage
    page, default, groups, component, promoted, changed, dropped

-----------------------------------------------------------------------------
(***************************************************************************)
(* Accounts.                                                               *)
(***************************************************************************)
A == INSTANCE Accounts

\* No account is a row, and a login is over before the lockout it may meet
\* (auth.go Login, LockoutWindow).
AccountSorts ==
    /\ None \notin A!Row /\ Gone \notin A!Row /\ None \notin Clients
    /\ {MaxLoginAttempts, LockoutWindow, SessionTTL, Patience, MaxTime, MaxRequests} \subseteq Nat
    /\ Patience < LockoutWindow

\* What a request remembers at each of its steps.
Deciding == [step: {"keep", "commit"}, user: Accounts, role: A!Roles \cup {None},
             all: BOOLEAN \cup {None}, before: BOOLEAN]
Waiting == [step: {"lock"}, user: Accounts, role: A!Roles \cup {None}, all: BOOLEAN \cup {None}]
Hashing == [step: {"hash"}, user: Accounts, read: A!Row, next: 0..MaxRequests]
Dropping == [step: {"drop"}, user: Accounts]
Entering == [step: {"verify", "open"}, user: Accounts, at: Nat]
Starting == [step: {"idle", "setup"}]

AccountShapes ==
    /\ account \in [Accounts -> A!Row \cup {None, Gone}]
    /\ request \in [Clients -> Starting \cup Waiting \cup Deciding \cup Hashing \cup Dropping
                                 \cup Entering]
    /\ granted \in [Accounts -> A!Roles \X BOOLEAN]
    /\ chosen \in [Accounts -> 0..MaxRequests]
    /\ sessions \subseteq [user: Accounts, until: 0..MaxTime + SessionTTL]
    /\ failures \in [Accounts -> [count: Nat \ {0}, till: 0..MaxTime + LockoutWindow] \cup {None}]
    /\ earned \in [Accounts -> Nat]
    /\ writer \in Clients \cup {None}
    /\ requests \in 0..MaxRequests /\ now \in 0..MaxTime /\ administered \in BOOLEAN

\* The one transaction that decides: what it counted still stands, and what
\* it is about to write leaves a full administrator if there was one.
Decided(c) ==
    LET r == request[c] IN
    /\ writer = c
    /\ r.before <=> A!FullAdmins(account) # {}
    /\ r.step = "commit" => /\ A!Live(r.user)
                            /\ ~ A!Refused(r.before, [account EXCEPT ![r.user] = A!After(r)])
Decides == \A c \in Clients : request[c].step \in {"keep", "commit"} => Decided(c)

\* A record that is not over has no more failures than were made, one that
\* locks has enough of them, and a login in course met no lock that is older.
Counts ==
    /\ \A u \in Accounts : failures[u] # None =>
         /\ failures[u].till = 0 \/ now < failures[u].till => failures[u].count <= earned[u]
         /\ failures[u].till # 0 => MaxLoginAttempts <= failures[u].count
    /\ \A c \in Clients : request[c].step = "verify" =>
         LET u == request[c].user IN
         /\ request[c].at <= now /\ now <= request[c].at + Patience
         /\ failures[u] # None /\ failures[u].till # 0 =>
               request[c].at + LockoutWindow <= failures[u].till

AccountInvariant ==
    /\ AccountShapes /\ Decides /\ Counts
    /\ A!FullAdminStays /\ A!NothingUndone /\ A!SessionsHaveAccounts

ghostsOfAccounts == <<granted, chosen, administered, earned>>
Requests == Starting \cup Waiting \cup Deciding \cup Hashing \cup Dropping \cup Entering

\* The step of a request says what it remembers (auth.go, sqlstore/auth.go).
LEMMA RequestShape ==
    ASSUME NEW r \in Requests
    PROVE  /\ r.step = "lock" => r \in Waiting
           /\ r.step \in {"keep", "commit"} => r \in Deciding
           /\ r.step = "hash" => r \in Hashing
           /\ r.step = "drop" => r \in Dropping
           /\ r.step \in {"verify", "open"} => r \in Entering
BY DEF Requests, Starting, Waiting, Deciding, Hashing, Dropping, Entering

\* A step of a request that leaves accounts and failures alone.
LEMMA StillDecides ==
    ASSUME Decides,
           \A d \in Clients : request'[d].step \in {"keep", "commit"} =>
               request'[d] = request[d] /\ UNCHANGED <<account, writer>>
    PROVE  Decides'
<1>1. SUFFICES ASSUME NEW d \in Clients, request'[d].step \in {"keep", "commit"}
               PROVE  Decided(d)'
  BY DEF Decides
<1>2. request'[d] = request[d] /\ account' = account /\ writer' = writer
  BY <1>1
<1>3. Decided(d)
  BY <1>1, <1>2 DEF Decides
<1>4. \A u : A!Live(u)' <=> A!Live(u)
  BY <1>2 DEF A!Live
<1>5. \A r : A!After(r)' = A!After(r)
  BY <1>2 DEF A!After
<1> QED  BY <1>2, <1>3, <1>4, <1>5 DEF Decided

LEMMA StillCounts ==
    ASSUME Counts, UNCHANGED <<failures, now, earned>>,
           \A d \in Clients : request'[d].step = "verify" => request'[d] = request[d]
    PROVE  Counts'
BY DEF Counts

LEMMA AccountsRest ==
    ASSUME A!FullAdminStays, A!NothingUndone, A!SessionsHaveAccounts,
           UNCHANGED <<account, granted, chosen, administered>>, sessions' \subseteq sessions
    PROVE  A!FullAdminStays' /\ A!NothingUndone' /\ A!SessionsHaveAccounts'
<1>1. \A u \in Accounts : A!Live(u)' <=> A!Live(u)
  BY DEF A!Live
<1>2. A!FullAdminStays'
  BY DEF A!FullAdminStays
<1>3. A!NothingUndone'
  BY <1>1 DEF A!NothingUndone
<1>4. A!SessionsHaveAccounts'
  BY DEF A!SessionsHaveAccounts, A!Live
<1> QED  BY <1>2, <1>3, <1>4

\* An installation starts with no account.
LEMMA AccountsInit ==
    ASSUME AccountSorts, A!Init
    PROVE  AccountInvariant
<1> USE DEF A!Init, AccountSorts
<1>1. AccountShapes
  <2>1. A!Idle \in Starting /\ 0 \in 0..MaxRequests /\ 0 \in 0..MaxTime
    BY DEF A!Idle, Starting
  <2>2. granted \in [Accounts -> A!Roles \X BOOLEAN]
    BY DEF A!Roles
  <2> QED  BY <2>1, <2>2 DEF AccountShapes
<1>2. \A c \in Clients : request[c].step = "idle"
  BY DEF A!Idle
<1>3. Decides /\ Counts
  BY <1>2 DEF Decides, Counts
<1>4. A!FullAdminStays /\ A!NothingUndone /\ A!SessionsHaveAccounts
  BY DEF A!FullAdminStays, A!NothingUndone, A!SessionsHaveAccounts, A!Live
<1> QED  BY <1>1, <1>3, <1>4 DEF AccountInvariant

\* Time passes: a lock that ends takes its count with it, and no login is
\* as old as a lock (auth.go locked).
LEMMA TickKeepsAccounts ==
    ASSUME AccountSorts, AccountInvariant, A!Tick
    PROVE  AccountInvariant'
<1> USE DEF AccountSorts, AccountInvariant
<1>1. /\ now < MaxTime /\ now' = now + 1
      /\ \A c \in Clients : request[c].step = "verify" => now < request[c].at + Patience
      /\ earned' = [u \in Accounts |->
           IF failures[u] # None /\ failures[u].till = now + 1 THEN 0 ELSE earned[u]]
      /\ UNCHANGED <<account, sessions, failures, writer, request, requests, granted, chosen,
                     administered>>
  BY DEF A!Tick
<1>2. AccountShapes'
  BY <1>1 DEF AccountShapes
<1>3. Decides'
  BY <1>1, StillDecides
<1>4. A!FullAdminStays' /\ A!NothingUndone' /\ A!SessionsHaveAccounts'
  BY <1>1, AccountsRest
<1>5. Counts'
  <2>1. ASSUME NEW u \in Accounts, failures[u] # None
        PROVE  /\ failures[u].till = 0 \/ now + 1 < failures[u].till =>
                     failures[u].count <= earned'[u]
               /\ failures[u].till # 0 => MaxLoginAttempts <= failures[u].count
    <3>1. failures[u] \in [count: Nat \ {0}, till: 0..MaxTime + LockoutWindow] /\ now \in Nat
      BY <2>1 DEF AccountShapes
    <3>2. failures[u].till \in Nat
      BY <3>1
    <3>3. failures[u].till = 0 \/ now + 1 < failures[u].till => earned'[u] = earned[u]
      BY <1>1, <3>1, <3>2
    <3> QED  BY <2>1, <3>1, <3>2, <3>3 DEF Counts
  <2>2. ASSUME NEW c \in Clients, request[c].step = "verify"
        PROVE  request[c].at <= now + 1 /\ now + 1 <= request[c].at + Patience
    <3>1. request[c].at \in Nat /\ now \in Nat
      BY <2>2, RequestShape DEF AccountShapes, Requests, Entering
    <3> QED  BY <1>1, <2>2, <3>1 DEF Counts
  <2> QED  BY <1>1, <2>1, <2>2 DEF Counts
<1> QED  BY <1>2, <1>3, <1>4, <1>5

\* A step that changes no account and no record of failures, and starts no
\* verification and no decision.
LEMMA QuietStepKeepsAccounts ==
    ASSUME AccountSorts, AccountInvariant,
           UNCHANGED <<account, failures, now, ghostsOfAccounts>>,
           request' \in [Clients -> Requests],
           requests' \in 0..MaxRequests, writer' \in Clients \cup {None},
           sessions' \subseteq [user: Accounts, until: 0..MaxTime + SessionTTL],
           \A s \in sessions' : s \in sessions \/ A!Live(s.user),
           \A d \in Clients : request'[d].step = "verify" => request'[d] = request[d],
           \A d \in Clients : request'[d].step \in {"keep", "commit"} =>
               request'[d] = request[d] /\ UNCHANGED writer
    PROVE  AccountInvariant'
<1> USE DEF AccountInvariant, ghostsOfAccounts
<1>1. AccountShapes'
  BY DEF AccountShapes, Requests
<1>2. Decides'
  BY StillDecides
<1>3. Counts'
  BY StillCounts
<1>4. A!FullAdminStays' /\ A!NothingUndone'
  BY AccountsRest DEF A!FullAdminStays, A!NothingUndone, A!Live
<1>5. A!SessionsHaveAccounts'
  BY DEF A!SessionsHaveAccounts, A!Live
<1> QED  BY <1>1, <1>2, <1>3, <1>4, <1>5

\* CreateInitialAdmin and the other requests that only begin.
LEMMA BeginningsKeepAccounts ==
    ASSUME AccountSorts, AccountInvariant, NEW c \in Clients,
           A!Setup(c) \/ A!Begin(c) \/ A!Read(c)
    PROVE  AccountInvariant'
<1>1. request \in [Clients -> Requests] /\ requests' \in 0..MaxRequests
  BY DEF AccountInvariant, AccountShapes, Requests, AccountSorts, A!Setup, A!Begin, A!Read, A!Request
<1>2. /\ UNCHANGED <<account, sessions, failures, writer, now, ghostsOfAccounts>>
  BY DEF A!Setup, A!Begin, A!Read, ghostsOfAccounts, A!ghosts
<1>3. \E r \in Starting \cup Waiting \cup Hashing : request' = [request EXCEPT ![c] = r]
  <2>1. CASE A!Setup(c)
    <3>1. [step |-> "setup"] \in Starting
      BY DEF Starting
    <3> QED  BY <2>1, <3>1 DEF A!Setup, A!Goes
  <2>2. CASE A!Begin(c)
    <3>1. PICK u \in Accounts, role \in A!Roles, all \in BOOLEAN \cup {None} :
            \/ request' = [request EXCEPT ![c] =
                             [step |-> "lock", user |-> u, role |-> role, all |-> all]]
            \/ request' = [request EXCEPT ![c] =
                             [step |-> "lock", user |-> u, role |-> None, all |-> None]]
      BY <2>2 DEF A!Begin, A!Goes
    <3>2. /\ [step |-> "lock", user |-> u, role |-> role, all |-> all] \in Waiting
          /\ [step |-> "lock", user |-> u, role |-> None, all |-> None] \in Waiting
      BY DEF Waiting
    <3> QED  BY <3>1, <3>2
  <2>3. CASE A!Read(c)
    <3>1. PICK u \in Accounts :
            /\ A!Live(u)
            /\ request' = [request EXCEPT ![c] =
                 [step |-> "hash", user |-> u, read |-> account[u], next |-> requests']]
      BY <2>3 DEF A!Read, A!Goes
    <3>2. account[u] \in A!Row
      BY <3>1 DEF A!Live, AccountInvariant, AccountShapes
    <3>3. [step |-> "hash", user |-> u, read |-> account[u], next |-> requests'] \in Hashing
      BY <1>1, <3>2 DEF Hashing
    <3> QED  BY <3>1, <3>3
  <2> QED  BY <2>1, <2>2, <2>3
<1>4. PICK r \in Starting \cup Waiting \cup Hashing : request' = [request EXCEPT ![c] = r]
  BY <1>3
<1>5. r \in Requests /\ r.step \notin {"keep", "commit", "verify"}
  BY DEF Requests, Starting, Waiting, Hashing
<1>6. request' \in [Clients -> Requests]
  BY <1>1, <1>4, <1>5
<1>7. \A d \in Clients : request'[d].step \in {"keep", "commit", "verify"} =>
        request'[d] = request[d]
  BY <1>1, <1>4, <1>5

<1>8. /\ sessions' \subseteq [user: Accounts, until: 0..MaxTime + SessionTTL]
      /\ writer' \in Clients \cup {None}
  BY <1>2 DEF AccountInvariant, AccountShapes
<1> QED  BY <1>1, <1>2, <1>6, <1>7, <1>8, QuietStepKeepsAccounts

\* DropSessions, OpenSession: a session is opened of an account that is there.
LEMMA SessionsKeepAccounts ==
    ASSUME AccountSorts, AccountInvariant, NEW c \in Clients,
           A!DropSessions(c) \/ A!OpenSession(c)
    PROVE  AccountInvariant'
<1>1. request \in [Clients -> Requests] /\ A!Idle \in Requests /\ A!Idle.step = "idle"
  BY DEF AccountInvariant, AccountShapes, Requests, Starting, A!Idle
<1>2. /\ UNCHANGED <<account, failures, writer, requests, now, ghostsOfAccounts>>
      /\ request' = [request EXCEPT ![c] = A!Idle]
  BY DEF A!DropSessions, A!OpenSession, A!End, A!Goes, ghostsOfAccounts, A!ghosts
<1>3. \A s \in sessions' :
        \/ s \in sessions
        \/ s = [user |-> request[c].user, until |-> now + SessionTTL]
             /\ request[c].step = "open" /\ A!Live(request[c].user)
  BY DEF A!DropSessions, A!OpenSession
<1>4. [user |-> request[c].user, until |-> now + SessionTTL] \in
         [user: Accounts, until: 0..MaxTime + SessionTTL] \/ request[c].step # "open"
  <2>1. SUFFICES ASSUME request[c].step = "open"
                 PROVE  request[c].user \in Accounts /\ now + SessionTTL \in 0..MaxTime + SessionTTL
    OBVIOUS
  <2>2. request[c].user \in Accounts
    BY <1>1, <2>1, RequestShape DEF Entering
  <2> QED  BY <2>2 DEF AccountInvariant, AccountShapes, AccountSorts
<1>5. sessions' \subseteq [user: Accounts, until: 0..MaxTime + SessionTTL]
  BY <1>3, <1>4 DEF AccountInvariant, AccountShapes
<1>6. \A s \in sessions' : s \in sessions \/ A!Live(s.user)
  BY <1>3
<1>7. /\ request' \in [Clients -> Requests]
      /\ \A d \in Clients : request'[d].step \in {"keep", "commit", "verify"} =>
           request'[d] = request[d]
  BY <1>1, <1>2
<1>8. requests' \in 0..MaxRequests /\ writer' \in Clients \cup {None}
  BY <1>2 DEF AccountInvariant, AccountShapes
<1> QED  BY <1>2, <1>5, <1>6, <1>7, <1>8, QuietStepKeepsAccounts

\* Logout, SweepExpiredSessions, and a step that changes nothing.
LEMMA SweepsKeepAccounts ==
    ASSUME AccountSorts, AccountInvariant,
           A!Sweep \/ (\E s \in sessions : A!Logout(s)) \/ UNCHANGED A!vars
    PROVE  AccountInvariant'
<1>1. /\ UNCHANGED <<account, failures, writer, request, requests, now, ghostsOfAccounts>>
      /\ sessions' \subseteq sessions
  BY DEF A!Sweep, A!Logout, A!vars, A!ghosts, ghostsOfAccounts
<1>2. /\ request' \in [Clients -> Requests] /\ requests' \in 0..MaxRequests
      /\ writer' \in Clients \cup {None}
      /\ sessions' \subseteq [user: Accounts, until: 0..MaxTime + SessionTTL]
  BY <1>1 DEF AccountInvariant, AccountShapes, Requests
<1> QED  BY <1>1, <1>2, QuietStepKeepsAccounts

\* lockFullAdmins: the transaction that has the write lock counts before it
\* does anything, and no other one is deciding.
LEMMA LockKeepsAccounts ==
    ASSUME AccountSorts, AccountInvariant, NEW c \in Clients, A!Lock(c)
    PROVE  AccountInvariant'
<1>1. /\ request \in [Clients -> Requests] /\ A!Idle \in Requests /\ A!Idle.step = "idle"
      /\ request[c].step = "lock" /\ writer = None
      /\ UNCHANGED <<account, sessions, failures, requests, now, ghostsOfAccounts>>
  BY DEF AccountInvariant, AccountShapes, Requests, Starting, A!Idle, A!Lock, A!Waits, A!ghosts,
         ghostsOfAccounts
<1>2. request[c] \in Waiting
  BY <1>1, RequestShape
<1>3. /\ requests' \in 0..MaxRequests
      /\ sessions' \subseteq [user: Accounts, until: 0..MaxTime + SessionTTL]
  BY <1>1 DEF AccountInvariant, AccountShapes
<1>4. CASE ~ A!Live(request[c].user)
  <2>1. request' = [request EXCEPT ![c] = A!Idle] /\ writer' = None
    BY <1>1, <1>4 DEF A!Lock, A!End, A!Goes
  <2> QED  BY <1>1, <1>3, <2>1, QuietStepKeepsAccounts
<1>5. CASE A!Live(request[c].user)
  <2>1. \A d \in Clients : request[d].step \notin {"keep", "commit"}
    BY <1>1 DEF AccountInvariant, Decides, Decided, AccountSorts
  <2> DEFINE kept == [step |-> "keep", user |-> request[c].user, role |-> request[c].role,
                      all |-> request[c].all, before |-> A!FullAdmins(account) # {}]
  <2>2. request' = [request EXCEPT ![c] = kept] /\ writer' = c
    BY <1>1, <1>5 DEF A!Lock
  <2>3. kept \in Deciding
    BY <1>2 DEF Waiting, Deciding
  <2>4. kept \in Requests /\ kept.step = "keep" /\ (kept.before <=> A!FullAdmins(account) # {})
    BY <2>3 DEF Requests
  <2> HIDE DEF kept
  <2>5. /\ \A d \in Clients \ {c} : request'[d] = request[d]
        /\ request'[c] = kept /\ request' \in [Clients -> Requests]
    BY <1>1, <2>2, <2>4
  <2>6. AccountShapes'
    BY <1>1, <2>2, <2>5 DEF AccountInvariant, AccountShapes, Requests, ghostsOfAccounts
  <2>7. Decides'
    <3>1. (A!FullAdmins(account) # {})' <=> A!FullAdmins(account) # {}
      BY <1>1 DEF A!FullAdmins
    <3>2. Decided(c)'
      BY <2>2, <2>4, <2>5, <3>1 DEF Decided
    <3> QED  BY <2>1, <2>5, <3>2 DEF Decides
  <2>8. Counts'
    BY <1>1, <2>4, <2>5, StillCounts DEF AccountInvariant, ghostsOfAccounts
  <2>9. A!FullAdminStays' /\ A!NothingUndone' /\ A!SessionsHaveAccounts'
    BY <1>1, AccountsRest DEF AccountInvariant, ghostsOfAccounts
  <2> QED  BY <2>6, <2>7, <2>8, <2>9 DEF AccountInvariant
<1> QED  BY <1>4, <1>5

\* keepFullAdmin: a transaction that goes on leaves a full administrator.
LEMMA KeepKeepsAccounts ==
    ASSUME AccountSorts, AccountInvariant, NEW c \in Clients, A!Keep(c)
    PROVE  AccountInvariant'
<1>1. /\ request \in [Clients -> Requests] /\ A!Idle \in Requests /\ A!Idle.step = "idle"
      /\ request[c].step = "keep"
      /\ UNCHANGED <<account, sessions, failures, requests, now, ghostsOfAccounts>>
  BY DEF AccountInvariant, AccountShapes, Requests, Starting, A!Idle, A!Keep, A!ghosts,
         ghostsOfAccounts
<1>2. request[c] \in Deciding /\ Decided(c) /\ writer = c
  BY <1>1, RequestShape DEF AccountInvariant, Decides, Decided
<1>3. \A d \in Clients \ {c} : request[d].step \notin {"keep", "commit"}
  BY <1>2 DEF AccountInvariant, Decides, Decided
<1>4. /\ requests' \in 0..MaxRequests
      /\ sessions' \subseteq [user: Accounts, until: 0..MaxTime + SessionTTL]
  BY <1>1 DEF AccountInvariant, AccountShapes
<1>5. CASE \/ ~ A!Live(request[c].user)
           \/ A!Refused(request[c].before, [account EXCEPT ![request[c].user] = A!After(request[c])])
  <2>1. request' = [request EXCEPT ![c] = A!Idle] /\ writer' = None
    BY <1>1, <1>5 DEF A!Keep, A!End, A!Goes
  <2> QED  BY <1>1, <1>3, <1>4, <2>1, QuietStepKeepsAccounts
<1>6. CASE ~ (\/ ~ A!Live(request[c].user)
              \/ A!Refused(request[c].before,
                           [account EXCEPT ![request[c].user] = A!After(request[c])]))
  <2>1. request' = [request EXCEPT ![c].step = "commit"] /\ writer' = c
    BY <1>1, <1>2, <1>6 DEF A!Keep
  <2>2. PICK r : r = [request[c] EXCEPT !.step = "commit"]
    OBVIOUS
  <2>3. /\ r \in Deciding /\ r.step = "commit" /\ r.user = request[c].user
        /\ r.role = request[c].role /\ r.all = request[c].all /\ r.before = request[c].before
    BY <1>2, <2>2 DEF Deciding
  <2>4. r \in Requests
    BY <2>3 DEF Requests
  <2>5. /\ \A d \in Clients \ {c} : request'[d] = request[d]
        /\ request'[c] = r /\ request' \in [Clients -> Requests]
    BY <1>1, <2>1, <2>2, <2>4
  <2>6. AccountShapes'
    BY <1>1, <2>1, <2>5 DEF AccountInvariant, AccountShapes, Requests, ghostsOfAccounts
  <2>7. Decides'
    <3>1. (A!FullAdmins(account) # {})' <=> A!FullAdmins(account) # {}
      BY <1>1 DEF A!FullAdmins
    <3>2. r.before <=> A!FullAdmins(account) # {}
      BY <1>2, <2>3 DEF Decided
    <3>3. /\ A!Live(r.user)
          /\ ~ A!Refused(r.before, [account EXCEPT ![r.user] = A!After(r)])
      BY <1>6, <2>3 DEF A!After
    <3>4. (A!Live(r.user) /\ ~ A!Refused(r.before, [account EXCEPT ![r.user] = A!After(r)]))'
      BY <1>1, <3>3 DEF A!Live, A!Refused, A!After, A!FullAdmins
    <3>5. Decided(c)'
      BY <2>1, <2>3, <2>5, <3>1, <3>2, <3>4 DEF Decided
    <3> QED  BY <1>3, <2>5, <3>5 DEF Decides
  <2>8. Counts'
    BY <1>1, <2>3, <2>5, StillCounts DEF AccountInvariant, ghostsOfAccounts
  <2>9. A!FullAdminStays' /\ A!NothingUndone' /\ A!SessionsHaveAccounts'
    BY <1>1, AccountsRest DEF AccountInvariant, ghostsOfAccounts
  <2> QED  BY <2>6, <2>7, <2>8, <2>9 DEF AccountInvariant
<1> QED  BY <1>5, <1>6

\* A step that writes accounts while no other transaction is deciding, and ends
\* or leaves what its request remembers.
LEMMA WritingKeepsAccounts ==
    ASSUME AccountSorts, AccountInvariant, NEW c \in Clients,
           UNCHANGED <<failures, now, earned>>,
           \A d \in Clients \ {c} : request[d].step \notin {"keep", "commit"},
           NEW r \in Requests, r.step \notin {"keep", "commit", "verify"},
           request' = [request EXCEPT ![c] = r],
           requests' \in 0..MaxRequests, writer' \in Clients \cup {None},
           account' \in [Accounts -> A!Row \cup {None, Gone}],
           granted' \in [Accounts -> A!Roles \X BOOLEAN],
           chosen' \in [Accounts -> 0..MaxRequests],
           administered' \in BOOLEAN, administered' => administered \/ A!FullAdmins(account') # {},
           A!FullAdmins(account) # {} => A!FullAdmins(account') # {},
           \A u \in Accounts : A!Live(u)' =>
               A!Access(account'[u]) = granted'[u] /\ account'[u].hash = chosen'[u],
           sessions' \subseteq sessions, \A s \in sessions' : A!Live(s.user)'
    PROVE  AccountInvariant'
<1>1. /\ request \in [Clients -> Requests]
      /\ A!FullAdminStays
  BY DEF AccountInvariant, AccountShapes, Requests
<1>2. /\ \A d \in Clients \ {c} : request'[d] = request[d]
      /\ request'[c] = r /\ request' \in [Clients -> Requests]
  BY <1>1
<1>3. AccountShapes'
  BY <1>2 DEF AccountInvariant, AccountShapes, Requests
<1>4. Decides'
  BY <1>2 DEF Decides
<1>5. Counts'
  BY <1>2, StillCounts DEF AccountInvariant
<1>6. A!FullAdminStays'
  BY <1>1 DEF A!FullAdminStays, A!FullAdmins
<1>7. A!NothingUndone'
  BY DEF A!NothingUndone, A!Access
<1>8. A!SessionsHaveAccounts'
  BY DEF A!SessionsHaveAccounts
<1> QED  BY <1>3, <1>4, <1>5, <1>6, <1>7, <1>8 DEF AccountInvariant

\* CreateUser and the end of CreateInitialAdmin: an account that was not there.
LEMMA CreateKeepsAccounts ==
    ASSUME AccountSorts, AccountInvariant, NEW c \in Clients, A!Create(c)
    PROVE  AccountInvariant'
<1>1. /\ writer = None /\ UNCHANGED <<sessions, failures, writer, now, earned>>
      /\ request \in [Clients -> Requests] /\ requests \in 0..MaxRequests
      /\ account \in [Accounts -> A!Row \cup {None, Gone}]
      /\ granted \in [Accounts -> A!Roles \X BOOLEAN]
      /\ chosen \in [Accounts -> 0..MaxRequests]
      /\ A!NothingUndone /\ A!SessionsHaveAccounts
  BY DEF A!Create, AccountInvariant, AccountShapes, Requests
<1>2. \A d \in Clients : request[d].step \notin {"keep", "commit"}
  BY <1>1 DEF AccountInvariant, Decides, Decided, AccountSorts
<1>3. PICK u \in Accounts, role \in A!Roles, all \in BOOLEAN :
        /\ account[u] = None
        /\ \/ request[c].step = "setup" /\ A!End(c) /\ UNCHANGED requests
           \/ A!Request(c) /\ UNCHANGED request
        /\ A!Stored(u, [role |-> role, all |-> all, hash |-> 0])
        /\ granted' = [granted EXCEPT ![u] = <<role, all>>]
        /\ chosen' = [chosen EXCEPT ![u] = 0]
  BY DEF A!Create
<1>4. PICK rec : rec = [role |-> role, all |-> all, hash |-> 0]
  OBVIOUS
<1>5. rec \in A!Row /\ A!Access(rec) = <<role, all>> /\ rec.hash = 0
  BY <1>4 DEF A!Row, A!Access, AccountSorts
<1>6. /\ account' = [account EXCEPT ![u] = rec]
      /\ administered' \in BOOLEAN /\ (administered' => administered \/ A!FullAdmins(account') # {})
  BY <1>3, <1>4 DEF A!Stored
<1>7. /\ account' \in [Accounts -> A!Row \cup {None, Gone}]
      /\ granted' \in [Accounts -> A!Roles \X BOOLEAN]
      /\ chosen' \in [Accounts -> 0..MaxRequests]
      /\ requests' \in 0..MaxRequests
  BY <1>1, <1>3, <1>5, <1>6 DEF A!Request, AccountSorts
<1>8. PICK r \in Requests : /\ r.step \notin {"keep", "commit", "verify"}
                            /\ request' = [request EXCEPT ![c] = r]
  <2>1. CASE A!End(c)
    BY <2>1 DEF A!End, A!Goes, A!Idle, Requests, Starting
  <2>2. CASE A!Request(c) /\ UNCHANGED request
    BY <1>1, <2>2 DEF A!Request
  <2> QED  BY <1>3, <2>1, <2>2
<1>9. \A v \in Accounts \ {u} : account'[v] = account[v] /\ granted'[v] = granted[v]
                                  /\ chosen'[v] = chosen[v]
  BY <1>1, <1>3, <1>6
<1>10. account'[u] = rec /\ granted'[u] = <<role, all>> /\ chosen'[u] = 0
  BY <1>1, <1>3, <1>6
<1>11. A!FullAdmins(account) # {} => A!FullAdmins(account') # {}
  BY <1>3, <1>9 DEF A!FullAdmins
<1>12. \A v \in Accounts : A!Live(v)' =>
         A!Access(account'[v]) = granted'[v] /\ account'[v].hash = chosen'[v]
  BY <1>1, <1>5, <1>9, <1>10 DEF A!NothingUndone, A!Live, A!Access
<1>13. \A s \in sessions' : A!Live(s.user)'
  <2>1. \A s \in sessions : s.user \in Accounts
    BY DEF AccountInvariant, AccountShapes
  <2> QED  BY <1>1, <1>3, <1>9, <2>1 DEF A!SessionsHaveAccounts, A!Live
<1>14. writer' \in Clients \cup {None} /\ UNCHANGED <<failures, now, earned>> /\ sessions' \subseteq sessions
  BY <1>1
<1> QED  BY <1>2, <1>6, <1>7, <1>8, <1>11, <1>12, <1>13, <1>14, WritingKeepsAccounts

\* SetPasswordHash writes its column of the row as it is.
LEMMA WriteHashKeepsAccounts ==
    ASSUME AccountSorts, AccountInvariant, NEW c \in Clients, A!WriteHash(c)
    PROVE  AccountInvariant'
<1>1. /\ writer = None /\ request[c].step = "hash"
      /\ UNCHANGED <<sessions, failures, writer, requests, now, granted, administered, earned>>
      /\ request \in [Clients -> Requests] /\ requests \in 0..MaxRequests
      /\ account \in [Accounts -> A!Row \cup {None, Gone}]
      /\ granted \in [Accounts -> A!Roles \X BOOLEAN]
      /\ chosen \in [Accounts -> 0..MaxRequests]
      /\ A!NothingUndone /\ A!SessionsHaveAccounts /\ A!FullAdminStays
  BY DEF A!WriteHash, AccountInvariant, AccountShapes, Requests
<1>2. /\ request[c] \in Hashing /\ request[c].user \in Accounts
      /\ request[c].next \in 0..MaxRequests
  BY <1>1, RequestShape DEF Hashing
<1>3. \A d \in Clients : request[d].step \notin {"keep", "commit"}
  BY <1>1 DEF AccountInvariant, Decides, Decided, AccountSorts
<1>4. A!Idle \in Requests /\ A!Idle.step = "idle"
  BY DEF A!Idle, Requests, Starting
<1>5. PICK u : u = request[c].user
  OBVIOUS
<1>6. CASE ~ A!Live(u)
  <2>1. request' = [request EXCEPT ![c] = A!Idle] /\ UNCHANGED <<account, chosen>>
    BY <1>5, <1>6 DEF A!WriteHash, A!End, A!Goes
  <2>2. \A s \in sessions' : s \in sessions \/ A!Live(s.user)
    BY <1>1
  <2>3. /\ request' \in [Clients -> Requests]
        /\ \A d \in Clients : request'[d].step \in {"keep", "commit", "verify"} =>
             request'[d] = request[d]
    BY <1>1, <1>4, <2>1
  <2>4. /\ sessions' \subseteq [user: Accounts, until: 0..MaxTime + SessionTTL]
        /\ writer' \in Clients \cup {None} /\ requests' \in 0..MaxRequests
    BY <1>1 DEF AccountInvariant, AccountShapes
  <2> QED  BY <1>1, <2>1, <2>2, <2>3, <2>4, QuietStepKeepsAccounts DEF ghostsOfAccounts
<1>7. CASE A!Live(u)
  <2>1. PICK rec : rec = [account[u] EXCEPT !.hash = request[c].next]
    OBVIOUS
  <2>2. account[u] \in A!Row
    BY <1>1, <1>2, <1>5, <1>7 DEF A!Live
  <2>3. /\ rec \in A!Row /\ A!Access(rec) = A!Access(account[u]) /\ rec.hash = request[c].next
    BY <1>2, <2>1, <2>2 DEF A!Row, A!Access
  <2>4. /\ account' = [account EXCEPT ![u] = rec]
        /\ chosen' = [chosen EXCEPT ![u] = request[c].next]
        /\ request' = [request EXCEPT ![c] = [step |-> "drop", user |-> u]]
    BY <1>1, <1>5, <1>7, <2>1 DEF A!WriteHash, A!Goes, A!Hashed
  <2>5. [step |-> "drop", user |-> u] \in Requests
    BY <1>2, <1>5 DEF Requests, Dropping
  <2>6. /\ account' \in [Accounts -> A!Row \cup {None, Gone}]
        /\ chosen' \in [Accounts -> 0..MaxRequests]
    BY <1>1, <1>2, <2>3, <2>4
  <2>7. /\ \A v \in Accounts \ {u} : account'[v] = account[v] /\ chosen'[v] = chosen[v]
        /\ u \in Accounts /\ account'[u] = rec /\ chosen'[u] = request[c].next
    BY <1>1, <1>2, <1>5, <2>4
  <2>8. rec \notin {None, Gone}
    BY <2>3 DEF AccountSorts
  <2>9. A!FullAdmins(account') = A!FullAdmins(account)
    BY <1>7, <2>3, <2>7, <2>8 DEF A!FullAdmins, A!Live
  <2>10. \A v \in Accounts : A!Live(v)' =>
           A!Access(account'[v]) = granted'[v] /\ account'[v].hash = chosen'[v]
    BY <1>1, <1>7, <2>3, <2>7 DEF A!NothingUndone, A!Live
  <2>11. \A s \in sessions' : A!Live(s.user)'
    <3>1. \A s \in sessions : s.user \in Accounts
      BY DEF AccountInvariant, AccountShapes
    <3> QED  BY <1>1, <2>7, <2>8, <3>1 DEF A!SessionsHaveAccounts, A!Live
  <2>12. administered' \in BOOLEAN /\ (administered' => administered)
    BY <1>1 DEF AccountInvariant, AccountShapes
  <2>13. /\ writer' \in Clients \cup {None} /\ UNCHANGED <<failures, now, earned>>
         /\ sessions' \subseteq sessions /\ requests' \in 0..MaxRequests
         /\ granted' \in [Accounts -> A!Roles \X BOOLEAN]
         /\ A!FullAdmins(account) # {} => A!FullAdmins(account') # {}
    BY <1>1, <2>9
  <2>14. [step |-> "drop", user |-> u].step \notin {"keep", "commit", "verify"}
    OBVIOUS
  <2>15. PICK r : r = [step |-> "drop", user |-> u]
    OBVIOUS
  <2>16. r \in Requests /\ r.step \notin {"keep", "commit", "verify"}
         /\ request' = [request EXCEPT ![c] = r]
    BY <2>4, <2>5, <2>14, <2>15
  <2> QED  BY <1>3, <2>6, <2>10, <2>11, <2>12, <2>13, <2>16, WritingKeepsAccounts
<1> QED  BY <1>6, <1>7

\* The transaction that decided commits: nothing changed since it counted.
LEMMA CommitKeepsAccounts ==
    ASSUME AccountSorts, AccountInvariant, NEW c \in Clients, A!Commit(c)
    PROVE  AccountInvariant'
<1>1. /\ request[c].step = "commit" /\ writer' = None
      /\ UNCHANGED <<failures, requests, now, chosen, earned>>
      /\ request \in [Clients -> Requests] /\ requests \in 0..MaxRequests
      /\ account \in [Accounts -> A!Row \cup {None, Gone}]
      /\ granted \in [Accounts -> A!Roles \X BOOLEAN]
      /\ chosen \in [Accounts -> 0..MaxRequests]
      /\ A!NothingUndone /\ A!SessionsHaveAccounts
  BY DEF A!Commit, AccountInvariant, AccountShapes, Requests
<1>2. request[c] \in Deciding /\ Decided(c) /\ writer = c
  BY <1>1, RequestShape DEF AccountInvariant, Decides, Decided
<1>3. \A d \in Clients \ {c} : request[d].step \notin {"keep", "commit"}
  BY <1>2 DEF AccountInvariant, Decides, Decided
<1>4. PICK u : u = request[c].user
  OBVIOUS
<1>5. PICK rec : rec = A!After(request[c])
  OBVIOUS
<1>6. /\ u \in Accounts /\ A!Live(u) /\ account[u] \in A!Row
      /\ request[c].role \in A!Roles \cup {None} /\ request[c].all \in BOOLEAN \cup {None}
  BY <1>1, <1>2, <1>4 DEF Decided, Deciding, A!Live
<1>7. IF request[c].role = None THEN rec = Gone
      ELSE /\ rec \in A!Row /\ rec.role = request[c].role /\ rec.hash = account[u].hash
           /\ rec.all = IF request[c].all = None THEN account[u].all ELSE request[c].all
  BY <1>4, <1>5, <1>6 DEF A!After, A!Changed, A!Row
<1>8. /\ account' = [account EXCEPT ![u] = rec]
      /\ administered' = (administered \/ A!FullAdmins(account') # {})
      /\ sessions' = IF request[c].role = None THEN {s \in sessions : s.user # u} ELSE sessions
      /\ granted' = [granted EXCEPT ![u] = IF request[c].role = None THEN granted[u]
           ELSE <<request[c].role, IF request[c].all = None THEN granted[u][2]
                                   ELSE request[c].all>>]
      /\ request' = [request EXCEPT ![c] = A!Idle]
  BY <1>1, <1>4, <1>5, <1>6 DEF A!Commit, A!Stored, A!End, A!Goes
<1>9. A!FullAdmins(account) # {} => A!FullAdmins(account') # {}
  BY <1>1, <1>2, <1>4, <1>5, <1>8 DEF Decided, A!Refused
<1>10. /\ \A v \in Accounts \ {u} : account'[v] = account[v] /\ granted'[v] = granted[v]
       /\ account'[u] = rec
  BY <1>1, <1>6, <1>8
<1>11. A!Access(account[u]) = granted[u] /\ account[u].hash = chosen[u]
  BY <1>1, <1>6 DEF A!NothingUndone
<1>12. granted[u][2] = account[u].all /\ account[u].all \in BOOLEAN
  BY <1>6, <1>11 DEF A!Access, A!Row
<1>13. request[c].role # None =>
         granted'[u] = <<rec.role, rec.all>> /\ rec.role \in A!Roles /\ rec.all \in BOOLEAN
  BY <1>1, <1>6, <1>7, <1>8, <1>12
<1>14. granted' \in [Accounts -> A!Roles \X BOOLEAN]
  <2>1. CASE request[c].role = None
    BY <1>1, <1>8, <2>1
  <2>2. CASE request[c].role # None
    <3>1. granted'[u] \in A!Roles \X BOOLEAN
      BY <1>13, <2>2
    <3>2. granted' = [granted EXCEPT ![u] = granted'[u]]
      BY <1>1, <1>6, <1>8
    <3> QED  BY <1>1, <3>1, <3>2
  <2> QED  BY <2>1, <2>2
<1>15. account' \in [Accounts -> A!Row \cup {None, Gone}]
  BY <1>1, <1>7, <1>8
<1>16. \A v \in Accounts : A!Live(v)' =>
         A!Access(account'[v]) = granted'[v] /\ account'[v].hash = chosen'[v]
  BY <1>1, <1>7, <1>10, <1>11, <1>13 DEF A!NothingUndone, A!Live, A!Access
<1>17. \A s \in sessions' : A!Live(s.user)'
  <2>1. \A s \in sessions : s.user \in Accounts
    BY DEF AccountInvariant, AccountShapes
  <2>2. request[c].role # None => rec \notin {None, Gone}
    BY <1>7 DEF AccountSorts
  <2> QED  BY <1>1, <1>8, <1>10, <2>1, <2>2 DEF A!SessionsHaveAccounts, A!Live
<1>18. /\ A!Idle \in Requests /\ A!Idle.step \notin {"keep", "commit", "verify"}
  BY DEF A!Idle, Requests, Starting
<1>19. administered' \in BOOLEAN /\ (administered' => administered \/ A!FullAdmins(account') # {})
  BY <1>8
<1>20. /\ writer' \in Clients \cup {None} /\ UNCHANGED <<failures, now, earned>>
       /\ sessions' \subseteq sessions /\ requests' \in 0..MaxRequests
       /\ chosen' \in [Accounts -> 0..MaxRequests]
  BY <1>1, <1>8
<1> QED  BY <1>3, <1>8, <1>9, <1>14, <1>15, <1>16, <1>17, <1>18, <1>19, <1>20, WritingKeepsAccounts

\* A login that begins drops a record whose window is over, and meets no lock.
LEMMA LoginKeepsAccounts ==
    ASSUME AccountSorts, AccountInvariant, NEW c \in Clients, A!Login(c)
    PROVE  AccountInvariant'
<1>1. /\ request \in [Clients -> Requests] /\ requests' \in 0..MaxRequests
      /\ UNCHANGED <<account, sessions, writer, now, granted, chosen, administered, earned>>
      /\ now \in 0..MaxTime /\ now \in Nat
      /\ failures \in [Accounts -> [count: Nat \ {0}, till: 0..MaxTime + LockoutWindow] \cup {None}]
  BY DEF A!Login, A!Request, A!ghosts, AccountInvariant, AccountShapes, Requests, AccountSorts
<1>2. PICK u \in Accounts :
        /\ failures' = IF A!Forgets(u) THEN [failures EXCEPT ![u] = None] ELSE failures
        /\ IF A!IsLocked(u) THEN UNCHANGED request
           ELSE request' = [request EXCEPT ![c] = [step |-> "verify", user |-> u, at |-> now]]
  BY DEF A!Login, A!Goes
<1>3. PICK r : r = [step |-> "verify", user |-> u, at |-> now]
  OBVIOUS
<1>4. /\ r \in Entering /\ r.step = "verify" /\ r.user = u /\ r.at = now
  BY <1>1, <1>3 DEF Entering
<1>5. r \in Requests
  BY <1>4 DEF Requests
<1>6. /\ request' \in [Clients -> Requests]
      /\ \A d \in Clients : request'[d] = request[d] \/ (d = c /\ request'[d] = r /\ ~ A!IsLocked(u))
  BY <1>1, <1>2, <1>3, <1>5
<1>7. /\ failures' \in [Accounts -> [count: Nat \ {0}, till: 0..MaxTime + LockoutWindow] \cup {None}]
      /\ \A v \in Accounts : failures'[v] = failures[v] \/ failures'[v] = None
      /\ failures'[u] = IF A!Forgets(u) THEN None ELSE failures[u]
  BY <1>1, <1>2
<1>8. AccountShapes'
  BY <1>1, <1>6, <1>7 DEF AccountInvariant, AccountShapes, Requests
<1>9. Decides'
  BY <1>1, <1>4, <1>6, StillDecides DEF AccountInvariant
<1>10. A!FullAdminStays' /\ A!NothingUndone' /\ A!SessionsHaveAccounts'
  BY <1>1, AccountsRest DEF AccountInvariant
<1>11. Counts'
  <2>1. \A v \in Accounts : failures'[v] # None =>
          /\ failures'[v].till = 0 \/ now < failures'[v].till => failures'[v].count <= earned[v]
          /\ failures'[v].till # 0 => MaxLoginAttempts <= failures'[v].count
    BY <1>7 DEF AccountInvariant, Counts
  <2>2. failures'[u] # None /\ failures'[u].till # 0 => A!IsLocked(u)
    <3>1. failures[u] # None => failures[u].till \in Nat
      BY <1>1
    <3> QED  BY <1>1, <1>7, <3>1 DEF A!Forgets, A!IsLocked
  <2>3. now <= now + Patience
    BY <1>1 DEF AccountSorts
  <2>4. ASSUME NEW d \in Clients, request'[d].step = "verify"
        PROVE  /\ request'[d].at <= now /\ now <= request'[d].at + Patience
               /\ failures'[request'[d].user] # None /\ failures'[request'[d].user].till # 0 =>
                    request'[d].at + LockoutWindow <= failures'[request'[d].user].till
    <3>1. CASE request'[d] = request[d]
      <4>1. request[d].user \in Accounts
        BY <1>1, <2>4, <3>1, RequestShape DEF Entering
      <4> QED  BY <1>7, <2>4, <3>1, <4>1 DEF AccountInvariant, Counts
    <3>2. CASE request'[d] = r /\ ~ A!IsLocked(u)
      BY <1>1, <1>4, <2>2, <2>3, <3>2
    <3> QED  BY <1>6, <3>1, <3>2
  <2> QED  BY <1>1, <2>1, <2>4 DEF Counts
<1> QED  BY <1>8, <1>9, <1>10, <1>11 DEF AccountInvariant

\* recordFailure: the record counts one more, and locks once it has enough.
LEMMA FailKeepsAccounts ==
    ASSUME AccountSorts, AccountInvariant, NEW c \in Clients, A!Fail(c)
    PROVE  AccountInvariant'
<1>1. /\ request \in [Clients -> Requests] /\ request[c].step = "verify"
      /\ UNCHANGED <<account, sessions, writer, requests, now, granted, chosen, administered>>
      /\ now \in 0..MaxTime /\ now \in Nat /\ earned \in [Accounts -> Nat]
      /\ failures \in [Accounts -> [count: Nat \ {0}, till: 0..MaxTime + LockoutWindow] \cup {None}]
      /\ {MaxLoginAttempts, LockoutWindow, Patience, MaxTime} \subseteq Nat
      /\ Patience < LockoutWindow
  BY DEF A!Fail, AccountInvariant, AccountShapes, Requests, AccountSorts
<1>2. PICK u : u = request[c].user
  OBVIOUS
<1>3. u \in Accounts /\ request[c].at \in Nat
  BY <1>1, <1>2, RequestShape DEF Entering
<1>4. PICK new : new = A!Recorded(failures[u])
  OBVIOUS
<1>5. /\ failures' = [failures EXCEPT ![u] = new] /\ earned' = [earned EXCEPT ![u] = earned[u] + 1]
      /\ request' = [request EXCEPT ![c] = A!Idle]
  BY <1>2, <1>4 DEF A!Fail, A!End, A!Goes
<1>6. A!Idle \in Requests /\ A!Idle.step = "idle"
  BY DEF A!Idle, Requests, Starting
<1>7. /\ new.count = IF failures[u] = None THEN 1 ELSE failures[u].count + 1
      /\ new.till = IF new.count >= MaxLoginAttempts THEN now + LockoutWindow
                    ELSE IF failures[u] = None THEN 0 ELSE failures[u].till
      /\ new = [count |-> new.count, till |-> new.till]
  BY <1>4 DEF A!Recorded
<1>8. failures[u] # None => failures[u].count \in Nat \ {0} /\ failures[u].till \in 0..MaxTime + LockoutWindow
  BY <1>1, <1>3
<1>9. new.count \in Nat \ {0} /\ new.till \in 0..MaxTime + LockoutWindow
  BY <1>1, <1>7, <1>8
<1>10. new \in [count: Nat \ {0}, till: 0..MaxTime + LockoutWindow]
  BY <1>7, <1>9
<1>11. /\ failures' \in [Accounts -> [count: Nat \ {0}, till: 0..MaxTime + LockoutWindow] \cup {None}]
       /\ \A v \in Accounts \ {u} : failures'[v] = failures[v] /\ earned'[v] = earned[v]
       /\ failures'[u] = new /\ earned'[u] = earned[u] + 1 /\ earned' \in [Accounts -> Nat]
       /\ request' \in [Clients -> Requests] /\ request'[c].step = "idle"
       /\ \A d \in Clients \ {c} : request'[d] = request[d]
  BY <1>1, <1>3, <1>5, <1>6, <1>10
<1>12. AccountShapes'
  BY <1>1, <1>11 DEF AccountInvariant, AccountShapes, Requests
<1>13. Decides'
  BY <1>1, <1>11, StillDecides DEF AccountInvariant
<1>14. A!FullAdminStays' /\ A!NothingUndone' /\ A!SessionsHaveAccounts'
  BY <1>1, AccountsRest DEF AccountInvariant
<1>15. Counts'
  <2>1. failures[u] # None =>
          /\ failures[u].till = 0 \/ now < failures[u].till => failures[u].count <= earned[u]
          /\ failures[u].till # 0 => MaxLoginAttempts <= failures[u].count
    BY <1>3 DEF AccountInvariant, Counts
  <2>2. failures[u] # None /\ failures[u].till # 0 => now < failures[u].till
    <3>1. /\ now <= request[c].at + Patience
          /\ failures[u] # None /\ failures[u].till # 0 =>
               request[c].at + LockoutWindow <= failures[u].till
      BY <1>1, <1>2, <1>3 DEF AccountInvariant, Counts
    <3> QED  BY <1>1, <1>3, <1>8, <3>1
  <2>3. new.count <= earned[u] + 1
    BY <1>1, <1>3, <1>7, <1>8, <2>1, <2>2
  <2>4. new.till # 0 => MaxLoginAttempts <= new.count
    BY <1>1, <1>3, <1>7, <1>8, <1>9, <2>1
  <2>5. \A v \in Accounts : failures'[v] # None =>
          /\ failures'[v].till = 0 \/ now < failures'[v].till => failures'[v].count <= earned'[v]
          /\ failures'[v].till # 0 => MaxLoginAttempts <= failures'[v].count
    <3>1. TAKE v \in Accounts
    <3>2. CASE v = u
      BY <1>11, <2>3, <2>4, <3>2
    <3>3. CASE v # u
      BY <1>11, <3>3 DEF AccountInvariant, Counts
    <3> QED  BY <3>2, <3>3
  <2>6. ASSUME NEW d \in Clients, request'[d].step = "verify"
        PROVE  /\ request'[d].at <= now /\ now <= request'[d].at + Patience
               /\ failures'[request'[d].user] # None /\ failures'[request'[d].user].till # 0 =>
                    request'[d].at + LockoutWindow <= failures'[request'[d].user].till
    <3>1. d # c /\ request'[d] = request[d]
      BY <1>11, <2>6
    <3>2. request[d].user \in Accounts /\ request[d].at \in Nat
      BY <1>1, <2>6, <3>1, RequestShape DEF Entering
    <3>3. /\ request[d].at <= now /\ now <= request[d].at + Patience
          /\ failures[request[d].user] # None /\ failures[request[d].user].till # 0 =>
               request[d].at + LockoutWindow <= failures[request[d].user].till
      BY <2>6, <3>1 DEF AccountInvariant, Counts
    <3>4. CASE request[d].user # u
      BY <1>11, <3>1, <3>2, <3>3, <3>4
    <3>5. CASE request[d].user = u
      <4>1. new.till # 0 => request[d].at + LockoutWindow <= new.till
        <5>1. CASE new.count >= MaxLoginAttempts
          BY <1>1, <1>7, <3>2, <3>3, <5>1
        <5>2. CASE ~ (new.count >= MaxLoginAttempts)
          BY <1>7, <3>3, <3>5, <5>2
        <5> QED  BY <5>1, <5>2
      <4> QED  BY <1>11, <3>1, <3>3, <3>5, <4>1
    <3> QED  BY <3>4, <3>5
  <2> QED  BY <1>1, <2>5, <2>6 DEF Counts
<1> QED  BY <1>12, <1>13, <1>14, <1>15 DEF AccountInvariant

\* clearFailures, then the session to open.
LEMMA SucceedKeepsAccounts ==
    ASSUME AccountSorts, AccountInvariant, NEW c \in Clients, A!Succeed(c)
    PROVE  AccountInvariant'
<1>1. /\ request \in [Clients -> Requests] /\ request[c].step = "verify"
      /\ UNCHANGED <<account, sessions, writer, requests, now, granted, chosen, administered>>
      /\ earned \in [Accounts -> Nat]
      /\ failures \in [Accounts -> [count: Nat \ {0}, till: 0..MaxTime + LockoutWindow] \cup {None}]
  BY DEF A!Succeed, AccountInvariant, AccountShapes, Requests
<1>2. PICK u : u = request[c].user
  OBVIOUS
<1>3. request[c] \in Entering /\ u \in Accounts
  BY <1>1, <1>2, RequestShape DEF Entering
<1>4. PICK r : r = [request[c] EXCEPT !.step = "open"]
  OBVIOUS
<1>5. r \in Entering /\ r.step = "open"
  BY <1>3, <1>4 DEF Entering
<1>6. /\ failures' = [failures EXCEPT ![u] = None] /\ earned' = [earned EXCEPT ![u] = 0]
      /\ request' = [request EXCEPT ![c] = r]
  BY <1>2, <1>4 DEF A!Succeed
<1>7. r \in Requests
  BY <1>5 DEF Requests
<1>8. /\ failures' \in [Accounts -> [count: Nat \ {0}, till: 0..MaxTime + LockoutWindow] \cup {None}]
      /\ \A v \in Accounts \ {u} : failures'[v] = failures[v] /\ earned'[v] = earned[v]
      /\ failures'[u] = None /\ earned' \in [Accounts -> Nat]
      /\ request' \in [Clients -> Requests] /\ request'[c] = r
      /\ \A d \in Clients \ {c} : request'[d] = request[d]
  BY <1>1, <1>3, <1>6, <1>7
<1>9. AccountShapes'
  BY <1>1, <1>8 DEF AccountInvariant, AccountShapes, Requests
<1>10. Decides'
  BY <1>1, <1>5, <1>8, StillDecides DEF AccountInvariant
<1>11. A!FullAdminStays' /\ A!NothingUndone' /\ A!SessionsHaveAccounts'
  BY <1>1, AccountsRest DEF AccountInvariant
<1>12. Counts'
  <2>1. \A v \in Accounts : failures'[v] # None =>
          /\ failures'[v].till = 0 \/ now < failures'[v].till => failures'[v].count <= earned'[v]
          /\ failures'[v].till # 0 => MaxLoginAttempts <= failures'[v].count
    BY <1>8 DEF AccountInvariant, Counts
  <2>2. ASSUME NEW d \in Clients, request'[d].step = "verify"
        PROVE  /\ request'[d].at <= now /\ now <= request'[d].at + Patience
               /\ failures'[request'[d].user] # None /\ failures'[request'[d].user].till # 0 =>
                    request'[d].at + LockoutWindow <= failures'[request'[d].user].till
    <3>1. d # c /\ request'[d] = request[d]
      BY <1>5, <1>8, <2>2
    <3>2. request[d].user \in Accounts
      BY <1>1, <2>2, <3>1, RequestShape DEF Entering
    <3> QED  BY <1>8, <2>2, <3>1, <3>2 DEF AccountInvariant, Counts
  <2> QED  BY <1>1, <2>1, <2>2 DEF Counts
<1> QED  BY <1>9, <1>10, <1>11, <1>12 DEF AccountInvariant

\* What the code that runs now knows of accounts, requests and failures holds
\* after every sequence of requests, however they overlap.
THEOREM AccountsKept == AccountSorts => (A!Spec => []AccountInvariant)
<1> SUFFICES ASSUME AccountSorts
             PROVE  A!Spec => []AccountInvariant
  OBVIOUS
<1>1. A!Init => AccountInvariant
  BY AccountsInit
<1>2. AccountInvariant /\ [A!Next]_(A!vars) => AccountInvariant'
  <2> SUFFICES ASSUME AccountInvariant, [A!Next]_(A!vars)
               PROVE  AccountInvariant'
    OBVIOUS
  <2>1. CASE A!Tick
    BY <2>1, TickKeepsAccounts
  <2>2. CASE A!Sweep \/ (\E s \in sessions : A!Logout(s)) \/ UNCHANGED A!vars
    BY <2>2, SweepsKeepAccounts
  <2>3. ASSUME NEW c \in Clients,
               \/ A!Setup(c) \/ A!Create(c) \/ A!Begin(c) \/ A!Lock(c) \/ A!Keep(c) \/ A!Commit(c)
               \/ A!Read(c) \/ A!WriteHash(c) \/ A!DropSessions(c)
               \/ A!Login(c) \/ A!Fail(c) \/ A!Succeed(c) \/ A!OpenSession(c)
        PROVE  AccountInvariant'
    BY <2>3, BeginningsKeepAccounts, CreateKeepsAccounts, LockKeepsAccounts, KeepKeepsAccounts,
       CommitKeepsAccounts, WriteHashKeepsAccounts, SessionsKeepAccounts, LoginKeepsAccounts,
       FailKeepsAccounts, SucceedKeepsAccounts
  <2> QED  BY <2>1, <2>2, <2>3 DEF A!Next
<1> QED  BY <1>1, <1>2, PTL DEF A!Spec

\* The accounts are sound for every number of accounts and clients: a full
\* administrator stays (keepFullAdmin), no request undoes another
\* (ChangePassword, SetAccess), a lockout is earned (recordFailure, locked) and
\* a session has its account (openSession, Delete).
THEOREM AccountsAreSound == AccountSorts => (A!Spec => []A!AccountsSound)
<1> SUFFICES ASSUME AccountSorts
             PROVE  A!Spec => []A!AccountsSound
  OBVIOUS
<1>1. AccountInvariant => A!AccountsSound
  <2> SUFFICES ASSUME AccountInvariant
               PROVE  A!LockIsEarned
    BY DEF AccountInvariant, A!AccountsSound
  <2>1. SUFFICES ASSUME NEW u \in Accounts, A!IsLocked(u)
                 PROVE  earned[u] >= MaxLoginAttempts
    BY DEF A!LockIsEarned
  <2>2. failures[u] # None /\ failures[u].till # 0 /\ now < failures[u].till
    BY <2>1 DEF A!IsLocked
  <2>3. failures[u].count \in Nat /\ earned[u] \in Nat /\ MaxLoginAttempts \in Nat
    BY <2>1, <2>2 DEF AccountInvariant, AccountShapes, AccountSorts
  <2>4. failures[u].count <= earned[u] /\ MaxLoginAttempts <= failures[u].count
    BY <2>1, <2>2 DEF AccountInvariant, Counts
  <2> QED  BY <2>3, <2>4
<1>2. QED  BY <1>1, AccountsKept, PTL

-----------------------------------------------------------------------------
(***************************************************************************)
(* Scopes: what a restricted administrator reaches, and what is out of the *)
(* reach of all of them, through requests that read the tables at one step *)
(* and write them at a later one.                                          *)
(***************************************************************************)
Scp == INSTANCE Scopes

ScopeKinds == {"monitor", "group", "user"}
Roles == {"admin", "viewer"}
Absence == {None, Absent, Gone}
GroupTables == [Groups -> Groups \cup Absence]
PlaceTables == [Monitors -> Groups \cup Absence]
AccountTables == [Accounts -> Scp!Row \cup {Absent, Gone}]
NameTables == [Groups -> Names]
Ids == Groups \cup Monitors \cup Accounts \cup {None}

\* A request at each of its steps.
Resolving == [step: {"resolve"}, scope: SUBSET Groups, since: Nat]
Guarding ==
    [step: {"guard"}, reach: SUBSET Groups, tree: GroupTables, names: NameTables, since: Nat]
ScopeDeciding ==
    [step: {"decide"}, kind: ScopeKinds, id: Ids, reach: SUBSET Groups, tree: GroupTables,
     names: NameTables, since: Nat]
Writing ==
    [step: {"write"}, kind: ScopeKinds, op: {"put", "delete"}, id: Ids, up: Groups \cup {None},
     name: Names \cup Roles \cup {None}, give: Asked \cup {None}, since: Nat]

\* A scope that reaches everything names no group (domain/scope.go, Normalize).
ScopeSorts ==
    /\ Known \subseteq Groups \cup Monitors \cup Accounts
    /\ Named \in NameTables /\ MaxDecrees \in Nat
    /\ Asked \subseteq [all: BOOLEAN, groups: SUBSET Groups]
    /\ \A s \in Asked : s.all => s.groups = {}
    /\ Groups \cap Monitors = {}
    /\ None # Absent /\ None # Gone /\ Absent # Gone
    /\ Absence \cap (Groups \cup Monitors \cup Accounts) = {}
    /\ {Absent, Gone} \cap Scp!Row = {} /\ None \notin [all: BOOLEAN, groups: SUBSET Groups]

ScopeShapes ==
    /\ group \in GroupTables /\ name \in NameTables
    /\ place \in PlaceTables /\ account \in AccountTables
    /\ law \in [group: GroupTables, place: PlaceTables, account: AccountTables]
    /\ request \in [Clients -> {Scp!Idle} \cup Resolving \cup Guarding \cup ScopeDeciding \cup Writing]
    /\ decrees \in Nat /\ owned \subseteq Groups \cup Monitors /\ told \subseteq Groups

\* No two groups under one parent have one name (the unique index).
NamesApart(tree, names) ==
    \A g, h \in Groups : g # h /\ Scp!Here(tree[g]) /\ tree[g] = tree[h] => names[g] # names[h]

\* What is under what is owned is owned.
OwnedIsClosed ==
    /\ \A g \in Groups : group[g] \in owned => g \in owned
    /\ \A m \in Monitors : place[m] \in owned => m \in owned

\* A monitor is in a group that is there.
PlacesHere == \A m \in Monitors : place[m] \in Groups => Scp!Here(group[place[m]])

\* Nobody restricted is granted a group that was not owned, and who reaches
\* everything has no list.
GrantsAreOwned ==
    \A u \in Accounts : Scp!Here(account[u]) =>
        /\ ~account[u].all => account[u].groups \subseteq owned
        /\ account[u].all => account[u].groups = {}

\* What a request has read is out of date only where the tables are owned, as
\* long as nobody who reaches everything wrote them.
AsRead(r) ==
    r.since = decrees =>
        \A g \in Groups \ owned : r.tree[g] = group[g] /\ r.names[g] = name[g]

\* An account that a request is at is not one that reaches everything, or was
\* made one meanwhile.
Below(u) == Scp!Full(account[u]) => law.account[u] = Gone

\* A group that goes to the top, or stays there, has the name of no group
\* there that is not owned.
NameFree(r) ==
    r.since = decrees =>
        \A g \in Groups \ owned : ~(group[g] = None /\ name[g] = r.name)

ReadSound(r) ==
    r.reach \subseteq owned /\ NamesApart(r.tree, r.names) /\ AsRead(r)
NamedSound(r) ==
    /\ r.kind = "group" => r.id \in (owned \cap Groups) \cup {None}
    /\ r.kind = "monitor" => r.id \in (owned \cap Monitors) \cup {None}
    /\ r.kind = "user" => r.id \in Accounts \cup {None}
    /\ r.kind = "user" /\ r.id # None => Below(r.id)
OrderSound(r) ==
    /\ r.op = "delete" => r.id # None
    /\ r.op = "put" /\ r.kind = "monitor" => r.up \in owned
    /\ r.op = "put" /\ r.kind = "group" =>
          r.up \in owned \/ (r.up = None /\ r.id # None /\ NameFree(r))
    /\ r.op = "put" /\ r.kind = "group" => r.name \in Names
    /\ r.op = "put" /\ r.kind = "user" => r.name \in Roles
    /\ r.kind = "user" /\ r.give # None => ~r.give.all /\ r.give.groups \subseteq owned
    /\ r.kind = "user" /\ r.give = None => r.id # None

\* A request has decided on what is owned.
RequestSound(r) ==
    /\ r.step # "idle" => r.since <= decrees
    /\ r.step = "resolve" => r.scope \subseteq owned
    /\ r.step \in {"guard", "decide"} => ReadSound(r)
    /\ r.step \in {"decide", "write"} => NamedSound(r)
    /\ r.step = "write" => OrderSound(r)

ScopesInvariant ==
    /\ ScopeShapes /\ Scp!TwoLevels /\ NamesApart(group, name) /\ OwnedIsClosed
    /\ PlacesHere /\ GrantsAreOwned /\ (\A c \in Clients : RequestSound(request[c]))
    /\ Scp!OutsideUntouched /\ Scp!FullUntouched /\ Scp!TellsNothing

LEMMA ScopeStep ==
    ASSUME NEW r \in {Scp!Idle} \cup Resolving \cup Guarding \cup ScopeDeciding \cup Writing
    PROVE  /\ r.step = "idle" <=> r = Scp!Idle
           /\ r.step = "resolve" <=> r \in Resolving
           /\ r.step = "guard" <=> r \in Guarding
           /\ r.step = "decide" <=> r \in ScopeDeciding
           /\ r.step = "write" <=> r \in Writing
           /\ r.step \in {"idle", "resolve", "guard", "decide", "write"}
<1>1. Scp!Idle.step = "idle" BY DEF Scp!Idle
<1>2. CASE r = Scp!Idle BY <1>1, <1>2 DEF Resolving, Guarding, ScopeDeciding, Writing
<1>3. CASE r \in Resolving BY <1>1, <1>3 DEF Resolving, Guarding, ScopeDeciding, Writing
<1>4. CASE r \in Guarding BY <1>1, <1>4 DEF Resolving, Guarding, ScopeDeciding, Writing
<1>5. CASE r \in ScopeDeciding BY <1>1, <1>5 DEF Resolving, Guarding, ScopeDeciding, Writing
<1>6. CASE r \in Writing BY <1>1, <1>6 DEF Resolving, Guarding, ScopeDeciding, Writing
<1> QED BY <1>2, <1>3, <1>4, <1>5, <1>6

\* Whoever is granted what is owned reaches what is owned.
LEMMA ReachIsOwned ==
    ASSUME ScopeSorts, ScopeShapes, OwnedIsClosed, NEW scope \in SUBSET Groups,
           scope \subseteq owned
    PROVE  Scp!Reach(scope, group) \subseteq owned
<1> SUFFICES ASSUME NEW g \in Groups, NEW s \in scope, g = s \/ group[g] = s PROVE g \in owned
  BY DEF Scp!Reach
<1> QED BY DEF OwnedIsClosed

LEMMA NobodyReaches ==
    ASSUME ScopeSorts, ScopesInvariant
    PROVE  Scp!NobodyReachesMore
<1> SUFFICES ASSUME NEW u \in Accounts, Scp!Here(account[u]), ~account[u].all
             PROVE  /\ Scp!ReachOf(u) \subseteq owned
                    /\ \A m \in Monitors : place[m] \in Scp!ReachOf(u) => m \in owned
  BY DEF Scp!NobodyReachesMore, Scp!Restricted
<1>1. account[u] \in Scp!Row BY DEF ScopesInvariant, ScopeShapes, AccountTables, Scp!Here
<1>2. account[u].groups \in SUBSET Groups BY <1>1 DEF Scp!Row
<1>3. account[u].groups \subseteq owned BY DEF ScopesInvariant, GrantsAreOwned
<1>4. Scp!Reach(account[u].groups, group) \subseteq owned
  BY <1>2, <1>3, ReachIsOwned DEF ScopesInvariant
<1> QED BY <1>4 DEF Scp!ReachOf, ScopesInvariant, OwnedIsClosed

LEMMA GivenRows ==
    ASSUME ScopeSorts, NEW s \in Asked, NEW role \in Roles
    PROVE  /\ Scp!Given(role, s) \in Scp!Row /\ Scp!Given(role, s).all = s.all
           /\ Scp!Given(role, s).groups = s.groups
           /\ s.groups \in SUBSET Groups /\ s.all \in BOOLEAN
<1>1. s.groups \in SUBSET Groups /\ s.all \in BOOLEAN BY DEF ScopeSorts
<1> QED BY <1>1 DEF Scp!Given, Scp!Row, Roles

LEMMA ScopesStart ==
    ASSUME ScopeSorts, Scp!Init
    PROVE  ScopesInvariant
<1> DEFINE gs == UNION {Scp!ReachOf(u) : u \in Scp!Restricted}
<1>1. /\ group \in [Groups -> Groups \cup {None, Absent}]
      /\ \A g \in Groups : group[g] \in Groups => group[group[g]] = None
      /\ \A g \in Groups : \A h \in Groups \ {g} :
            Scp!Here(group[h]) /\ group[h] = group[g] => Named[h] # Named[g]
  BY DEF Scp!Init
<1>2. place \in [Monitors -> Groups \cup {None, Absent}] /\ name = Named BY DEF Scp!Init
<1>3. /\ account \in [Accounts -> {Scp!Given("admin", s) : s \in Asked} \cup {Absent}]
      /\ \A u \in Accounts : account[u] # Absent => \A g \in account[u].groups : Scp!Here(group[g])
  BY DEF Scp!Init
<1>4. /\ request = [c \in Clients |-> Scp!Idle] /\ decrees = 0 /\ told = {}
      /\ owned = Scp!In(gs)
      /\ law = [group |-> group, place |-> place, account |-> account]
  BY DEF Scp!Init
<1>5. \A u \in Accounts : Scp!Here(account[u]) =>
         /\ account[u] \in Scp!Row
         /\ account[u].all => account[u].groups = {}
  <2> SUFFICES ASSUME NEW u \in Accounts, Scp!Here(account[u])
               PROVE  account[u] \in Scp!Row /\ (account[u].all => account[u].groups = {})
    OBVIOUS
  <2>1. account[u] \in {Scp!Given("admin", s) : s \in Asked} BY <1>3 DEF Scp!Here
  <2>2. PICK s \in Asked : account[u] = Scp!Given("admin", s) BY <2>1
  <2>3. /\ account[u] \in Scp!Row /\ account[u].all = s.all /\ account[u].groups = s.groups
    BY <2>2, GivenRows DEF Roles
  <2> QED BY <2>3 DEF ScopeSorts
<1>6. gs \subseteq Groups BY DEF Scp!ReachOf, Scp!Reach
<1>7. owned = gs \cup {m \in Monitors : place[m] \in gs} BY <1>4 DEF Scp!In
<1>8. ScopeShapes
  <2>1. account \in AccountTables
    <3>1. \A u \in Accounts : account[u] \in Scp!Row \cup {Absent, Gone} BY <1>5 DEF Scp!Here
    <3> QED BY <1>3, <3>1 DEF AccountTables
  <2>2. group \in GroupTables BY <1>1 DEF GroupTables, Absence
  <2>3. place \in PlaceTables BY <1>2 DEF PlaceTables, Absence
  <2>4. law \in [group: GroupTables, place: PlaceTables, account: AccountTables]
    BY <1>4, <2>1, <2>2, <2>3
  <2>5. owned \subseteq Groups \cup Monitors BY <1>6, <1>7
  <2>6. request \in [Clients -> {Scp!Idle} \cup Resolving \cup Guarding \cup ScopeDeciding \cup Writing]
    BY <1>4
  <2> QED BY <2>1, <2>2, <2>3, <2>4, <2>5, <2>6, <1>2, <1>4 DEF ScopeShapes, ScopeSorts
<1>9. Scp!TwoLevels BY <1>1 DEF Scp!TwoLevels
<1>10. NamesApart(group, name)
  <2> SUFFICES ASSUME NEW g \in Groups, NEW h \in Groups, g # h, Scp!Here(group[g]),
                      group[g] = group[h]
               PROVE  name[g] # name[h]
    BY DEF NamesApart
  <2> QED BY <1>1, <1>2
<1>11. OwnedIsClosed
  <2>1. \A g \in Groups : group[g] \in owned => g \in owned
    <3> SUFFICES ASSUME NEW g \in Groups, group[g] \in owned PROVE g \in owned OBVIOUS
    <3>1. group[g] \in Groups /\ group[g] \in gs
      BY <1>1, <1>6, <1>7 DEF ScopeSorts, Absence
    <3>2. PICK u \in Scp!Restricted : group[g] \in Scp!ReachOf(u) BY <3>1
    <3>3. PICK s \in account[u].groups :
             Scp!Here(group[s]) /\ (group[g] = s \/ group[group[g]] = s)
      BY <3>2 DEF Scp!ReachOf, Scp!Reach
    <3>4. s \in Groups
      <4>1. u \in Accounts /\ Scp!Here(account[u]) BY DEF Scp!Restricted
      <4> QED BY <4>1, <1>5 DEF Scp!Row
    <3>5. group[g] = s BY <3>1, <3>3, <3>4, <1>1 DEF ScopeSorts, Absence
    <3>6. g \in Scp!ReachOf(u)
      <4>1. Scp!Here(group[g]) BY <3>1 DEF Scp!Here, ScopeSorts, Absence
      <4> QED BY <3>3, <3>5, <4>1 DEF Scp!ReachOf, Scp!Reach
    <3> QED BY <3>6, <1>7
  <2>2. \A m \in Monitors : place[m] \in owned => m \in owned
    <3> SUFFICES ASSUME NEW m \in Monitors, place[m] \in owned PROVE m \in owned OBVIOUS
    <3>1. place[m] \in gs BY <1>2, <1>6, <1>7 DEF ScopeSorts, Absence
    <3> QED BY <3>1, <1>7
  <2> QED BY <2>1, <2>2 DEF OwnedIsClosed
<1>12. GrantsAreOwned
  <2> SUFFICES ASSUME NEW u \in Accounts, Scp!Here(account[u]), ~account[u].all
               PROVE  account[u].groups \subseteq owned
    BY <1>5 DEF GrantsAreOwned
  <2>1. u \in Scp!Restricted BY DEF Scp!Restricted
  <2>2. account[u].groups \subseteq Groups BY <1>5 DEF Scp!Row
  <2>3. \A g \in account[u].groups : Scp!Here(group[g]) BY <1>3 DEF Scp!Here
  <2>4. account[u].groups \subseteq Scp!ReachOf(u) BY <2>2, <2>3 DEF Scp!ReachOf, Scp!Reach
  <2> QED BY <2>1, <2>4, <1>7
<1>13. \A c \in Clients : RequestSound(request[c])
  BY <1>4 DEF RequestSound, Scp!Idle
<1>14. Scp!OutsideUntouched BY <1>4 DEF Scp!OutsideUntouched
<1>15. Scp!FullUntouched BY <1>4 DEF Scp!FullUntouched
<1>16. Scp!TellsNothing BY <1>4 DEF Scp!TellsNothing
<1>17. PlacesHere
  <2>1. \A m \in Monitors : place[m] \in Groups => Scp!IsLeaf(group, place[m])
    BY DEF Scp!Init
  <2> QED BY <2>1 DEF PlacesHere, Scp!IsLeaf
<1> QED BY <1>8, <1>9, <1>10, <1>11, <1>12, <1>13, <1>14, <1>15, <1>16, <1>17
        DEF ScopesInvariant

\* A step that writes no table: the requests that are left, or have gone on,
\* are still sound.
LEMMA ScopeReads ==
    ASSUME ScopesInvariant, Scp!Reads, NEW c \in Clients,
           NEW r \in {Scp!Idle} \cup Resolving \cup Guarding \cup ScopeDeciding \cup Writing,
           request' = [request EXCEPT ![c] = r], RequestSound(r)
    PROVE  ScopesInvariant'
<1>1. UNCHANGED <<group, name, place, account, decrees, owned, law, told>> BY DEF Scp!Reads
<1>2. ScopeShapes' BY <1>1 DEF ScopesInvariant, ScopeShapes
<1>3. \A x : RequestSound(x)' = RequestSound(x)
  BY <1>1 DEF RequestSound, ReadSound, NamedSound, OrderSound, AsRead, NameFree, Below
<1>4. \A d \in Clients : RequestSound(request'[d])
  BY DEF ScopesInvariant, ScopeShapes
<1>5. (\A d \in Clients : RequestSound(request[d]))'
  BY <1>1, <1>4 DEF RequestSound, ReadSound, NamedSound, OrderSound, AsRead, NameFree, Below
<1>6. /\ Scp!TwoLevels' /\ NamesApart(group, name)' /\ OwnedIsClosed' /\ GrantsAreOwned'
      /\ PlacesHere'
      /\ Scp!OutsideUntouched' /\ Scp!FullUntouched' /\ Scp!TellsNothing'
  BY <1>1 DEF ScopesInvariant, Scp!TwoLevels, NamesApart, OwnedIsClosed, GrantsAreOwned,
              PlacesHere, Scp!OutsideUntouched, Scp!FullUntouched, Scp!TellsNothing
<1> QED BY <1>2, <1>5, <1>6 DEF ScopesInvariant

\* The request of a client, with what its step says of it.
LEMMA RequestAt ==
    ASSUME ScopesInvariant, NEW c \in Clients
    PROVE  /\ request[c] \in {Scp!Idle} \cup Resolving \cup Guarding \cup ScopeDeciding \cup Writing
           /\ RequestSound(request[c])
           /\ request[c].step = "resolve" => request[c] \in Resolving
           /\ request[c].step = "guard" => request[c] \in Guarding
           /\ request[c].step = "decide" => request[c] \in ScopeDeciding
           /\ request[c].step = "write" => request[c] \in Writing
<1>1. request[c] \in {Scp!Idle} \cup Resolving \cup Guarding \cup ScopeDeciding \cup Writing
  BY DEF ScopesInvariant, ScopeShapes
<1> QED BY <1>1, ScopeStep DEF ScopesInvariant

LEMMA ScopeAuthenticate ==
    ASSUME ScopeSorts, ScopesInvariant, NEW c \in Clients, NEW u \in Accounts,
           Scp!Authenticate(c, u)
    PROVE  ScopesInvariant'
<1> DEFINE r == [step |-> "resolve", scope |-> account[u].groups, since |-> decrees]
<1>1. request' = [request EXCEPT ![c] = r] /\ Scp!Reads /\ u \in Scp!Restricted
  BY DEF Scp!Authenticate, Scp!Goes
<1>2. account[u] \in Scp!Row /\ account[u].groups \subseteq owned
  BY <1>1 DEF Scp!Restricted, ScopesInvariant, ScopeShapes, AccountTables, GrantsAreOwned, Scp!Here
<1>3. r \in Resolving
  BY <1>2 DEF Resolving, Scp!Row, ScopesInvariant, ScopeShapes
<1>4. RequestSound(r) BY <1>2 DEF RequestSound, ScopesInvariant, ScopeShapes
<1> HIDE DEF r
<1> QED BY <1>1, <1>3, <1>4, ScopeReads

LEMMA ScopeResolve ==
    ASSUME ScopeSorts, ScopesInvariant, NEW c \in Clients, Scp!Resolve(c)
    PROVE  ScopesInvariant'
<1> DEFINE reach == Scp!Reach(request[c].scope, group)
           r == [step |-> "guard", reach |-> reach, tree |-> group, names |-> name,
                 since |-> request[c].since]
<1>1. request' = [request EXCEPT ![c] = r] /\ Scp!Reads /\ request[c].step = "resolve"
  BY DEF Scp!Resolve, Scp!Goes
<1>2. request[c] \in Resolving /\ RequestSound(request[c]) BY <1>1, RequestAt
<1>3. /\ request[c].scope \in SUBSET Groups /\ request[c].scope \subseteq owned
      /\ request[c].since \in Nat /\ request[c].since <= decrees
  BY <1>1, <1>2 DEF Resolving, RequestSound
<1>4. reach \subseteq owned BY <1>3, ReachIsOwned DEF ScopesInvariant
<1>5. reach \in SUBSET Groups BY DEF Scp!Reach
<1>6. r \in Guarding BY <1>3, <1>5 DEF Guarding, ScopesInvariant, ScopeShapes
<1>7. ReadSound(r) BY <1>4 DEF ReadSound, AsRead, ScopesInvariant
<1>8. RequestSound(r)
  <2> HIDE DEF reach
  <2> QED BY <1>3, <1>7 DEF RequestSound
<1> HIDE DEF r
<1> QED BY <1>1, <1>6, <1>8, ScopeReads

LEMMA ScopeGuard ==
    ASSUME ScopeSorts, ScopesInvariant, NEW c \in Clients, NEW kind \in ScopeKinds, NEW id \in Ids,
           \/ id = None
           \/ kind = "monitor" /\ id \in Monitors
           \/ kind = "group" /\ id \in Groups
           \/ kind = "user" /\ id \in Accounts,
           Scp!Guard(c, kind, id)
    PROVE  ScopesInvariant'
<1> DEFINE q == request[c]
           r == [step |-> "decide", kind |-> kind, id |-> id, reach |-> q.reach,
                 tree |-> q.tree, names |-> q.names, since |-> q.since]
<1>1. /\ request' = [request EXCEPT ![c] = r] /\ Scp!Reads /\ q.step = "guard"
      /\ id # None => Scp!Guarded(q.reach, kind, id)
  BY DEF Scp!Guard, Scp!Goes
<1>2. q \in Guarding /\ RequestSound(q) BY <1>1, RequestAt
<1>3. ReadSound(q) /\ q.since <= decrees BY <1>1, <1>2 DEF RequestSound
<1>4. r \in ScopeDeciding BY <1>2 DEF Guarding, ScopeDeciding
<1>5. ReadSound(r) BY <1>3 DEF ReadSound, AsRead
<1>6. NamedSound(r)
  <2>1. CASE id = None BY <2>1 DEF NamedSound
  <2>2. CASE id # None /\ kind = "group"
    <3>1. id \in q.reach BY <1>1, <2>2 DEF Scp!Guarded
    <3>2. id \in owned \cap Groups BY <2>2, <3>1, <1>2, <1>3 DEF ReadSound, Guarding
    <3> QED BY <2>2, <3>2 DEF NamedSound
  <2>3. CASE id # None /\ kind = "monitor"
    <3>1. id \in Monitors BY <2>3
    <3>2. place[id] \in q.reach BY <1>1, <2>3 DEF Scp!Guarded
    <3>3. id \in owned BY <3>1, <3>2, <1>3 DEF ReadSound, ScopesInvariant, OwnedIsClosed
    <3> QED BY <2>3, <3>1, <3>3 DEF NamedSound
  <2>4. CASE id # None /\ kind = "user"
    <3>1. id \in Accounts BY <2>4
    <3>2. ~account[id].all BY <1>1, <2>4 DEF Scp!Guarded, Scp!Grants
    <3>3. Below(id) BY <3>2 DEF Below, Scp!Full
    <3> QED BY <2>4, <3>1, <3>3 DEF NamedSound
  <2> QED BY <2>1, <2>2, <2>3, <2>4 DEF ScopeKinds
<1>7. RequestSound(r) BY <1>3, <1>5, <1>6 DEF RequestSound
<1> HIDE DEF r
<1> QED BY <1>1, <1>4, <1>7, ScopeReads

\* A request that has decided: what it is about is as it was guarded.
LEMMA ScopeDecides ==
    ASSUME ScopeSorts, ScopesInvariant, NEW c \in Clients, request[c].step = "decide",
           NEW op \in {"put", "delete"}, NEW up \in Groups \cup {None},
           NEW n \in Names \cup Roles \cup {None}, NEW give \in Asked \cup {None},
           Scp!Write(c, op, up, n, give),
           OrderSound([step |-> "write", kind |-> request[c].kind, op |-> op,
                       id |-> request[c].id, up |-> up, name |-> n, give |-> give,
                       since |-> request[c].since])
    PROVE  ScopesInvariant'
<1> DEFINE q == request[c]
           r == [step |-> "write", kind |-> q.kind, op |-> op, id |-> q.id, up |-> up,
                 name |-> n, give |-> give, since |-> q.since]
<1>1. request' = [request EXCEPT ![c] = r] /\ Scp!Reads BY DEF Scp!Write, Scp!Goes
<1>2. q \in ScopeDeciding /\ RequestSound(q) BY RequestAt
<1>3. NamedSound(q) /\ q.since <= decrees BY <1>2 DEF RequestSound
<1>4. r \in Writing BY <1>2 DEF ScopeDeciding, Writing
<1>5. NamedSound(r) BY <1>3 DEF NamedSound
<1>6. RequestSound(r) BY <1>3, <1>5 DEF RequestSound
<1> HIDE DEF r
<1> QED BY <1>1, <1>4, <1>6, ScopeReads

LEMMA ScopeDecideMonitor ==
    ASSUME ScopeSorts, ScopesInvariant, NEW c \in Clients, NEW up \in Groups \cup {None},
           Scp!DecideMonitor(c, up)
    PROVE  ScopesInvariant'
<1>1. /\ request[c].step = "decide" /\ request[c].kind = "monitor"
      /\ up \in request[c].reach /\ Scp!Write(c, "put", up, None, None)
  BY DEF Scp!DecideMonitor, Scp!MayPlace
<1>2. up \in owned BY <1>1, RequestAt DEF RequestSound, ReadSound
<1>3. OrderSound([step |-> "write", kind |-> request[c].kind, op |-> "put",
                  id |-> request[c].id, up |-> up, name |-> None, give |-> None,
                  since |-> request[c].since])
  BY <1>1, <1>2 DEF OrderSound
<1> QED BY <1>1, <1>3, ScopeDecides

LEMMA ScopeDecideGroup ==
    ASSUME ScopeSorts, ScopesInvariant, NEW c \in Clients, NEW up \in Groups \cup {None},
           NEW n \in Names, Scp!DecideGroup(c, up, n)
    PROVE  ScopesInvariant'
<1> DEFINE q == request[c]
           r == [step |-> "write", kind |-> q.kind, op |-> "put", id |-> q.id, up |-> up,
                 name |-> n, give |-> None, since |-> q.since]
<1>1. /\ q.step = "decide" /\ q.kind = "group" /\ Scp!MayNest(q, up, n)
      /\ Scp!Write(c, "put", up, n, None)
  BY DEF Scp!DecideGroup
<1>2. q \in ScopeDeciding /\ ReadSound(q) /\ NamedSound(q) BY <1>1, RequestAt DEF RequestSound
<1>3. CASE up # None
  <2>1. up \in owned BY <1>1, <1>2, <1>3 DEF Scp!MayNest, ReadSound
  <2>2. OrderSound(r) BY <2>1, <1>1 DEF OrderSound
  <2> QED BY <2>2, <1>1, ScopeDecides
<1>4. CASE up = None
  <2>1. q.id # None /\ q.tree[q.id] = None BY <1>1, <1>4 DEF Scp!MayNest
  <2>2. q.id \in Groups \cap owned BY <2>1, <1>1, <1>2 DEF NamedSound
  <2>3. n = q.names[q.id] BY <2>1, <1>1 DEF Scp!MayNest, Scp!SeesSiblings
  <2>4. NameFree(r)
    <3> SUFFICES ASSUME q.since = decrees, NEW g \in Groups \ owned, group[g] = None,
                        name[g] = n
                 PROVE  FALSE
      BY DEF NameFree
    <3>1. q.tree[g] = None /\ q.names[g] = n BY <1>2 DEF ReadSound, AsRead
    <3>2. Scp!Here(q.tree[g]) BY <3>1 DEF Scp!Here, ScopeSorts
    <3>3. NamesApart(q.tree, q.names) /\ g # q.id BY <1>2, <2>2 DEF ReadSound
    <3> QED BY <2>1, <2>2, <2>3, <3>1, <3>2, <3>3 DEF NamesApart
  <2>5. OrderSound(r) BY <2>1, <2>4, <1>1, <1>4 DEF OrderSound
  <2> QED BY <2>5, <1>1, ScopeDecides
<1> QED BY <1>3, <1>4

LEMMA ScopeDecideUser ==
    ASSUME ScopeSorts, ScopesInvariant, NEW c \in Clients, NEW role \in Roles,
           NEW give \in Asked \cup {None}, Scp!DecideUser(c, role, give)
    PROVE  ScopesInvariant'
<1> DEFINE q == request[c]
           every == [all |-> TRUE, groups |-> {}]
           asked == IF give = None /\ q.id = None THEN every ELSE give
           r == [step |-> "write", kind |-> q.kind, op |-> "put", id |-> q.id, up |-> None,
                 name |-> role, give |-> asked, since |-> q.since]
<1>1. /\ q.step = "decide" /\ q.kind = "user"
      /\ asked # None => Scp!Grants(q.reach, asked)
      /\ Scp!Write(c, "put", None, role, asked)
  BY DEF Scp!DecideUser
<1>2. ReadSound(q) /\ NamedSound(q) BY <1>1, RequestAt DEF RequestSound
<1>3. ~(give = None /\ q.id = None)
  <2> SUFFICES ASSUME give = None, q.id = None PROVE FALSE OBVIOUS
  <2>1. asked = every /\ every.all = TRUE OBVIOUS
  <2>2. every # None
    <3>1. every \in [all: BOOLEAN, groups: SUBSET Groups] OBVIOUS
    <3> HIDE DEF every, asked
    <3> QED BY <3>1 DEF ScopeSorts
  <2>3. Scp!Grants(q.reach, every) BY <2>1, <2>2, <1>1
  <2> QED BY <2>1, <2>3 DEF Scp!Grants
<1>4. asked = give BY <1>3
<1>5. OrderSound(r)
  <2>1. give # None => ~give.all /\ give.groups \subseteq owned
    BY <1>1, <1>2, <1>4 DEF Scp!Grants, ReadSound
  <2> HIDE DEF asked
  <2> QED BY <2>1, <1>1, <1>3, <1>4 DEF OrderSound
<1> HIDE DEF asked
<1> QED BY <1>1, <1>4, <1>5, ScopeDecides

LEMMA ScopeDecideDelete ==
    ASSUME ScopeSorts, ScopesInvariant, NEW c \in Clients, Scp!DecideDelete(c)
    PROVE  ScopesInvariant'
<1>1. /\ request[c].step = "decide" /\ request[c].id # None
      /\ Scp!Write(c, "delete", None, None, None)
  BY DEF Scp!DecideDelete
<1>2. OrderSound([step |-> "write", kind |-> request[c].kind, op |-> "delete",
                  id |-> request[c].id, up |-> None, name |-> None, give |-> None,
                  since |-> request[c].since])
  BY <1>1 DEF OrderSound
<1> QED BY <1>1, <1>2, ScopeDecides

LEMMA ScopeRefused ==
    ASSUME ScopesInvariant, NEW c \in Clients, Scp!Refused(c)
    PROVE  ScopesInvariant'
<1>1. RequestSound(Scp!Idle) BY DEF RequestSound, Scp!Idle
<1> QED BY <1>1, ScopeReads DEF Scp!Refused, Scp!Goes

\* A request of which a step takes nothing away is as sound as it was.
LEMMA SoundKept ==
    ASSUME ScopesInvariant, NEW q, q.step # "idle" => q.since \in Nat, RequestSound(q),
           owned \subseteq owned', decrees' \in Nat,
           \/ /\ decrees' = decrees
              /\ \A g \in Groups \ owned' : group'[g] = group[g] /\ name'[g] = name[g]
           \/ decrees' = decrees + 1,
           q.step \in {"decide", "write"} /\ q.kind = "user" /\ q.id # None /\ Below(q.id)
              => Below(q.id)'
    PROVE  RequestSound(q)'
<1>1. decrees \in Nat BY DEF ScopesInvariant, ScopeShapes
<1>2. q.step # "idle" => q.since <= decrees' BY <1>1 DEF RequestSound
<1>3. q.step # "idle" /\ q.since = decrees' =>
         /\ q.since = decrees
         /\ \A g \in Groups \ owned' : g \notin owned /\ group'[g] = group[g] /\ name'[g] = name[g]
  BY <1>1 DEF RequestSound
<1>4. q.step \in {"guard", "decide"} => ReadSound(q)'
  BY <1>3 DEF RequestSound, ReadSound, AsRead, NamesApart
<1>5. q.step \in {"decide", "write"} => NamedSound(q)'
  BY DEF RequestSound, NamedSound
<1>6. q.step = "write" => OrderSound(q)'
  <2> SUFFICES ASSUME q.step = "write" PROVE OrderSound(q)' OBVIOUS
  <2>1. OrderSound(q) BY DEF RequestSound
  <2>2. NameFree(q) => NameFree(q)' BY <1>3 DEF NameFree
  <2> QED BY <2>1, <2>2 DEF OrderSound
<1> QED BY <1>2, <1>4, <1>5, <1>6 DEF RequestSound

\* So are all, when one of them is over.
LEMMA OthersSound ==
    ASSUME ScopesInvariant, NEW c \in Clients,
           request' \in {request, [request EXCEPT ![c] = Scp!Idle]},
           owned \subseteq owned', decrees' \in Nat,
           \/ /\ decrees' = decrees
              /\ \A g \in Groups \ owned' : group'[g] = group[g] /\ name'[g] = name[g]
           \/ decrees' = decrees + 1,
           \A u \in Accounts : Scp!AtIt(u) /\ Below(u) => Below(u)'
    PROVE  /\ request' \in [Clients -> {Scp!Idle} \cup Resolving \cup Guarding \cup ScopeDeciding \cup Writing]
           /\ (\A d \in Clients : RequestSound(request[d]))'
<1>1. request \in [Clients -> {Scp!Idle} \cup Resolving \cup Guarding \cup ScopeDeciding \cup Writing]
  BY DEF ScopesInvariant, ScopeShapes
<1>2. \A d \in Clients : request'[d] \in {request[d], Scp!Idle} BY <1>1
<1>3. \A d \in Clients : request'[d].step # "idle" => request'[d] = request[d]
  <2>1. Scp!Idle.step = "idle" BY DEF Scp!Idle
  <2> QED BY <1>2, <2>1
<1>4. ASSUME NEW d \in Clients PROVE RequestSound(request[d])'
  <2>1. CASE request'[d].step = "idle" BY <2>1 DEF RequestSound
  <2>2. CASE request'[d].step # "idle"
    <3>1. PICK q \in Resolving \cup Guarding \cup ScopeDeciding \cup Writing :
             q = request[d] /\ RequestSound(q)
      <4>1. request[d] # Scp!Idle BY <2>2, <1>3 DEF Scp!Idle
      <4> QED BY <4>1, RequestAt
    <3>2. q.since \in Nat BY DEF Resolving, Guarding, ScopeDeciding, Writing
    <3>3. q.step \in {"decide", "write"} /\ q.kind = "user" /\ q.id # None /\ Below(q.id)
             => Below(q.id)'
      <4>1. q.step \in {"decide", "write"} /\ q.kind = "user" /\ q.id # None =>
               q.id \in Accounts
        BY <3>1 DEF RequestSound, NamedSound
      <4>2. ASSUME q.step \in {"decide", "write"}, q.kind = "user", q.id # None, Below(q.id)
            PROVE  Below(q.id)'
        <5>1. PICK u \in Accounts : u = q.id BY <4>1, <4>2
        <5>2. Scp!AtIt(u) BY <5>1, <4>2, <3>1 DEF Scp!AtIt
        <5> QED BY <4>2, <5>1, <5>2
      <4> QED BY <4>2
    <3>4. RequestSound(q)' BY <3>1, <3>2, <3>3, SoundKept
    <3>5. request'[d] = q BY <3>1, <2>2, <1>3
    <3> QED BY <3>4, <3>5
            DEF RequestSound, ReadSound, NamedSound, OrderSound, AsRead, NameFree, Below
  <2> QED BY <2>1, <2>2
<1> QED BY <1>1, <1>2, <1>4

\* The request that writes, and what it is about.
LEMMA WriteAt ==
    ASSUME ScopesInvariant, NEW c \in Clients, request[c].step = "write"
    PROVE  /\ request[c] \in Writing /\ NamedSound(request[c]) /\ OrderSound(request[c])
           /\ request[c].up \in Groups \cup {None} /\ request[c].op \in {"put", "delete"}
           /\ request[c].give \in Asked \cup {None}
BY RequestAt DEF RequestSound, Writing

LEMMA ScopeWriteMonitor ==
    ASSUME ScopeSorts, ScopesInvariant, NEW c \in Clients, NEW m \in Monitors,
           Scp!WriteMonitor(c, m)
    PROVE  ScopesInvariant'
<1> DEFINE r == request[c]
<1>1. /\ r.step = "write" /\ r.kind = "monitor" /\ Scp!Target(r, m, place)
      /\ r.up # None => Scp!Here(group[r.up])
      /\ place' = [place EXCEPT ![m] = IF r.op = "put" THEN r.up ELSE Gone]
      /\ owned' = IF r.id = None /\ r.up \in owned THEN owned \cup {m} ELSE owned
      /\ request' = [request EXCEPT ![c] = Scp!Idle]
      /\ UNCHANGED <<group, name, account, requests, decrees, law, told>>
  BY DEF Scp!WriteMonitor, Scp!Goes
<1>2. /\ r.op = "delete" => r.id # None
      /\ r.op = "put" => r.up \in owned
      /\ r.id \in (owned \cap Monitors) \cup {None}
      /\ r.up \in Groups \cup {None} /\ r.op \in {"put", "delete"}
  BY <1>1, WriteAt DEF OrderSound, NamedSound
<1>3. m \in owned' /\ owned \subseteq owned' /\ owned' \subseteq owned \cup {m}
  BY <1>1, <1>2 DEF Scp!Target
<1> HIDE DEF r
<1>4. ScopeShapes BY DEF ScopesInvariant
<1>5. place'[m] = (IF r.op = "put" THEN r.up ELSE Gone)
      /\ \A x \in Monitors : x # m => place'[x] = place[x]
  BY <1>1, <1>4 DEF ScopeShapes, PlaceTables
<1>6. /\ request' \in [Clients -> {Scp!Idle} \cup Resolving \cup Guarding \cup ScopeDeciding \cup Writing]
      /\ (\A d \in Clients : RequestSound(request[d]))'
  <2>1. \A u \in Accounts : Scp!AtIt(u) /\ Below(u) => Below(u)' BY <1>1 DEF Below
  <2>2. decrees' \in Nat BY <1>1, <1>4 DEF ScopeShapes
  <2> QED BY <1>1, <1>3, <2>1, <2>2, OthersSound
<1>7. ScopeShapes'
  <2>1. place' \in PlaceTables BY <1>1, <1>2, <1>4 DEF ScopeShapes, PlaceTables, Absence
  <2>2. owned' \subseteq Groups \cup Monitors BY <1>3, <1>4 DEF ScopeShapes
  <2> QED BY <2>1, <2>2, <1>1, <1>4, <1>6 DEF ScopeShapes
<1>8. OwnedIsClosed'
  <2>1. \A g \in Groups : group[g] \in owned' => g \in owned'
    <3> SUFFICES ASSUME NEW g \in Groups, group[g] \in owned' PROVE g \in owned' OBVIOUS
    <3>1. group[g] # m BY <1>4 DEF ScopeShapes, GroupTables, ScopeSorts, Absence
    <3> QED BY <3>1, <1>3 DEF ScopesInvariant, OwnedIsClosed
  <2>2. \A x \in Monitors : place'[x] \in owned' => x \in owned'
    <3> SUFFICES ASSUME NEW x \in Monitors, x # m, place'[x] \in owned' PROVE x \in owned'
      BY <1>3
    <3>1. place'[x] = place[x] /\ place[x] # m
      BY <1>4, <1>5 DEF ScopeShapes, PlaceTables, ScopeSorts, Absence
    <3> QED BY <3>1, <1>3 DEF ScopesInvariant, OwnedIsClosed
  <2> QED BY <2>1, <2>2, <1>1 DEF OwnedIsClosed
<1>9. PlacesHere'
  <2> SUFFICES ASSUME NEW x \in Monitors, place'[x] \in Groups PROVE Scp!Here(group[place'[x]])
    BY <1>1 DEF PlacesHere, Scp!Here
  <2>1. CASE x = m
    <3>1. place'[x] = r.up /\ r.up # None BY <2>1, <1>5 DEF ScopeSorts, Absence
    <3> QED BY <3>1, <1>1
  <2>2. CASE x # m BY <2>2, <1>5 DEF ScopesInvariant, PlacesHere
  <2> QED BY <2>1, <2>2
<1>10. Scp!TwoLevels' /\ NamesApart(group, name)' /\ Scp!FullUntouched'
  BY <1>1 DEF ScopesInvariant, Scp!TwoLevels, NamesApart, Scp!FullUntouched
<1>11. GrantsAreOwned' BY <1>1, <1>3 DEF ScopesInvariant, GrantsAreOwned
<1>12. Scp!OutsideUntouched'
  BY <1>1, <1>3, <1>5 DEF ScopesInvariant, Scp!OutsideUntouched
<1>13. Scp!TellsNothing' BY <1>1, <1>3 DEF ScopesInvariant, Scp!TellsNothing
<1> QED BY <1>6, <1>7, <1>8, <1>9, <1>10, <1>11, <1>12, <1>13 DEF ScopesInvariant

LEMMA ScopeWriteGroup ==
    ASSUME ScopeSorts, ScopesInvariant, NEW c \in Clients, NEW g \in Groups,
           Scp!WriteGroup(c, g)
    PROVE  ScopesInvariant'
<1> DEFINE r == request[c]
<1>1. /\ r.step = "write" /\ r.kind = "group" /\ r.op = "put" /\ Scp!Target(r, g, group)
      /\ Scp!Fits(g, r.up) /\ Scp!Namesakes(g, r.up, r.name) = {}
      /\ group' = [group EXCEPT ![g] = r.up] /\ name' = [name EXCEPT ![g] = r.name]
      /\ owned' = IF r.id = None /\ r.up \in owned THEN owned \cup {g} ELSE owned
      /\ request' = [request EXCEPT ![c] = Scp!Idle]
      /\ UNCHANGED <<place, account, requests, decrees, law, told>>
  BY DEF Scp!WriteGroup, Scp!Goes
<1>2. /\ r.up \in owned \/ (r.up = None /\ r.id # None)
      /\ r.id \in (owned \cap Groups) \cup {None}
      /\ r.up \in Groups \cup {None} /\ r.name \in Names
  <2>1. NamedSound(r) /\ OrderSound(r) /\ r.up \in Groups \cup {None} BY <1>1, WriteAt
  <2>2. r.up \in owned \/ (r.up = None /\ r.id # None) BY <2>1, <1>1 DEF OrderSound
  <2>3. r.name \in Names BY <2>1, <1>1 DEF OrderSound
  <2> QED BY <2>1, <2>2, <2>3, <1>1 DEF NamedSound
<1>3. /\ g \in owned' /\ owned \subseteq owned'
      /\ owned' = owned \/ (owned' = owned \cup {g} /\ group[g] = Absent)
  BY <1>1, <1>2 DEF Scp!Target
<1>4. PICK up \in Groups \cup {None}, n \in Names : up = r.up /\ n = r.name BY <1>2
<1> HIDE DEF r
<1>5. ScopeShapes BY DEF ScopesInvariant
<1>6. /\ group'[g] = up /\ \A x \in Groups : x # g => group'[x] = group[x]
      /\ name'[g] = n /\ \A x \in Groups : x # g => name'[x] = name[x]
  BY <1>1, <1>4, <1>5 DEF ScopeShapes, GroupTables, NameTables
<1>7. up # None => group[up] = None /\ up # g /\ \A x \in Groups : group[x] # g
  BY <1>1, <1>4 DEF Scp!Fits
<1>8. group[g] = Absent => \A x \in Groups : group[x] # g
  <2> SUFFICES ASSUME group[g] = Absent, NEW x \in Groups, group[x] = g PROVE FALSE OBVIOUS
  <2>1. group[group[x]] = None BY DEF ScopesInvariant, Scp!TwoLevels
  <2> QED BY <2>1 DEF ScopeSorts
<1>9. group[g] = Absent => \A m \in Monitors : place[m] # g
  <2> SUFFICES ASSUME group[g] = Absent, NEW m \in Monitors, place[m] = g PROVE FALSE OBVIOUS
  <2>1. Scp!Here(group[place[m]]) BY DEF ScopesInvariant, PlacesHere
  <2> QED BY <2>1 DEF Scp!Here
<1>10. /\ request' \in [Clients -> {Scp!Idle} \cup Resolving \cup Guarding \cup ScopeDeciding \cup Writing]
       /\ (\A d \in Clients : RequestSound(request[d]))'
  <2>1. \A u \in Accounts : Scp!AtIt(u) /\ Below(u) => Below(u)' BY <1>1 DEF Below
  <2>2. decrees' \in Nat /\ decrees' = decrees BY <1>1, <1>5 DEF ScopeShapes
  <2>3. \A x \in Groups \ owned' : group'[x] = group[x] /\ name'[x] = name[x]
    BY <1>3, <1>6
  <2> QED BY <1>1, <1>3, <2>1, <2>2, <2>3, OthersSound
<1>11. ScopeShapes'
  <2>1. group' \in GroupTables BY <1>1, <1>4, <1>5 DEF ScopeShapes, GroupTables, Absence
  <2>2. name' \in NameTables BY <1>1, <1>4, <1>5 DEF ScopeShapes, NameTables
  <2>3. owned' \subseteq Groups \cup Monitors BY <1>3, <1>5 DEF ScopeShapes
  <2> QED BY <2>1, <2>2, <2>3, <1>1, <1>5, <1>10 DEF ScopeShapes
<1>12. Scp!TwoLevels'
  <2> SUFFICES ASSUME NEW x \in Groups, group'[x] \in Groups PROVE group'[group'[x]] = None
    BY DEF Scp!TwoLevels
  <2>1. CASE x = g
    <3>1. up \in Groups /\ up # None BY <2>1, <1>6 DEF ScopeSorts, Absence
    <3> QED BY <2>1, <3>1, <1>6, <1>7
  <2>2. CASE x # g
    <3>1. group[group[x]] = None /\ group'[x] = group[x]
      BY <2>2, <1>6 DEF ScopesInvariant, Scp!TwoLevels
    <3>2. CASE group[x] = g
      <4>1. up = None BY <3>2, <1>7
      <4> QED BY <3>1, <3>2, <4>1, <1>6
    <3>3. CASE group[x] # g BY <3>1, <3>3, <1>6
    <3> QED BY <3>2, <3>3
  <2> QED BY <2>1, <2>2
<1>13. NamesApart(group, name)'
  <2>1. \A x \in Groups : x # g /\ Scp!Here(group[x]) /\ group[x] = up => name[x] # n
    <3> SUFFICES ASSUME NEW x \in Groups, x # g, Scp!Here(group[x]), group[x] = up, name[x] = n
                 PROVE  FALSE
      OBVIOUS
    <3>1. x \in Scp!Namesakes(g, up, n) BY DEF Scp!Namesakes
    <3> QED BY <3>1, <1>1, <1>4
  <2> SUFFICES ASSUME NEW x \in Groups, NEW y \in Groups, x # y, Scp!Here(group'[x]),
                      group'[x] = group'[y]
               PROVE  name'[x] # name'[y]
    BY DEF NamesApart, Scp!Here
  <2>2. CASE x = g
    <3>1. group[y] = up /\ Scp!Here(group[y]) BY <2>2, <1>6 DEF Scp!Here
    <3> QED BY <3>1, <2>1, <2>2, <1>6
  <2>3. CASE y = g
    <3>1. group[x] = up /\ Scp!Here(group[x]) BY <2>3, <1>6 DEF Scp!Here
    <3> QED BY <3>1, <2>1, <2>3, <1>6
  <2>4. CASE x # g /\ y # g
    <3>1. Scp!Here(group[x]) BY <2>4, <1>6 DEF Scp!Here
    <3> QED BY <3>1, <2>4, <1>6 DEF ScopesInvariant, NamesApart
  <2> QED BY <2>2, <2>3, <2>4
<1>14. OwnedIsClosed'
  <2>1. ASSUME NEW x \in Groups, group'[x] \in owned' PROVE x \in owned'
    <3>1. CASE x = g BY <3>1, <1>3
    <3>2. CASE x # g
      <4>1. group[x] \in owned BY <2>1, <3>2, <1>3, <1>6, <1>8
      <4> QED BY <4>1, <1>3 DEF ScopesInvariant, OwnedIsClosed
    <3> QED BY <3>1, <3>2
  <2>2. ASSUME NEW m \in Monitors, place[m] \in owned' PROVE m \in owned'
    <3>1. place[m] \in owned BY <2>2, <1>3, <1>9
    <3> QED BY <3>1, <1>3 DEF ScopesInvariant, OwnedIsClosed
  <2> QED BY <2>1, <2>2, <1>1 DEF OwnedIsClosed
<1>15. PlacesHere'
  <2> SUFFICES ASSUME NEW m \in Monitors, place[m] \in Groups PROVE Scp!Here(group'[place[m]])
    BY <1>1 DEF PlacesHere, Scp!Here
  <2>1. Scp!Here(group[place[m]]) BY DEF ScopesInvariant, PlacesHere
  <2>2. CASE place[m] = g BY <2>2, <1>6 DEF Scp!Here, ScopeSorts, Absence
  <2>3. CASE place[m] # g BY <2>1, <2>3, <1>6
  <2> QED BY <2>2, <2>3
<1>16. GrantsAreOwned' /\ Scp!FullUntouched'
  BY <1>1, <1>3 DEF ScopesInvariant, GrantsAreOwned, Scp!FullUntouched
<1>17. Scp!OutsideUntouched'
  BY <1>1, <1>3, <1>6 DEF ScopesInvariant, Scp!OutsideUntouched
<1>18. Scp!TellsNothing' BY <1>1, <1>3 DEF ScopesInvariant, Scp!TellsNothing
<1> QED BY <1>10, <1>11, <1>12, <1>13, <1>14, <1>15, <1>16, <1>17, <1>18 DEF ScopesInvariant

\* A name that is taken is of a group that is owned.
LEMMA ScopeNameTaken ==
    ASSUME ScopeSorts, ScopesInvariant, NEW c \in Clients, NEW g \in Groups,
           Scp!NameTaken(c, g)
    PROVE  ScopesInvariant'
<1> DEFINE r == request[c]
           more == Scp!Namesakes(g, r.up, r.name)
<1>1. /\ r.step = "write" /\ r.kind = "group" /\ r.op = "put" /\ Scp!Target(r, g, group)
      /\ told' = IF r.since = decrees THEN told \cup more ELSE told
      /\ request' = [request EXCEPT ![c] = Scp!Idle]
      /\ UNCHANGED <<group, name, place, account, requests, decrees, owned, law>>
  BY DEF Scp!NameTaken, Scp!Goes
<1>2. NamedSound(r) /\ OrderSound(r) BY <1>1, WriteAt
<1>3. r.up \in owned \/ (r.up = None /\ r.id # None /\ NameFree(r)) BY <1>1, <1>2 DEF OrderSound
<1>4. r.since = decrees => more \subseteq owned
  <2> SUFFICES ASSUME r.since = decrees, NEW x \in Groups, group[x] = r.up, name[x] = r.name
               PROVE  x \in owned
    BY DEF Scp!Namesakes
  <2>1. CASE r.up \in owned BY <2>1 DEF ScopesInvariant, OwnedIsClosed
  <2>2. CASE r.up = None /\ NameFree(r) BY <2>2 DEF NameFree
  <2> QED BY <2>1, <2>2, <1>3
<1>5. more \subseteq Groups BY DEF Scp!Namesakes
<1> HIDE DEF r, more
<1>6. ScopeShapes BY DEF ScopesInvariant
<1>7. /\ request' \in [Clients -> {Scp!Idle} \cup Resolving \cup Guarding \cup ScopeDeciding \cup Writing]
      /\ (\A d \in Clients : RequestSound(request[d]))'
  <2>1. \A u \in Accounts : Scp!AtIt(u) /\ Below(u) => Below(u)' BY <1>1 DEF Below
  <2>2. decrees' \in Nat BY <1>1, <1>6 DEF ScopeShapes
  <2> QED BY <1>1, <2>1, <2>2, OthersSound
<1>8. ScopeShapes' BY <1>1, <1>5, <1>6, <1>7 DEF ScopeShapes
<1>9. Scp!TellsNothing' BY <1>1, <1>4 DEF ScopesInvariant, Scp!TellsNothing
<1>10. /\ Scp!TwoLevels' /\ NamesApart(group, name)' /\ OwnedIsClosed' /\ PlacesHere'
       /\ GrantsAreOwned' /\ Scp!OutsideUntouched' /\ Scp!FullUntouched'
  BY <1>1 DEF ScopesInvariant, Scp!TwoLevels, NamesApart, OwnedIsClosed, PlacesHere,
              GrantsAreOwned, Scp!OutsideUntouched, Scp!FullUntouched
<1> QED BY <1>7, <1>8, <1>9, <1>10 DEF ScopesInvariant

LEMMA ScopeDeleteGroup ==
    ASSUME ScopeSorts, ScopesInvariant, NEW c \in Clients, NEW g \in Groups,
           Scp!DeleteGroup(c, g)
    PROVE  ScopesInvariant'
<1> DEFINE r == request[c]
<1>1. /\ r.step = "write" /\ r.kind = "group" /\ r.op = "delete" /\ Scp!Target(r, g, group)
      /\ Scp!Empty(g)
      /\ group' = [group EXCEPT ![g] = Gone] /\ account' = Scp!Without(account, g)
      /\ request' = [request EXCEPT ![c] = Scp!Idle]
      /\ UNCHANGED <<name, place, requests, decrees, owned, law, told>>
  BY DEF Scp!DeleteGroup, Scp!Goes
<1>2. g \in owned
  <2>1. r.id # None /\ r.id \in (owned \cap Groups) \cup {None}
    BY <1>1, WriteAt DEF OrderSound, NamedSound
  <2> QED BY <2>1, <1>1 DEF Scp!Target
<1> HIDE DEF r
<1>3. ScopeShapes BY DEF ScopesInvariant
<1>4. group'[g] = Gone /\ \A x \in Groups : x # g => group'[x] = group[x]
  BY <1>1, <1>3 DEF ScopeShapes, GroupTables
<1>5. (\A x \in Groups : group[x] # g) /\ \A m \in Monitors : place[m] # g
  BY <1>1 DEF Scp!Empty
<1>6. \A u \in Accounts :
         /\ account'[u] \in Scp!Row \cup {Absent, Gone}
         /\ Scp!Here(account'[u]) <=> Scp!Here(account[u])
         /\ Scp!Here(account[u]) => /\ account'[u].all = account[u].all
                                    /\ account'[u].groups = account[u].groups \ {g}
         /\ Scp!Full(account[u]) \/ ~Scp!Here(account[u]) => account'[u] = account[u]
  <2> SUFFICES ASSUME NEW u \in Accounts
               PROVE  /\ account'[u] \in Scp!Row \cup {Absent, Gone}
                      /\ Scp!Here(account'[u]) <=> Scp!Here(account[u])
                      /\ Scp!Here(account[u]) =>
                            /\ account'[u].all = account[u].all
                            /\ account'[u].groups = account[u].groups \ {g}
                      /\ Scp!Full(account[u]) \/ ~Scp!Here(account[u]) =>
                            account'[u] = account[u]
    OBVIOUS
  <2>1. account'[u] = IF Scp!Here(account[u]) THEN [account[u] EXCEPT !.groups = @ \ {g}]
                                              ELSE account[u]
    BY <1>1 DEF Scp!Without
  <2>2. CASE ~Scp!Here(account[u])
    <3>1. account'[u] = account[u] BY <2>1, <2>2
    <3> QED BY <3>1, <2>2, <1>3 DEF ScopeShapes, AccountTables
  <2>3. CASE Scp!Here(account[u])
    <3>1. PICK a \in Scp!Row : a = account[u]
      BY <2>3, <1>3 DEF ScopeShapes, AccountTables, Scp!Here
    <3>2. account'[u] = [a EXCEPT !.groups = @ \ {g}] BY <2>1, <2>3, <3>1
    <3>3. account'[u] \in Scp!Row /\ account'[u].all = a.all /\ account'[u].groups = a.groups \ {g}
      BY <3>2 DEF Scp!Row
    <3>4. a.all => a.groups = {}
      BY <2>3, <3>1 DEF ScopesInvariant, GrantsAreOwned
    <3>5. a.all => account'[u] = a
      <4> SUFFICES ASSUME a.all PROVE account'[u] = a OBVIOUS
      <4>1. a.groups \ {g} = a.groups BY <3>4
      <4> QED BY <3>2, <4>1 DEF Scp!Row
    <3>6. Scp!Here(account'[u]) BY <3>3 DEF Scp!Here, ScopeSorts
    <3> QED BY <2>3, <3>1, <3>3, <3>5, <3>6 DEF Scp!Full
  <2> QED BY <2>2, <2>3
<1>7. \A u \in Accounts : Scp!Full(account'[u]) <=> Scp!Full(account[u]) BY <1>6 DEF Scp!Full
<1>8. /\ request' \in [Clients -> {Scp!Idle} \cup Resolving \cup Guarding \cup ScopeDeciding \cup Writing]
      /\ (\A d \in Clients : RequestSound(request[d]))'
  <2>1. \A u \in Accounts : Scp!AtIt(u) /\ Below(u) => Below(u)'
    BY <1>1, <1>7 DEF Below, Scp!Full, Scp!Here
  <2>2. decrees' \in Nat BY <1>1, <1>3 DEF ScopeShapes
  <2>3. \A x \in Groups \ owned' : group'[x] = group[x] /\ name'[x] = name[x]
    BY <1>1, <1>2, <1>4
  <2> QED BY <1>1, <2>1, <2>2, <2>3, OthersSound
<1>9. ScopeShapes'
  <2>1. group' \in GroupTables BY <1>1, <1>3 DEF ScopeShapes, GroupTables, Absence
  <2>2. account' \in AccountTables BY <1>1, <1>6 DEF AccountTables, Scp!Without
  <2> QED BY <2>1, <2>2, <1>1, <1>3, <1>8 DEF ScopeShapes
<1>10. Scp!TwoLevels'
  <2> SUFFICES ASSUME NEW x \in Groups, group'[x] \in Groups PROVE group'[group'[x]] = None
    BY DEF Scp!TwoLevels
  <2>1. x # g BY <1>4 DEF ScopeSorts, Absence
  <2>2. group'[x] = group[x] /\ group[x] # g BY <2>1, <1>4, <1>5
  <2> QED BY <2>2, <1>4 DEF ScopesInvariant, Scp!TwoLevels
<1>11. NamesApart(group, name)'
  <2> SUFFICES ASSUME NEW x \in Groups, NEW y \in Groups, x # y, Scp!Here(group'[x]),
                      group'[x] = group'[y]
               PROVE  name[x] # name[y]
    BY <1>1 DEF NamesApart, Scp!Here
  <2>1. x # g /\ y # g BY <1>4 DEF Scp!Here
  <2>2. Scp!Here(group[x]) BY <2>1, <1>4 DEF Scp!Here
  <2> QED BY <2>1, <2>2, <1>4 DEF ScopesInvariant, NamesApart
<1>12. OwnedIsClosed'
  <2>1. ASSUME NEW x \in Groups, group'[x] \in owned PROVE x \in owned
    <3>1. x = g \/ group[x] \in owned BY <2>1, <1>4
    <3> QED BY <3>1, <1>2 DEF ScopesInvariant, OwnedIsClosed
  <2>2. \A m \in Monitors : place[m] \in owned => m \in owned
    BY DEF ScopesInvariant, OwnedIsClosed
  <2> QED BY <2>1, <2>2, <1>1 DEF OwnedIsClosed
<1>13. PlacesHere'
  <2> SUFFICES ASSUME NEW m \in Monitors, place[m] \in Groups PROVE Scp!Here(group'[place[m]])
    BY <1>1 DEF PlacesHere, Scp!Here
  <2>1. place[m] # g BY <1>5
  <2> QED BY <2>1, <1>4 DEF ScopesInvariant, PlacesHere
<1>14. GrantsAreOwned'
  <2> SUFFICES ASSUME NEW u \in Accounts, Scp!Here(account'[u])
               PROVE  /\ ~account'[u].all => account'[u].groups \subseteq owned
                      /\ account'[u].all => account'[u].groups = {}
    BY <1>1 DEF GrantsAreOwned, Scp!Here
  <2> QED BY <1>6 DEF ScopesInvariant, GrantsAreOwned
<1>15. Scp!OutsideUntouched' BY <1>1, <1>2, <1>4 DEF ScopesInvariant, Scp!OutsideUntouched
<1>16. Scp!FullUntouched'
  <2> SUFFICES ASSUME NEW u \in Accounts, Scp!Full(account'[u]) \/ Scp!Full(law.account[u])
               PROVE  law.account[u] \in {account'[u], Gone}
    BY <1>1 DEF Scp!FullUntouched, Scp!Full, Scp!Here
  <2>1. law.account[u] \in {account[u], Gone}
    BY <1>7 DEF ScopesInvariant, Scp!FullUntouched
  <2>2. law.account[u] = account[u] => Scp!Full(account[u]) BY <1>7
  <2> QED BY <2>1, <2>2, <1>6
<1>17. Scp!TellsNothing' BY <1>1 DEF ScopesInvariant, Scp!TellsNothing
<1> QED BY <1>8, <1>9, <1>10, <1>11, <1>12, <1>13, <1>14, <1>15, <1>16, <1>17
        DEF ScopesInvariant

\* The row a restricted administrator leaves of an account.
LEMMA RowWritten ==
    ASSUME ScopeSorts, ScopesInvariant, NEW r \in Writing, NEW u \in Accounts,
           r.kind = "user", NamedSound(r), OrderSound(r), Scp!Target(r, u, account)
    PROVE  LET next == Scp!RowAfter(r, account[u]) IN
           /\ next \in Scp!Row \cup {Absent, Gone}
           /\ Scp!Here(next) => /\ ~next.all => next.groups \subseteq owned
                                /\ next.all => next.groups = {}
           /\ Scp!Full(next) => r.id = u /\ Scp!Full(account[u])
<1>1. r.op \in {"put", "delete"} /\ r.give \in Asked \cup {None} BY DEF Writing
<1>2. CASE r.op = "delete"
  <2>1. Scp!RowAfter(r, account[u]) = Gone BY <1>2 DEF Scp!RowAfter
  <2> QED BY <2>1 DEF Scp!Full, Scp!Here
<1>3. CASE r.op = "put" /\ r.give = None
  <2>1. r.id = u /\ Scp!Here(account[u]) /\ r.name \in Roles
    BY <1>3 DEF OrderSound, Scp!Target
  <2>2. PICK a \in Scp!Row : a = account[u]
    BY <2>1 DEF ScopesInvariant, ScopeShapes, AccountTables, Scp!Here
  <2>3. Scp!RowAfter(r, account[u]) = [a EXCEPT !.role = r.name]
    BY <1>3, <2>2 DEF Scp!RowAfter
  <2>4. /\ [a EXCEPT !.role = r.name] \in Scp!Row
        /\ [a EXCEPT !.role = r.name].all = a.all
        /\ [a EXCEPT !.role = r.name].groups = a.groups
    BY <2>1 DEF Scp!Row, Roles
  <2>5. (~a.all => a.groups \subseteq owned) /\ (a.all => a.groups = {})
    BY <2>1, <2>2 DEF ScopesInvariant, GrantsAreOwned
  <2> QED BY <2>1, <2>2, <2>3, <2>4, <2>5 DEF Scp!Full
<1>4. CASE r.op = "put" /\ r.give # None
  <2>1. ~r.give.all /\ r.give.groups \subseteq owned /\ r.name \in Roles /\ r.give \in Asked
    BY <1>1, <1>4 DEF OrderSound
  <2>2. Scp!RowAfter(r, account[u]) = Scp!Given(r.name, r.give) BY <1>4 DEF Scp!RowAfter
  <2>3. /\ Scp!Given(r.name, r.give) \in Scp!Row
        /\ Scp!Given(r.name, r.give).all = r.give.all
        /\ Scp!Given(r.name, r.give).groups = r.give.groups
    BY <2>1, GivenRows
  <2> QED BY <2>1, <2>2, <2>3 DEF Scp!Full
<1> QED BY <1>1, <1>2, <1>3, <1>4

LEMMA ScopeWriteUser ==
    ASSUME ScopeSorts, ScopesInvariant, NEW c \in Clients, NEW u \in Accounts,
           Scp!WriteUser(c, u)
    PROVE  ScopesInvariant'
<1>1. ScopeShapes BY DEF ScopesInvariant
<1>2. PICK r \in Writing :
         r = request[c] /\ r.kind = "user" /\ NamedSound(r) /\ OrderSound(r)
  BY WriteAt DEF Scp!WriteUser
<1>3. PICK next : next = Scp!RowAfter(r, account[u]) OBVIOUS
<1>4. /\ Scp!Target(r, u, account)
      /\ account' = [account EXCEPT ![u] = next]
      /\ request' = [request EXCEPT ![c] = Scp!Idle]
      /\ UNCHANGED <<group, name, place, requests, decrees, owned, law, told>>
  BY <1>2, <1>3 DEF Scp!WriteUser, Scp!Goes
<1>5. /\ next \in Scp!Row \cup {Absent, Gone}
      /\ Scp!Here(next) => /\ ~next.all => next.groups \subseteq owned
                           /\ next.all => next.groups = {}
      /\ Scp!Full(next) => r.id = u /\ Scp!Full(account[u])
  BY <1>2, <1>3, <1>4, RowWritten
<1>6. account'[u] = next /\ \A x \in Accounts : x # u => account'[x] = account[x]
  BY <1>1, <1>4 DEF ScopeShapes, AccountTables
<1>7. Scp!Full(next) => law.account[u] = Gone
  <2>1. Scp!Full(next) => r.id = u /\ u # None /\ Scp!Full(account[u])
    BY <1>5 DEF ScopeSorts, Absence
  <2>2. r.id = u /\ u # None => Below(u) BY <1>2 DEF NamedSound
  <2> QED BY <2>1, <2>2 DEF Below
<1>8. /\ request' \in [Clients -> {Scp!Idle} \cup Resolving \cup Guarding \cup ScopeDeciding \cup Writing]
      /\ (\A d \in Clients : RequestSound(request[d]))'
  <2>1. ASSUME NEW x \in Accounts, Below(x) PROVE Below(x)'
    <3>1. Below(x)' <=> (Scp!Full(account'[x]) => law.account[x] = Gone)
      BY <1>4 DEF Below, Scp!Full, Scp!Here
    <3>2. CASE x = u BY <3>1, <3>2, <1>6, <1>7
    <3>3. CASE x # u BY <2>1, <3>1, <3>3, <1>6 DEF Below
    <3> QED BY <3>2, <3>3
  <2>2. decrees' \in Nat BY <1>1, <1>4 DEF ScopeShapes
  <2> QED BY <1>4, <2>1, <2>2, OthersSound
<1>9. ScopeShapes'
  <2>1. account' \in AccountTables BY <1>1, <1>4, <1>5 DEF ScopeShapes, AccountTables
  <2> QED BY <2>1, <1>1, <1>4, <1>8 DEF ScopeShapes
<1>10. GrantsAreOwned'
  <2> SUFFICES ASSUME NEW x \in Accounts, Scp!Here(account'[x])
               PROVE  /\ ~account'[x].all => account'[x].groups \subseteq owned
                      /\ account'[x].all => account'[x].groups = {}
    BY <1>4 DEF GrantsAreOwned, Scp!Here
  <2>1. CASE x = u BY <2>1, <1>5, <1>6
  <2>2. CASE x # u BY <2>2, <1>6 DEF ScopesInvariant, GrantsAreOwned
  <2> QED BY <2>1, <2>2
<1>11. Scp!FullUntouched'
  <2> SUFFICES ASSUME NEW x \in Accounts, Scp!Full(account'[x]) \/ Scp!Full(law.account[x])
               PROVE  law.account[x] \in {account'[x], Gone}
    BY <1>4 DEF Scp!FullUntouched, Scp!Full, Scp!Here
  <2>1. CASE x # u BY <2>1, <1>6 DEF ScopesInvariant, Scp!FullUntouched
  <2>2. CASE x = u /\ Scp!Full(next) BY <2>2, <1>7
  <2>3. CASE x = u /\ ~Scp!Full(next)
    <3>1. Scp!Full(law.account[u]) BY <2>3, <1>6
    <3>2. law.account[u] \in {account[u], Gone}
      BY <3>1 DEF ScopesInvariant, Scp!FullUntouched
    <3>3. law.account[u] # Gone BY <3>1 DEF Scp!Full, Scp!Here
    <3>4. Scp!Full(account[u]) /\ law.account[u] = account[u] BY <3>1, <3>2, <3>3
    <3>5. r.id = u
      <4>1. Scp!Here(account[u]) BY <3>4 DEF Scp!Full
      <4> QED BY <4>1, <1>4 DEF Scp!Target, Scp!Here
    <3>6. Below(u) BY <3>5, <1>2 DEF NamedSound, ScopeSorts, Absence
    <3> QED BY <3>3, <3>4, <3>6 DEF Below
  <2> QED BY <2>1, <2>2, <2>3
<1>12. /\ Scp!TwoLevels' /\ NamesApart(group, name)' /\ OwnedIsClosed' /\ PlacesHere'
       /\ Scp!OutsideUntouched' /\ Scp!TellsNothing'
  BY <1>4 DEF ScopesInvariant, Scp!TwoLevels, NamesApart, OwnedIsClosed, PlacesHere,
              Scp!OutsideUntouched, Scp!TellsNothing, Scp!Here
<1> QED BY <1>8, <1>9, <1>10, <1>11, <1>12 DEF ScopesInvariant

\* A decree entitles to all that it leaves under what was owned.
LEMMA DecreeEntitles ==
    ASSUME ScopeSorts, ScopesInvariant, NEW tree \in GroupTables, NEW places \in PlaceTables,
           NEW accounts \in AccountTables, NEW entitled \in SUBSET (Groups \cup Monitors),
           owned \subseteq entitled, Scp!Decree(tree, places, accounts, entitled),
           \A g \in Groups : tree[g] \in Groups => tree[tree[g]] = None,
           \A u \in Accounts : Scp!AtIt(u) /\ Below(u) => Below(u)'
    PROVE  /\ group' = tree /\ place' = places /\ account' = accounts
           /\ entitled \subseteq owned' /\ owned' \in SUBSET (Groups \cup Monitors)
           /\ UNCHANGED <<name, request, requests, told>> /\ decrees' \in Nat
           /\ OwnedIsClosed' /\ (\A d \in Clients : RequestSound(request[d]))'
<1> DEFINE gs == entitled \cup {g \in Groups : tree[g] \in entitled}
<1>1. /\ group' = tree /\ place' = places /\ account' = accounts /\ decrees' = decrees + 1
      /\ owned' = gs \cup {m \in Monitors : places[m] \in gs}
      /\ UNCHANGED <<name, request, requests, told>>
  BY DEF Scp!Decree
<1>2. decrees \in Nat BY DEF ScopesInvariant, ScopeShapes
<1>3. entitled \subseteq owned' /\ owned' \in SUBSET (Groups \cup Monitors) BY <1>1
<1>4. OwnedIsClosed'
  <2>1. ASSUME NEW g \in Groups, tree[g] \in owned' PROVE g \in owned'
    <3>1. tree[g] \in Groups
      BY <2>1, <1>3 DEF GroupTables, ScopeSorts, Absence
    <3>2. tree[g] \in entitled \/ tree[tree[g]] \in entitled
      BY <2>1, <3>1, <1>1 DEF ScopeSorts
    <3>3. tree[tree[g]] \notin entitled BY <3>1 DEF ScopeSorts, Absence
    <3> QED BY <3>2, <3>3, <1>1
  <2>2. ASSUME NEW m \in Monitors, places[m] \in owned' PROVE m \in owned'
    <3>1. places[m] \in Groups
      BY <2>2, <1>3 DEF PlaceTables, ScopeSorts, Absence
    <3>2. places[m] \in gs BY <2>2, <3>1, <1>1 DEF ScopeSorts
    <3> QED BY <3>2, <1>1
  <2> QED BY <2>1, <2>2, <1>1 DEF OwnedIsClosed
<1>5. (\A d \in Clients : RequestSound(request[d]))'
  <2>1. owned \subseteq owned' /\ decrees' \in Nat BY <1>1, <1>2, <1>3
  <2>2. CASE Clients = {} BY <2>2
  <2>3. ASSUME NEW c \in Clients PROVE (\A d \in Clients : RequestSound(request[d]))'
    <3>1. request' \in {request, [request EXCEPT ![c] = Scp!Idle]} BY <1>1
    <3> QED BY <3>1, <2>1, <1>1, OthersSound
  <2> QED BY <2>2, <2>3
<1> HIDE DEF gs
<1> QED BY <1>1, <1>2, <1>3, <1>4, <1>5

LEMMA ScopeMoveGroup ==
    ASSUME ScopeSorts, ScopesInvariant, NEW g \in Groups, NEW up \in Groups \cup {None},
           Scp!MoveGroup(g, up)
    PROVE  ScopesInvariant'
<1>1. ScopeShapes BY DEF ScopesInvariant
<1>2. PICK tree : tree = [group EXCEPT ![g] = up] OBVIOUS
<1>3. /\ Scp!Here(group[g]) /\ Scp!Fits(g, up) /\ Scp!Namesakes(g, up, name[g]) = {}
      /\ Scp!Decree(tree, place, account, owned)
      /\ law' = [law EXCEPT !.group[g] = up]
  BY <1>2 DEF Scp!MoveGroup
<1>4. tree \in GroupTables BY <1>1, <1>2 DEF ScopeShapes, GroupTables, Absence
<1>5. tree[g] = up /\ \A x \in Groups : x # g => tree[x] = group[x]
  BY <1>1, <1>2 DEF ScopeShapes, GroupTables
<1>6. up # None => group[up] = None /\ up # g /\ \A x \in Groups : group[x] # g
  BY <1>3 DEF Scp!Fits
<1>7. \A x \in Groups : tree[x] \in Groups => tree[tree[x]] = None
  <2> SUFFICES ASSUME NEW x \in Groups, tree[x] \in Groups PROVE tree[tree[x]] = None OBVIOUS
  <2>1. CASE x = g
    <3>1. up \in Groups /\ up # None BY <2>1, <1>5 DEF ScopeSorts, Absence
    <3> QED BY <2>1, <3>1, <1>5, <1>6
  <2>2. CASE x # g
    <3>1. group[group[x]] = None /\ tree[x] = group[x]
      BY <2>2, <1>5 DEF ScopesInvariant, Scp!TwoLevels
    <3>2. CASE group[x] = g
      <4>1. up = None BY <3>2, <1>6
      <4> QED BY <3>1, <3>2, <4>1, <1>5
    <3>3. CASE group[x] # g BY <3>1, <3>3, <1>5
    <3> QED BY <3>2, <3>3
  <2> QED BY <2>1, <2>2
<1>8. /\ law'.account = law.account /\ law'.place = law.place /\ law'.group[g] = up
      /\ \A x \in Groups : x # g => law'.group[x] = law.group[x]
      /\ law' \in [group: GroupTables, place: PlaceTables, account: AccountTables]
  <2>1. PICK was \in [group: GroupTables, place: PlaceTables, account: AccountTables] :
           was = law
    BY <1>1 DEF ScopeShapes
  <2>2. law' = [was EXCEPT !.group = [was.group EXCEPT ![g] = up]] BY <1>3, <2>1
  <2>3. [was.group EXCEPT ![g] = up] \in GroupTables BY DEF GroupTables, Absence
  <2>4. /\ law' \in [group: GroupTables, place: PlaceTables, account: AccountTables]
        /\ law'.account = was.account /\ law'.place = was.place
        /\ law'.group = [was.group EXCEPT ![g] = up]
    BY <2>2, <2>3
  <2> QED BY <2>1, <2>4 DEF GroupTables
<1>9. /\ group' = tree /\ place' = place /\ account' = account
      /\ owned \subseteq owned' /\ owned' \in SUBSET (Groups \cup Monitors)
      /\ UNCHANGED <<name, request, requests, told>> /\ decrees' \in Nat
      /\ OwnedIsClosed' /\ (\A d \in Clients : RequestSound(request[d]))'
  <2>1. account' = account BY <1>3 DEF Scp!Decree
  <2>2. \A u \in Accounts : Scp!AtIt(u) /\ Below(u) => Below(u)' BY <1>8, <2>1 DEF Below
  <2>3. owned \in SUBSET (Groups \cup Monitors) BY <1>1 DEF ScopeShapes
  <2>4. place \in PlaceTables /\ account \in AccountTables BY <1>1 DEF ScopeShapes
  <2> QED BY <1>3, <1>4, <1>7, <2>2, <2>3, <2>4, DecreeEntitles
<1>10. ScopeShapes' BY <1>1, <1>4, <1>8, <1>9 DEF ScopeShapes
<1>11. Scp!TwoLevels' BY <1>7, <1>9 DEF Scp!TwoLevels
<1>12. NamesApart(group, name)'
  <2>1. \A x \in Groups : x # g /\ Scp!Here(group[x]) /\ group[x] = up => name[x] # name[g]
    <3> SUFFICES ASSUME NEW x \in Groups, x # g, Scp!Here(group[x]), group[x] = up,
                        name[x] = name[g]
                 PROVE  FALSE
      OBVIOUS
    <3>1. x \in Scp!Namesakes(g, up, name[g]) BY DEF Scp!Namesakes
    <3> QED BY <3>1, <1>3
  <2> SUFFICES ASSUME NEW x \in Groups, NEW y \in Groups, x # y, Scp!Here(tree[x]),
                      tree[x] = tree[y]
               PROVE  name[x] # name[y]
    BY <1>9 DEF NamesApart, Scp!Here
  <2>2. CASE x = g
    <3>1. group[y] = up /\ Scp!Here(group[y]) BY <2>2, <1>5 DEF Scp!Here
    <3> QED BY <3>1, <2>1, <2>2
  <2>3. CASE y = g
    <3>1. group[x] = up /\ Scp!Here(group[x]) BY <2>3, <1>5 DEF Scp!Here
    <3> QED BY <3>1, <2>1, <2>3
  <2>4. CASE x # g /\ y # g
    <3>1. Scp!Here(group[x]) BY <2>4, <1>5 DEF Scp!Here
    <3> QED BY <3>1, <2>4, <1>5 DEF ScopesInvariant, NamesApart
  <2> QED BY <2>2, <2>3, <2>4
<1>13. PlacesHere'
  <2> SUFFICES ASSUME NEW m \in Monitors, place[m] \in Groups PROVE Scp!Here(tree[place[m]])
    BY <1>9 DEF PlacesHere, Scp!Here
  <2>1. Scp!Here(group[place[m]]) BY DEF ScopesInvariant, PlacesHere
  <2>2. CASE place[m] = g BY <2>2, <1>5 DEF Scp!Here, ScopeSorts, Absence
  <2>3. CASE place[m] # g BY <2>1, <2>3, <1>5
  <2> QED BY <2>2, <2>3
<1>14. GrantsAreOwned'
  BY <1>9 DEF ScopesInvariant, GrantsAreOwned, Scp!Here
<1>15. Scp!OutsideUntouched'
  BY <1>5, <1>8, <1>9 DEF ScopesInvariant, Scp!OutsideUntouched
<1>16. Scp!FullUntouched'
  BY <1>8, <1>9 DEF ScopesInvariant, Scp!FullUntouched, Scp!Full, Scp!Here
<1>17. Scp!TellsNothing' BY <1>9 DEF ScopesInvariant, Scp!TellsNothing
<1> QED BY <1>9, <1>10, <1>11, <1>12, <1>13, <1>14, <1>15, <1>16, <1>17 DEF ScopesInvariant

LEMMA ScopeMoveMonitor ==
    ASSUME ScopeSorts, ScopesInvariant, NEW m \in Monitors, NEW up \in Groups \cup {None},
           Scp!MoveMonitor(m, up)
    PROVE  ScopesInvariant'
<1>1. ScopeShapes BY DEF ScopesInvariant
<1>2. PICK places : places = [place EXCEPT ![m] = up] OBVIOUS
<1>3. /\ up # None => Scp!IsLeaf(group, up)
      /\ Scp!Decree(group, places, account, owned)
      /\ law' = [law EXCEPT !.place[m] = up]
  BY <1>2 DEF Scp!MoveMonitor
<1>4. places \in PlaceTables BY <1>1, <1>2 DEF ScopeShapes, PlaceTables, Absence
<1>5. places[m] = up /\ \A x \in Monitors : x # m => places[x] = place[x]
  BY <1>1, <1>2 DEF ScopeShapes, PlaceTables
<1>6. /\ law'.account = law.account /\ law'.group = law.group /\ law'.place[m] = up
      /\ \A x \in Monitors : x # m => law'.place[x] = law.place[x]
      /\ law' \in [group: GroupTables, place: PlaceTables, account: AccountTables]
  <2>1. PICK was \in [group: GroupTables, place: PlaceTables, account: AccountTables] :
           was = law
    BY <1>1 DEF ScopeShapes
  <2>2. law' = [was EXCEPT !.place = [was.place EXCEPT ![m] = up]] BY <1>3, <2>1
  <2>3. [was.place EXCEPT ![m] = up] \in PlaceTables BY DEF PlaceTables, Absence
  <2>4. /\ law' \in [group: GroupTables, place: PlaceTables, account: AccountTables]
        /\ law'.account = was.account /\ law'.group = was.group
        /\ law'.place = [was.place EXCEPT ![m] = up]
    BY <2>2, <2>3
  <2> QED BY <2>1, <2>4 DEF PlaceTables
<1>7. /\ group' = group /\ place' = places /\ account' = account
      /\ owned \subseteq owned' /\ owned' \in SUBSET (Groups \cup Monitors)
      /\ UNCHANGED <<name, request, requests, told>> /\ decrees' \in Nat
      /\ OwnedIsClosed' /\ (\A d \in Clients : RequestSound(request[d]))'
  <2>1. account' = account BY <1>3 DEF Scp!Decree
  <2>2. \A u \in Accounts : Scp!AtIt(u) /\ Below(u) => Below(u)' BY <1>6, <2>1 DEF Below
  <2>3. owned \in SUBSET (Groups \cup Monitors) BY <1>1 DEF ScopeShapes
  <2>4. group \in GroupTables /\ account \in AccountTables BY <1>1 DEF ScopeShapes
  <2>5. \A x \in Groups : group[x] \in Groups => group[group[x]] = None
    BY DEF ScopesInvariant, Scp!TwoLevels
  <2> QED BY <1>3, <1>4, <2>2, <2>3, <2>4, <2>5, DecreeEntitles
<1>8. ScopeShapes' BY <1>1, <1>4, <1>6, <1>7 DEF ScopeShapes
<1>9. PlacesHere'
  <2> SUFFICES ASSUME NEW x \in Monitors, places[x] \in Groups PROVE Scp!Here(group[places[x]])
    BY <1>7 DEF PlacesHere, Scp!Here
  <2>1. CASE x = m
    <3>1. places[x] = up /\ up # None BY <2>1, <1>5 DEF ScopeSorts, Absence
    <3> QED BY <3>1, <1>3 DEF Scp!IsLeaf
  <2>2. CASE x # m BY <2>2, <1>5 DEF ScopesInvariant, PlacesHere
  <2> QED BY <2>1, <2>2
<1>10. GrantsAreOwned'
  BY <1>7 DEF ScopesInvariant, GrantsAreOwned, Scp!Here
<1>11. Scp!OutsideUntouched'
  BY <1>5, <1>6, <1>7 DEF ScopesInvariant, Scp!OutsideUntouched
<1>12. Scp!FullUntouched'
  BY <1>6, <1>7 DEF ScopesInvariant, Scp!FullUntouched, Scp!Full, Scp!Here
<1>13. Scp!TwoLevels' /\ NamesApart(group, name)' /\ Scp!TellsNothing'
  BY <1>7 DEF ScopesInvariant, Scp!TwoLevels, NamesApart, Scp!TellsNothing, Scp!Here
<1> QED BY <1>7, <1>8, <1>9, <1>10, <1>11, <1>12, <1>13 DEF ScopesInvariant

LEMMA ScopeAppoint ==
    ASSUME ScopeSorts, ScopesInvariant, NEW u \in Accounts, NEW role \in Roles, NEW s \in Asked,
           Scp!Appoint(u, Scp!Given(role, s))
    PROVE  ScopesInvariant'
<1>1. ScopeShapes BY DEF ScopesInvariant
<1>2. PICK rec \in Scp!Row :
         /\ rec = Scp!Given(role, s) /\ rec.groups \in SUBSET Groups
         /\ rec.all => rec.groups = {}
  BY GivenRows DEF ScopeSorts
<1>3. PICK accounts : accounts = [account EXCEPT ![u] = rec] OBVIOUS
<1>4. PICK laid \in {rec, Gone} : laid = IF Scp!AtIt(u) THEN Gone ELSE rec OBVIOUS
<1>5. /\ Scp!Decree(group, place, accounts, owned \cup rec.groups)
      /\ law' = [law EXCEPT !.account[u] = laid]
  BY <1>2, <1>3, <1>4 DEF Scp!Appoint
<1>6. accounts \in AccountTables BY <1>1, <1>3 DEF ScopeShapes, AccountTables
<1>7. accounts[u] = rec /\ \A x \in Accounts : x # u => accounts[x] = account[x]
  BY <1>1, <1>3 DEF ScopeShapes, AccountTables
<1>8. /\ law'.place = law.place /\ law'.group = law.group /\ law'.account[u] = laid
      /\ \A x \in Accounts : x # u => law'.account[x] = law.account[x]
      /\ law' \in [group: GroupTables, place: PlaceTables, account: AccountTables]
  <2>1. PICK was \in [group: GroupTables, place: PlaceTables, account: AccountTables] :
           was = law
    BY <1>1 DEF ScopeShapes
  <2>2. law' = [was EXCEPT !.account = [was.account EXCEPT ![u] = laid]] BY <1>5, <2>1
  <2>3. [was.account EXCEPT ![u] = laid] \in AccountTables BY DEF AccountTables
  <2>4. /\ law' \in [group: GroupTables, place: PlaceTables, account: AccountTables]
        /\ law'.place = was.place /\ law'.group = was.group
        /\ law'.account = [was.account EXCEPT ![u] = laid]
    BY <2>2, <2>3
  <2> QED BY <2>1, <2>4 DEF AccountTables
<1>9. \A x \in Accounts : Scp!AtIt(x) /\ Below(x) => Below(x)'
  <2> SUFFICES ASSUME NEW x \in Accounts, Scp!AtIt(x), Below(x) PROVE Below(x)' OBVIOUS
  <2>1. account' = accounts BY <1>5 DEF Scp!Decree
  <2>2. CASE x = u
    <3>1. law'.account[x] = Gone BY <2>2, <1>4, <1>8
    <3> QED BY <3>1 DEF Below
  <2>3. CASE x # u
    <3>1. account'[x] = account[x] /\ law'.account[x] = law.account[x]
      BY <2>1, <2>3, <1>7, <1>8
    <3> QED BY <3>1 DEF Below, Scp!Full, Scp!Here
  <2> QED BY <2>2, <2>3
<1>10. /\ group' = group /\ place' = place /\ account' = accounts
       /\ owned \cup rec.groups \subseteq owned' /\ owned' \in SUBSET (Groups \cup Monitors)
       /\ UNCHANGED <<name, request, requests, told>> /\ decrees' \in Nat
       /\ OwnedIsClosed' /\ (\A d \in Clients : RequestSound(request[d]))'
  <2>1. owned \cup rec.groups \in SUBSET (Groups \cup Monitors)
    BY <1>1, <1>2 DEF ScopeShapes
  <2>2. group \in GroupTables /\ place \in PlaceTables BY <1>1 DEF ScopeShapes
  <2>3. \A x \in Groups : group[x] \in Groups => group[group[x]] = None
    BY DEF ScopesInvariant, Scp!TwoLevels
  <2> QED BY <1>5, <1>6, <1>9, <2>1, <2>2, <2>3, DecreeEntitles
<1>11. ScopeShapes' BY <1>1, <1>6, <1>8, <1>10 DEF ScopeShapes
<1>12. GrantsAreOwned'
  <2> SUFFICES ASSUME NEW x \in Accounts, Scp!Here(accounts[x])
               PROVE  /\ ~accounts[x].all => accounts[x].groups \subseteq owned'
                      /\ accounts[x].all => accounts[x].groups = {}
    BY <1>10 DEF GrantsAreOwned, Scp!Here
  <2>1. CASE x = u BY <2>1, <1>2, <1>7, <1>10
  <2>2. CASE x # u BY <2>2, <1>7, <1>10 DEF ScopesInvariant, GrantsAreOwned
  <2> QED BY <2>1, <2>2
<1>13. Scp!OutsideUntouched'
  BY <1>8, <1>10 DEF ScopesInvariant, Scp!OutsideUntouched
<1>14. Scp!FullUntouched'
  <2> SUFFICES ASSUME NEW x \in Accounts, Scp!Full(accounts[x]) \/ Scp!Full(law'.account[x])
               PROVE  law'.account[x] \in {accounts[x], Gone}
    BY <1>10 DEF Scp!FullUntouched, Scp!Full, Scp!Here
  <2>1. CASE x = u BY <2>1, <1>7, <1>8
  <2>2. CASE x # u BY <2>2, <1>7, <1>8 DEF ScopesInvariant, Scp!FullUntouched
  <2> QED BY <2>1, <2>2
<1>15. Scp!TwoLevels' /\ NamesApart(group, name)' /\ PlacesHere'
  BY <1>10 DEF ScopesInvariant, Scp!TwoLevels, NamesApart, PlacesHere, Scp!Here
<1>16. Scp!TellsNothing' BY <1>10 DEF ScopesInvariant, Scp!TellsNothing
<1> QED BY <1>10, <1>11, <1>12, <1>13, <1>14, <1>15, <1>16 DEF ScopesInvariant

LEMMA ScopesStep ==
    ASSUME ScopeSorts, ScopesInvariant, [Scp!Next]_(Scp!vars)
    PROVE  ScopesInvariant'
<1>1. ASSUME NEW c \in Clients, NEW u \in Accounts, Scp!Authenticate(c, u)
      PROVE  ScopesInvariant'
  BY <1>1, ScopeAuthenticate
<1>2. ASSUME NEW c \in Clients, NEW u \in Accounts, Scp!WriteUser(c, u) PROVE ScopesInvariant'
  BY <1>2, ScopeWriteUser
<1>3. ASSUME NEW c \in Clients, Scp!Resolve(c) PROVE ScopesInvariant'
  BY <1>3, ScopeResolve
<1>4. ASSUME NEW c \in Clients, Scp!Refused(c) PROVE ScopesInvariant'
  BY <1>4, ScopeRefused
<1>5. ASSUME NEW c \in Clients, Scp!DecideDelete(c) PROVE ScopesInvariant'
  BY <1>5, ScopeDecideDelete
<1>7. ASSUME NEW c \in Clients, NEW m \in Monitors, Scp!WriteMonitor(c, m) PROVE ScopesInvariant'
  BY <1>7, ScopeWriteMonitor
<1>8. ASSUME NEW c \in Clients, NEW g \in Groups, Scp!WriteGroup(c, g) PROVE ScopesInvariant'
  BY <1>8, ScopeWriteGroup
<1>9. ASSUME NEW c \in Clients, NEW g \in Groups, Scp!NameTaken(c, g) PROVE ScopesInvariant'
  BY <1>9, ScopeNameTaken
<1>10. ASSUME NEW c \in Clients, NEW g \in Groups, Scp!DeleteGroup(c, g) PROVE ScopesInvariant'
  BY <1>10, ScopeDeleteGroup
<1>11. ASSUME NEW c \in Clients, NEW up \in Groups \cup {None}, Scp!DecideMonitor(c, up)
       PROVE  ScopesInvariant'
  BY <1>11, ScopeDecideMonitor
<1>12. ASSUME NEW c \in Clients, NEW up \in Groups \cup {None}, NEW n \in Names,
              Scp!DecideGroup(c, up, n)
       PROVE  ScopesInvariant'
  BY <1>12, ScopeDecideGroup
<1>13. ASSUME NEW c \in Clients, NEW role \in Roles, NEW give \in Asked \cup {None},
              Scp!DecideUser(c, role, give)
       PROVE  ScopesInvariant'
  BY <1>13, ScopeDecideUser
<1>14. ASSUME NEW g \in Groups, NEW up \in Groups \cup {None}, Scp!MoveGroup(g, up)
       PROVE  ScopesInvariant'
  BY <1>14, ScopeMoveGroup
<1>15. ASSUME NEW m \in Monitors, NEW up \in Groups \cup {None}, Scp!MoveMonitor(m, up)
       PROVE  ScopesInvariant'
  BY <1>15, ScopeMoveMonitor
<1>16. ASSUME NEW u \in Accounts, NEW role \in Roles, NEW s \in Asked,
              Scp!Appoint(u, Scp!Given(role, s))
       PROVE  ScopesInvariant'
  BY <1>16, ScopeAppoint
<1>17. CASE UNCHANGED Scp!vars
  <2>1. UNCHANGED <<group, name, place, account, request, requests, decrees, owned, law, told>>
    BY <1>17 DEF Scp!vars
  <2>2. ScopeShapes' BY <2>1 DEF ScopesInvariant, ScopeShapes
  <2>3. (\A c \in Clients : RequestSound(request[c]))'
    BY <2>1 DEF ScopesInvariant, RequestSound, ReadSound, NamedSound, OrderSound, AsRead,
                NameFree, Below
  <2>4. /\ Scp!TwoLevels' /\ NamesApart(group, name)' /\ OwnedIsClosed' /\ GrantsAreOwned'
        /\ PlacesHere' /\ Scp!OutsideUntouched' /\ Scp!FullUntouched' /\ Scp!TellsNothing'
    BY <2>1 DEF ScopesInvariant, Scp!TwoLevels, NamesApart, OwnedIsClosed, GrantsAreOwned,
                PlacesHere, Scp!OutsideUntouched, Scp!FullUntouched, Scp!TellsNothing
  <2> QED BY <2>2, <2>3, <2>4 DEF ScopesInvariant
<1>18. CASE Scp!Next
  <2>1. CASE \E c \in Clients :
               \/ \E u \in Accounts : Scp!Authenticate(c, u) \/ Scp!WriteUser(c, u)
               \/ Scp!Resolve(c) \/ Scp!Refused(c) \/ Scp!DecideDelete(c)
    BY <2>1, <1>1, <1>2, <1>3, <1>4, <1>5
  <2>2. CASE \E c \in Clients :
               \/ \E m \in Monitors : Scp!Guard(c, "monitor", m) \/ Scp!WriteMonitor(c, m)
               \/ \E g \in Groups : \/ Scp!Guard(c, "group", g) \/ Scp!WriteGroup(c, g)
                                    \/ Scp!NameTaken(c, g) \/ Scp!DeleteGroup(c, g)
               \/ \E u \in Accounts : Scp!Guard(c, "user", u)
               \/ \E kind \in {"monitor", "group", "user"} : Scp!Guard(c, kind, None)
    <3>1. Monitors \subseteq Ids /\ Groups \subseteq Ids /\ Accounts \subseteq Ids /\ None \in Ids
      BY DEF Ids
    <3>2. PICK c \in Clients :
               \/ \E m \in Monitors : Scp!Guard(c, "monitor", m) \/ Scp!WriteMonitor(c, m)
               \/ \E g \in Groups : \/ Scp!Guard(c, "group", g) \/ Scp!WriteGroup(c, g)
                                    \/ Scp!NameTaken(c, g) \/ Scp!DeleteGroup(c, g)
               \/ \E u \in Accounts : Scp!Guard(c, "user", u)
               \/ \E kind \in {"monitor", "group", "user"} : Scp!Guard(c, kind, None)
      BY <2>2
    <3>3. ASSUME NEW m \in Monitors, Scp!Guard(c, "monitor", m) PROVE ScopesInvariant'
      <4>1. "monitor" \in ScopeKinds /\ m \in Ids BY <3>1 DEF ScopeKinds
      <4> QED BY <3>3, <4>1, ScopeGuard
    <3>4. ASSUME NEW g \in Groups, Scp!Guard(c, "group", g) PROVE ScopesInvariant'
      <4>1. "group" \in ScopeKinds /\ g \in Ids BY <3>1 DEF ScopeKinds
      <4> QED BY <3>4, <4>1, ScopeGuard
    <3>5. ASSUME NEW u \in Accounts, Scp!Guard(c, "user", u) PROVE ScopesInvariant'
      <4>1. "user" \in ScopeKinds /\ u \in Ids BY <3>1 DEF ScopeKinds
      <4> QED BY <3>5, <4>1, ScopeGuard
    <3>6. ASSUME NEW kind \in {"monitor", "group", "user"}, Scp!Guard(c, kind, None)
          PROVE  ScopesInvariant'
      <4>1. kind \in ScopeKinds /\ None \in Ids BY <3>1 DEF ScopeKinds
      <4> QED BY <3>6, <4>1, ScopeGuard
    <3> QED BY <3>2, <3>3, <3>4, <3>5, <3>6, <1>7, <1>8, <1>9, <1>10
  <2>3. CASE \E c \in Clients :
               \/ \E up \in Groups \cup {None} :
                    Scp!DecideMonitor(c, up) \/ \E n \in Names : Scp!DecideGroup(c, up, n)
               \/ \E role \in {"admin", "viewer"} :
                  \E give \in Asked \cup {None} : Scp!DecideUser(c, role, give)
    BY <2>3, <1>11, <1>12, <1>13 DEF Roles
  <2>4. CASE \E up \in Groups \cup {None} :
               \/ \E g \in Groups : Scp!MoveGroup(g, up)
               \/ \E m \in Monitors : Scp!MoveMonitor(m, up)
    BY <2>4, <1>14, <1>15
  <2>5. CASE \E u \in Accounts, role \in {"admin", "viewer"}, s \in Asked :
               Scp!Appoint(u, Scp!Given(role, s))
    BY <2>5, <1>16 DEF Roles
  <2> QED BY <1>18, <2>1, <2>2, <2>3, <2>4, <2>5 DEF Scp!Next
<1> QED BY <1>17, <1>18

\* Through any number of requests of restricted administrators, each reading
\* at one step what it writes by at a later one, and any decrees meanwhile:
\* what is under what is owned is owned, nobody restricted is granted more,
\* and a request writes only what is owned (internal/api/access.go).
THEOREM ScopesKept == ASSUME ScopeSorts PROVE Scp!Spec => []ScopesInvariant
<1>1. Scp!Init => ScopesInvariant BY ScopesStart
<1>2. ScopesInvariant /\ [Scp!Next]_(Scp!vars) => ScopesInvariant' BY ScopesStep
<1> QED BY <1>1, <1>2, PTL DEF Scp!Spec

\* Nobody comes to reach what restricted accounts were never entitled to, what
\* they were not is as it was left, no restricted hand changes an account that
\* reaches everything, a refused name tells of no group outside, and groups
\* have two levels (access.go, checkGrant, scopeGuard, guardUser and
\* checkGroupPlacement; parentIsTopLevel).
THEOREM ScopesAreSound == ASSUME ScopeSorts PROVE Scp!Spec => []Scp!ScopesSound
<1>1. ScopesInvariant => Scp!ScopesSound
  BY NobodyReaches DEF ScopesInvariant, Scp!ScopesSound
<1> QED BY <1>1, ScopesKept, PTL

-----------------------------------------------------------------------------
(***************************************************************************)
(* The stream of events.                                                   *)
(***************************************************************************)
Evt == INSTANCE Events

Streams == [step: {"closed", "subscribe", "run", "resolve"}, scope: SUBSET Groups,
            resolved: Nat, rechecked: Nat, waits: Nat, channel: Seq(Evt!Event)]

EventSorts ==
    /\ Groups # {} /\ Gone \notin Groups
    /\ EventBuffer \in Nat /\ ScopeTTL \in Nat /\ Recheck \in Nat /\ MaxDelay \in Nat

StreamShapes ==
    /\ place \in [Monitors -> Groups \cup {Gone}] /\ granted \in SUBSET Groups
    /\ lost \in [Groups -> Nat] /\ ended \in Nat
    /\ session \in {"good", "ended", "deleted"}
    /\ stream \in Streams /\ screen \in SUBSET Monitors
    /\ late \in BOOLEAN /\ blind \in BOOLEAN /\ missed \in BOOLEAN

Open == stream.step \in {"run", "resolve"}
Awaited == stream.step \in {"subscribe", "resolve"}

\* How long ago a group of the scope in use was lost: since the scope was read,
\* which is as long as the handler waits, or since the stamp and a delay before.
ScopeOfLate ==
    /\ \A g \in granted : lost[g] = 0
    /\ Awaited => stream.waits <= MaxDelay /\ \A g \in stream.scope : lost[g] <= stream.waits
    /\ stream.step = "run" => \A g \in stream.scope : lost[g] <= stream.resolved + MaxDelay

\* How long ago the session ended, with a recheck that found out.
SessionOfLate ==
    /\ session = "good" => ended = 0
    /\ stream.step # "closed" => stream.rechecked <= Recheck + MaxDelay
    /\ session # "good" /\ stream.step = "subscribe" => ended <= stream.waits
    /\ session # "good" /\ Open /\ ~blind => ended <= stream.rechecked + MaxDelay

\* One event of a monitor and a later one, and one between them.
Later(ch, i, j) == i < j /\ ch[i].monitor = ch[j].monitor
Between(ch, i, j, k) == Later(ch, i, k) /\ Later(ch, k, j)

\* The events of a monitor in a channel, in order, take it from whether it is
\* shown to where it is.
Told(ch, at, scope, shown) ==
    /\ \A m \in Monitors :
          (\A i \in DOMAIN ch : ch[i].monitor # m) => (m \in shown <=> at[m] \in scope)
    /\ \A j \in DOMAIN ch :
          /\ (\A i \in DOMAIN ch : ~Later(ch, i, j)) => (ch[j].monitor \in shown <=> ch[j].was \in scope)
          /\ (\A i \in DOMAIN ch : ~Later(ch, j, i)) => ch[j].now = at[ch[j].monitor]
          /\ \A i \in DOMAIN ch :
                Later(ch, i, j) /\ (\A k \in DOMAIN ch : ~Between(ch, i, j, k)) => ch[i].now = ch[j].was

ChannelTells ==
    /\ stream.step = "subscribe" => stream.channel = <<>>
    /\ stream.step = "resolve" => stream.channel # <<>>
    /\ Open /\ ~missed =>
          stream.scope = granted /\ Told(stream.channel, place, stream.scope, screen)

StreamInvariant ==
    /\ StreamShapes /\ ScopeOfLate /\ SessionOfLate /\ ChannelTells /\ ~late

LEMMA ToldAtFirst ==
    ASSUME NEW at, NEW scope, NEW shown, shown = {m \in Monitors : at[m] \in scope}
    PROVE  Told(<<>>, at, scope, shown)
BY DEF Told

LEMMA ToldAppended ==
    ASSUME NEW ch \in Seq(Evt!Event), NEW at \in [Monitors -> Groups \cup {Gone}], NEW scope, NEW shown,
           Told(ch, at, scope, shown), NEW m \in Monitors, NEW to \in Groups \cup {Gone}
    PROVE  Told(Append(ch, [monitor |-> m, now |-> to, was |-> at[m]]), [at EXCEPT ![m] = to], scope, shown)
<1> DEFINE e == [monitor |-> m, now |-> to, was |-> at[m]]
<1>0. e \in Evt!Event /\ e.monitor = m /\ e.now = to /\ e.was = at[m]
  BY DEF Evt!Event
<1> HIDE DEF e
<1>1. PICK n \in Nat : n = Len(ch)
  OBVIOUS
<1>2. PICK new \in Seq(Evt!Event) : new = Append(ch, e)
  <2>1. Append(ch, e) \in Seq(Evt!Event)
    BY <1>0
  <2> QED BY <2>1
<1>3. /\ DOMAIN ch = 1..n /\ DOMAIN new = 1..(n + 1) /\ new[n + 1] = e
      /\ \A i \in 1..n : new[i] = ch[i]
  BY <1>0, <1>1, <1>2
<1>4. PICK to_at \in [Monitors -> Groups \cup {Gone}] : to_at = [at EXCEPT ![m] = to]
  OBVIOUS
<1>5. \A q \in Monitors : to_at[q] = IF q = m THEN to ELSE at[q]
  BY <1>4
<1>6. \A i \in 1..n : ch[i].monitor \in Monitors
  <2>1. \A i \in 1..n : ch[i] \in Evt!Event
    BY <1>1
  <2> QED BY <2>1 DEF Evt!Event
<1>7. \A q \in Monitors : (\A i \in DOMAIN new : new[i].monitor # q) => (q \in shown <=> to_at[q] \in scope)
  <2> SUFFICES ASSUME NEW q \in Monitors, \A i \in DOMAIN new : new[i].monitor # q
               PROVE  q \in shown <=> to_at[q] \in scope
    OBVIOUS
  <2>1. n + 1 \in DOMAIN new /\ \A i \in DOMAIN ch : i \in DOMAIN new /\ ch[i].monitor # q
    BY <1>1, <1>3
  <2>2. q # m
    BY <2>1, <1>0, <1>3
  <2> QED BY <2>1, <2>2, <1>5 DEF Told
<1>8. ASSUME NEW j \in DOMAIN new, \A i \in DOMAIN new : ~Later(new, i, j)
      PROVE  new[j].monitor \in shown <=> new[j].was \in scope
  <2>1. CASE j = n + 1
    <3>1. \A i \in DOMAIN ch : ch[i].monitor # m
      BY <2>1, <1>0, <1>1, <1>3, <1>8 DEF Later
    <3> QED BY <2>1, <3>1, <1>0, <1>3 DEF Told
  <2>2. CASE j # n + 1
    <3>1. j \in DOMAIN ch /\ \A i \in DOMAIN ch : ~Later(ch, i, j)
      BY <2>2, <1>1, <1>3, <1>8 DEF Later
    <3> QED BY <3>1, <1>3 DEF Told
  <2> QED BY <2>1, <2>2
<1>9. ASSUME NEW j \in DOMAIN new, \A i \in DOMAIN new : ~Later(new, j, i)
      PROVE  new[j].now = to_at[new[j].monitor]
  <2>1. CASE j = n + 1
    BY <2>1, <1>0, <1>3, <1>5
  <2>2. CASE j # n + 1
    <3>1. j \in DOMAIN ch /\ j < n + 1 /\ n + 1 \in DOMAIN new /\ new[j] = ch[j]
      BY <2>2, <1>1, <1>3
    <3>2. ch[j].monitor # m
      BY <3>1, <1>0, <1>3, <1>9 DEF Later
    <3>3. \A i \in DOMAIN ch : ~Later(ch, j, i)
      BY <3>1, <1>3, <1>9 DEF Later
    <3> QED BY <3>1, <3>2, <3>3, <1>3, <1>5, <1>6 DEF Told
  <2> QED BY <2>1, <2>2
<1>10. ASSUME NEW j \in DOMAIN new, NEW i \in DOMAIN new, Later(new, i, j),
              \A k \in DOMAIN new : ~Between(new, i, j, k)
       PROVE  new[i].now = new[j].was
  <2>1. i < j /\ new[i].monitor = new[j].monitor /\ i \in DOMAIN ch /\ new[i] = ch[i]
    BY <1>1, <1>3, <1>10 DEF Later
  <2>2. CASE j = n + 1
    <3>1. \A k \in DOMAIN ch : ~Later(ch, i, k)
      <4> SUFFICES ASSUME NEW k \in DOMAIN ch, Later(ch, i, k) PROVE FALSE
        OBVIOUS
      <4>1. k \in DOMAIN new /\ new[k] = ch[k] /\ k < n + 1
        BY <1>1, <1>3
      <4>2. Between(new, i, j, k)
        BY <2>1, <2>2, <4>1 DEF Between, Later
      <4> QED BY <4>1, <4>2, <1>10
    <3> QED BY <2>1, <2>2, <3>1, <1>0, <1>3 DEF Told
  <2>3. CASE j # n + 1
    <3>1. j \in DOMAIN ch /\ new[j] = ch[j] /\ Later(ch, i, j)
      BY <2>1, <2>3, <1>1, <1>3 DEF Later
    <3>2. \A k \in DOMAIN ch : ~Between(ch, i, j, k)
      <4> SUFFICES ASSUME NEW k \in DOMAIN ch, Between(ch, i, j, k) PROVE FALSE
        OBVIOUS
      <4>1. k \in DOMAIN new /\ new[k] = ch[k]
        BY <1>1, <1>3
      <4>2. Between(new, i, j, k)
        BY <2>1, <3>1, <4>1 DEF Between, Later
      <4> QED BY <4>1, <4>2, <1>10
    <3> QED BY <2>1, <3>1, <3>2 DEF Told
  <2> QED BY <2>2, <2>3
<1>11. Told(new, to_at, scope, shown)
  BY <1>7, <1>8, <1>9, <1>10 DEF Told
<1> QED BY <1>2, <1>4, <1>11 DEF e

\* Whoever is told the first event shows the monitor where that left it.
LEMMA ToldNext ==
    ASSUME NEW ch \in Seq(Evt!Event), ch # <<>>, NEW at, NEW scope, NEW shown, Told(ch, at, scope, shown),
           NEW seen,
           seen = IF Head(ch).now \in scope THEN shown \cup {Head(ch).monitor}
                  ELSE IF Head(ch).was \in scope THEN shown \ {Head(ch).monitor} ELSE shown
    PROVE  Told(Tail(ch), at, scope, seen)
<1>1. PICK n \in Nat : n = Len(ch) /\ n >= 1
  OBVIOUS
<1>2. PICK t \in Seq(Evt!Event) : t = Tail(ch)
  <2>1. Tail(ch) \in Seq(Evt!Event)
    OBVIOUS
  <2> QED BY <2>1
<1>3. /\ DOMAIN ch = 1..n /\ DOMAIN t = 1..(n - 1) /\ 1 \in DOMAIN ch
      /\ \A i \in DOMAIN t : i + 1 \in DOMAIN ch /\ t[i] = ch[i + 1]
      /\ \A i \in DOMAIN ch \ {1} : i - 1 \in DOMAIN t /\ ch[i] = t[i - 1]
  BY <1>1, <1>2
<1>4. PICK h \in Evt!Event : h = Head(ch) /\ h = ch[1]
  BY <1>1
<1>5. \A i \in DOMAIN ch : ~Later(ch, i, 1)
  BY <1>1, <1>3 DEF Later
<1>6. h.monitor \in shown <=> h.was \in scope
  BY <1>3, <1>4, <1>5 DEF Told
<1>7. \A m : m \in seen <=> IF m = h.monitor THEN h.now \in scope ELSE m \in shown
  BY <1>4, <1>6
<1>8. ASSUME NEW i \in DOMAIN t, NEW j \in DOMAIN t
      PROVE  Later(t, i, j) <=> Later(ch, i + 1, j + 1)
  BY <1>1, <1>3, <1>8 DEF Later
<1>9. ASSUME NEW m \in Monitors, \A i \in DOMAIN t : t[i].monitor # m
      PROVE  m \in seen <=> at[m] \in scope
  <2>1. \A i \in DOMAIN ch \ {1} : ch[i].monitor # m
    BY <1>3, <1>9
  <2>2. CASE h.monitor # m
    BY <2>1, <2>2, <1>4, <1>7 DEF Told
  <2>3. CASE h.monitor = m
    <3>1. \A i \in DOMAIN ch : ~Later(ch, 1, i)
      BY <2>1, <2>3, <1>1, <1>3, <1>4 DEF Later
    <3>2. h.now = at[m]
      BY <2>3, <3>1, <1>3, <1>4 DEF Told
    <3> QED BY <2>3, <3>2, <1>7
  <2> QED BY <2>2, <2>3
<1>10. ASSUME NEW j \in DOMAIN t, \A i \in DOMAIN t : ~Later(t, i, j)
       PROVE  t[j].monitor \in seen <=> t[j].was \in scope
  <2>1. j + 1 \in DOMAIN ch /\ t[j] = ch[j + 1] /\ j >= 1 /\ j \in Nat
    BY <1>1, <1>3
  <2>2. \A i \in DOMAIN ch \ {1} : ~Later(ch, i, j + 1)
    <3> SUFFICES ASSUME NEW i \in DOMAIN ch \ {1}, Later(ch, i, j + 1) PROVE FALSE
      OBVIOUS
    <3>1. i - 1 \in DOMAIN t /\ ch[i] = t[i - 1] /\ i \in Nat
      BY <1>1, <1>3
    <3>2. Later(t, i - 1, j)
      BY <2>1, <3>1 DEF Later
    <3> QED BY <3>1, <3>2, <1>10
  <2>3. CASE h.monitor # t[j].monitor
    <3>1. \A i \in DOMAIN ch : ~Later(ch, i, j + 1)
      BY <2>1, <2>2, <2>3, <1>4 DEF Later
    <3>2. ch[j + 1].monitor \in shown <=> ch[j + 1].was \in scope
      BY <2>1, <3>1 DEF Told
    <3> QED BY <2>1, <2>3, <3>2, <1>7
  <2>4. CASE h.monitor = t[j].monitor
    <3>1. Later(ch, 1, j + 1)
      BY <2>1, <2>4, <1>4 DEF Later
    <3>2. \A k \in DOMAIN ch : ~Between(ch, 1, j + 1, k)
      BY <2>2, <1>5 DEF Between
    <3>3. ch[1].now = ch[j + 1].was
      BY <2>1, <3>1, <3>2, <1>3 DEF Told
    <3> QED BY <2>1, <2>4, <3>3, <1>4, <1>7
  <2> QED BY <2>3, <2>4
<1>11. ASSUME NEW j \in DOMAIN t, \A i \in DOMAIN t : ~Later(t, j, i)
       PROVE  t[j].now = at[t[j].monitor]
  <2>1. j + 1 \in DOMAIN ch /\ t[j] = ch[j + 1] /\ j >= 1 /\ j \in Nat
    BY <1>1, <1>3
  <2>2. \A i \in DOMAIN ch : ~Later(ch, j + 1, i)
    <3> SUFFICES ASSUME NEW i \in DOMAIN ch, Later(ch, j + 1, i) PROVE FALSE
      OBVIOUS
    <3>1. i # 1 /\ i \in Nat
      BY <2>1, <1>1, <1>3 DEF Later
    <3>2. i - 1 \in DOMAIN t /\ ch[i] = t[i - 1]
      BY <3>1, <1>3
    <3>3. Later(t, j, i - 1)
      BY <2>1, <3>1, <3>2 DEF Later
    <3> QED BY <3>2, <3>3, <1>11
  <2> QED BY <2>1, <2>2 DEF Told
<1>12. ASSUME NEW j \in DOMAIN t, NEW i \in DOMAIN t, Later(t, i, j),
              \A k \in DOMAIN t : ~Between(t, i, j, k)
       PROVE  t[i].now = t[j].was
  <2>1. /\ i + 1 \in DOMAIN ch /\ j + 1 \in DOMAIN ch /\ t[i] = ch[i + 1] /\ t[j] = ch[j + 1]
        /\ Later(ch, i + 1, j + 1) /\ i \in Nat /\ i >= 1
    BY <1>1, <1>3, <1>8, <1>12
  <2>2. \A k \in DOMAIN ch : ~Between(ch, i + 1, j + 1, k)
    <3> SUFFICES ASSUME NEW k \in DOMAIN ch, Between(ch, i + 1, j + 1, k) PROVE FALSE
      OBVIOUS
    <3>1. k # 1 /\ k \in Nat
      BY <2>1, <1>1, <1>3 DEF Between, Later
    <3>2. k - 1 \in DOMAIN t /\ (k - 1) + 1 = k
      BY <3>1, <1>3
    <3>3. Between(t, i, j, k - 1)
      BY <3>2, <1>8 DEF Between
    <3> QED BY <3>2, <3>3, <1>12
  <2> QED BY <2>1, <2>2 DEF Told
<1>13. Told(t, at, scope, seen)
  BY <1>9, <1>10, <1>11, <1>12 DEF Told
<1> QED BY <1>2, <1>13

LEMMA EventsStart ==
    ASSUME EventSorts, Evt!Init
    PROVE  StreamInvariant
<1>1. Evt!Horizon \in Nat
  BY DEF EventSorts, Evt!Horizon
<1>2. Evt!Closed \in Streams /\ Evt!Closed.step = "closed"
  BY DEF Evt!Closed, Streams, Evt!Event
<1>3. StreamShapes
  BY <1>1, <1>2 DEF Evt!Init, EventSorts, StreamShapes
<1>4. \A g \in granted : lost[g] = 0
  BY <1>3 DEF StreamShapes, Evt!Init
<1>5. ScopeOfLate /\ SessionOfLate /\ ChannelTells
  BY <1>2, <1>4 DEF Evt!Init, ScopeOfLate, SessionOfLate, ChannelTells, Open, Awaited
<1> QED BY <1>3, <1>5 DEF StreamInvariant, Evt!Init

LEMMA OlderIsOlder ==
    ASSUME EventSorts, NEW a \in Nat
    PROVE  /\ Evt!Older(a) \in Nat /\ Evt!Older(a) <= a + 1
           /\ \A b \in Nat : \A d \in Nat : b <= a + d => Evt!Older(b) <= Evt!Older(a) + d
BY DEF Evt!Older, EventSorts, Evt!Horizon

LEMMA EventsTick ==
    ASSUME EventSorts, StreamInvariant, Evt!Tick
    PROVE  StreamInvariant'
<1>0. /\ MaxDelay \in Nat /\ Recheck \in Nat /\ stream \in Streams /\ lost \in [Groups -> Nat]
      /\ ended \in Nat /\ granted \in SUBSET Groups /\ stream.scope \in SUBSET Groups
      /\ stream.step \in {"closed", "subscribe", "run", "resolve"} /\ stream.channel \in Seq(Evt!Event)
      /\ stream.resolved \in Nat /\ stream.rechecked \in Nat /\ stream.waits \in Nat
  BY DEF EventSorts, StreamInvariant, StreamShapes, Streams
<1>1. /\ lost' = [g \in Groups |-> IF g \in granted THEN 0 ELSE Evt!Older(lost[g])]
      /\ ended' = IF session = "good" THEN 0 ELSE Evt!Older(ended)
      /\ UNCHANGED <<place, granted, session, screen, missed, late, blind>>
      /\ stream.step \in {"subscribe", "resolve"} => stream.waits < MaxDelay
      /\ stream.step # "closed" => stream.rechecked < Recheck + MaxDelay
  BY DEF Evt!Tick
<1> DEFINE w == IF stream.step = "run" THEN 0 ELSE Evt!Older(stream.waits)
           s == [stream EXCEPT !.resolved = Evt!Older(@), !.rechecked = Evt!Older(@), !.waits = w]
<1>2. stream' = IF stream.step = "closed" THEN stream ELSE s
  BY DEF Evt!Tick
<1>3. Evt!Older(stream.resolved) \in Nat /\ Evt!Older(stream.rechecked) \in Nat /\ w \in Nat
  BY <1>0, OlderIsOlder
<1>4. s \in Streams
  BY <1>0, <1>3 DEF Streams
<1>5. /\ stream' \in Streams /\ stream'.step = stream.step /\ stream'.scope = stream.scope
      /\ stream'.channel = stream.channel
      /\ stream.step # "closed" => /\ stream'.resolved = Evt!Older(stream.resolved)
                                   /\ stream'.rechecked = Evt!Older(stream.rechecked)
                                   /\ stream'.waits = w
  BY <1>0, <1>2, <1>4 DEF Streams
<1>6. \A g \in Groups : lost'[g] \in Nat /\ lost'[g] <= Evt!Older(lost[g])
                        /\ (g \in granted => lost'[g] = 0)
  BY <1>0, <1>1, OlderIsOlder
<1>7. StreamShapes'
  <2>1. lost' \in [Groups -> Nat] /\ ended' \in Nat
    BY <1>0, <1>1, <1>6, OlderIsOlder
  <2> QED BY <2>1, <1>1, <1>5 DEF StreamInvariant, StreamShapes
<1>8. ScopeOfLate'
  <2>1. \A g \in granted' : lost'[g] = 0
    BY <1>0, <1>1, <1>6
  <2>2. ASSUME Awaited PROVE stream'.waits <= MaxDelay /\ \A g \in stream'.scope : lost'[g] <= stream'.waits
    <3>1. stream.step \in {"subscribe", "resolve"} /\ stream'.waits = Evt!Older(stream.waits)
      BY <2>2, <1>5 DEF Awaited
    <3>2. stream'.waits <= MaxDelay /\ stream'.waits \in Nat
      <4>1. Evt!Older(stream.waits) \in Nat /\ Evt!Older(stream.waits) <= stream.waits + 1
        BY <1>0, OlderIsOlder
      <4>2. stream.waits < MaxDelay
        BY <3>1, <1>1
      <4> QED BY <4>1, <4>2, <3>1, <1>0
    <3>3. ASSUME NEW g \in stream'.scope PROVE lost'[g] <= stream'.waits
      <4>1. g \in stream.scope /\ g \in Groups /\ lost[g] \in Nat /\ lost'[g] \in Nat
        BY <1>0, <1>5, <1>6
      <4>2. lost[g] <= stream.waits + 0
        BY <2>2, <4>1, <1>0 DEF StreamInvariant, ScopeOfLate
      <4>3. Evt!Older(lost[g]) <= Evt!Older(stream.waits) + 0
        BY <4>1, <4>2, <1>0, OlderIsOlder
      <4>4. Evt!Older(lost[g]) \in Nat
        BY <4>1, OlderIsOlder
      <4> QED BY <3>1, <3>2, <4>1, <4>3, <4>4, <1>6
    <3> QED BY <3>2, <3>3
  <2>3. ASSUME stream.step = "run", NEW g \in stream'.scope PROVE lost'[g] <= stream'.resolved + MaxDelay
    <3>1. g \in stream.scope /\ g \in Groups /\ lost[g] \in Nat /\ lost'[g] \in Nat
      BY <1>0, <1>5, <1>6
    <3>2. lost[g] <= stream.resolved + MaxDelay
      BY <2>3, <3>1 DEF StreamInvariant, ScopeOfLate
    <3>3. Evt!Older(lost[g]) <= Evt!Older(stream.resolved) + MaxDelay /\ Evt!Older(lost[g]) \in Nat
          /\ Evt!Older(stream.resolved) \in Nat
      BY <3>1, <3>2, <1>0, OlderIsOlder
    <3>4. stream'.resolved = Evt!Older(stream.resolved)
      BY <2>3, <1>5
    <3> QED BY <3>1, <3>3, <3>4, <1>0, <1>6
  <2>4. Awaited' <=> Awaited
    BY <1>5 DEF Awaited
  <2> QED BY <2>1, <2>2, <2>3, <2>4, <1>5 DEF ScopeOfLate
<1>9. SessionOfLate'
  <2>1. session' = "good" => ended' = 0
    BY <1>1
  <2>2. stream'.step # "closed" => stream'.rechecked <= Recheck + MaxDelay
    <3> SUFFICES ASSUME stream.step # "closed" PROVE stream'.rechecked <= Recheck + MaxDelay
      BY <1>5
    <3>1. stream'.rechecked = Evt!Older(stream.rechecked) /\ stream.rechecked < Recheck + MaxDelay
      BY <1>1, <1>5
    <3>2. Evt!Older(stream.rechecked) <= stream.rechecked + 1 /\ Evt!Older(stream.rechecked) \in Nat
      BY <1>0, OlderIsOlder
    <3> QED BY <3>1, <3>2, <1>0
  <2>3. ASSUME session' # "good", stream'.step = "subscribe" PROVE ended' <= stream'.waits
    <3>1. ended' = Evt!Older(ended) /\ stream'.waits = Evt!Older(stream.waits) /\ ended <= stream.waits + 0
      BY <2>3, <1>0, <1>1, <1>5 DEF StreamInvariant, SessionOfLate
    <3>2. Evt!Older(ended) <= Evt!Older(stream.waits) + 0 /\ Evt!Older(stream.waits) \in Nat
      BY <3>1, <1>0, OlderIsOlder
    <3> QED BY <3>1, <3>2
  <2>4. ASSUME session' # "good", Open', ~blind' PROVE ended' <= stream'.rechecked + MaxDelay
    <3>1. /\ ended' = Evt!Older(ended) /\ stream'.rechecked = Evt!Older(stream.rechecked)
          /\ ended <= stream.rechecked + MaxDelay
      BY <2>4, <1>1, <1>5 DEF StreamInvariant, SessionOfLate, Open
    <3> QED BY <3>1, <1>0, OlderIsOlder
  <2> QED BY <2>1, <2>2, <2>3, <2>4 DEF SessionOfLate
<1>10. ChannelTells'
  BY <1>1, <1>5 DEF StreamInvariant, ChannelTells, Open
<1> QED BY <1>1, <1>7, <1>8, <1>9, <1>10 DEF StreamInvariant

LEMMA EventsGrant ==
    ASSUME EventSorts, StreamInvariant, NEW theirs \in SUBSET Groups, Evt!Grant(theirs)
    PROVE  StreamInvariant'
<1>0. /\ stream \in Streams /\ lost \in [Groups -> Nat] /\ granted \in SUBSET Groups
      /\ stream.scope \in SUBSET Groups /\ stream.waits \in Nat /\ stream.resolved \in Nat
      /\ MaxDelay \in Nat
  BY DEF EventSorts, StreamInvariant, StreamShapes, Streams
<1>1. /\ lost' = [g \in Groups |-> IF g \in theirs \/ g \in granted THEN 0 ELSE lost[g]]
      /\ granted' = theirs /\ missed' = TRUE
      /\ UNCHANGED <<place, session, ended, stream, screen, late, blind>>
  BY DEF Evt!Grant
<1>2. \A g \in Groups : lost'[g] \in {0, lost[g]} /\ (g \in theirs => lost'[g] = 0)
  BY <1>1
<1>3. StreamShapes'
  <2>1. lost' \in [Groups -> Nat]
    BY <1>0, <1>1
  <2> QED BY <2>1, <1>1 DEF StreamInvariant, StreamShapes
<1>4. ScopeOfLate'
  <2>1. \A g \in stream.scope : g \in Groups /\ lost[g] \in Nat /\ lost'[g] <= lost[g] /\ lost'[g] \in Nat
    BY <1>0, <1>2
  <2>2. \A g \in granted' : lost'[g] = 0
    BY <1>1, <1>2
  <2>3. Awaited => \A g \in stream.scope : lost'[g] <= stream.waits
    BY <2>1, <1>0 DEF StreamInvariant, ScopeOfLate
  <2>4. stream.step = "run" => \A g \in stream.scope : lost'[g] <= stream.resolved + MaxDelay
    BY <2>1, <1>0 DEF StreamInvariant, ScopeOfLate
  <2> QED BY <2>2, <2>3, <2>4, <1>1 DEF StreamInvariant, ScopeOfLate, Awaited
<1>5. SessionOfLate'
  BY <1>1 DEF StreamInvariant, SessionOfLate, Open
<1>6. ChannelTells'
  BY <1>1 DEF StreamInvariant, ChannelTells
<1> QED BY <1>1, <1>3, <1>4, <1>5, <1>6 DEF StreamInvariant

LEMMA EventsEndSession ==
    ASSUME EventSorts, StreamInvariant, NEW how \in {"ended", "deleted"}, Evt!EndSession(how)
    PROVE  StreamInvariant'
<1>1. session = "good" /\ session' = how
      /\ UNCHANGED <<place, granted, lost, ended, stream, screen, missed, late, blind>>
  BY DEF Evt!EndSession
<1>2. StreamShapes'
  BY <1>1 DEF StreamInvariant, StreamShapes
<1>3. ScopeOfLate' /\ ChannelTells'
  BY <1>1 DEF StreamInvariant, ScopeOfLate, ChannelTells, Open, Awaited
<1>4. SessionOfLate'
  <2>1. /\ stream.waits \in Nat /\ stream.rechecked \in Nat /\ MaxDelay \in Nat /\ ended = 0
        /\ how # "good"
    BY <1>1 DEF EventSorts, StreamInvariant, StreamShapes, Streams, SessionOfLate
  <2> QED BY <2>1, <1>1 DEF StreamInvariant, SessionOfLate, Open
<1> QED BY <1>1, <1>2, <1>3, <1>4 DEF StreamInvariant

LEMMA EventsPublish ==
    ASSUME EventSorts, StreamInvariant, NEW m \in Monitors, NEW to \in Groups \cup {Gone},
           Evt!Publish(m, to)
    PROVE  StreamInvariant'
<1> DEFINE e == [monitor |-> m, now |-> to, was |-> place[m]]
<1>0. /\ stream \in Streams /\ place \in [Monitors -> Groups \cup {Gone}]
      /\ stream.channel \in Seq(Evt!Event) /\ e \in Evt!Event
  BY DEF StreamInvariant, StreamShapes, Streams, Evt!Event
<1>1. /\ place' = [place EXCEPT ![m] = to] /\ UNCHANGED <<granted, lost, session, ended, screen, late, blind>>
  BY DEF Evt!Publish
<1>2. place' \in [Monitors -> Groups \cup {Gone}]
  BY <1>0, <1>1
<1>3. CASE missed' = TRUE /\ UNCHANGED stream
  <2>1. StreamShapes'
    BY <1>1, <1>2, <1>3 DEF StreamInvariant, StreamShapes
  <2>2. ScopeOfLate' /\ SessionOfLate' /\ ChannelTells'
    BY <1>1, <1>3 DEF StreamInvariant, ScopeOfLate, SessionOfLate, ChannelTells, Open, Awaited
  <2> QED BY <2>1, <2>2, <1>1 DEF StreamInvariant
<1>4. CASE /\ stream.step \in {"run", "resolve"} /\ UNCHANGED missed
           /\ stream' = [stream EXCEPT !.channel = Append(@, e)]
  <2>1. PICK ch \in Seq(Evt!Event) : ch = Append(stream.channel, e)
    <3>1. Append(stream.channel, e) \in Seq(Evt!Event)
      BY <1>0
    <3> QED BY <3>1
  <2>2. stream' = [stream EXCEPT !.channel = ch]
    BY <1>4, <2>1
  <2>3. /\ stream' \in Streams /\ stream'.step = stream.step /\ stream'.scope = stream.scope
        /\ stream'.resolved = stream.resolved /\ stream'.rechecked = stream.rechecked
        /\ stream'.waits = stream.waits /\ stream'.channel = ch
    BY <1>0, <2>2 DEF Streams
  <2>4. StreamShapes'
    BY <1>1, <1>2, <1>4, <2>3 DEF StreamInvariant, StreamShapes
  <2>5. ScopeOfLate' /\ SessionOfLate'
    BY <1>1, <2>3 DEF StreamInvariant, ScopeOfLate, SessionOfLate, Open, Awaited
  <2>6. ChannelTells'
    <3> SUFFICES ASSUME ~missed
                 PROVE  stream'.scope = granted' /\ Told(stream'.channel, place', stream'.scope, screen')
      BY <1>0, <1>4, <2>1, <2>3 DEF ChannelTells
    <3>1. stream.scope = granted /\ Told(stream.channel, place, stream.scope, screen)
      BY <1>4 DEF StreamInvariant, ChannelTells, Open
    <3>2. Told(ch, place', stream.scope, screen)
      BY <3>1, <2>1, <1>0, <1>1, ToldAppended
    <3> QED BY <3>1, <3>2, <2>3, <1>1
  <2> QED BY <2>4, <2>5, <2>6, <1>1 DEF StreamInvariant
<1> QED BY <1>3, <1>4 DEF Evt!Publish

\* A stream that is closed asks for nothing.
LEMMA ClosedStream ==
    /\ Evt!Closed \in Streams /\ Evt!Closed.step = "closed"
    /\ Evt!Closed.waits = 0 /\ Evt!Closed.resolved = 0 /\ Evt!Closed.rechecked = 0
    /\ Evt!Closed.channel = <<>> /\ Evt!Closed.scope = {}
BY DEF Evt!Closed, Streams

LEMMA EventsClose ==
    ASSUME EventSorts, StreamInvariant, stream' = Evt!Closed, screen' \in SUBSET Monitors,
           UNCHANGED <<place, granted, lost, session, ended, missed, late>>, blind' \in BOOLEAN
    PROVE  StreamInvariant'
<1>1. StreamShapes'
  BY ClosedStream DEF StreamInvariant, StreamShapes
<1>2. ScopeOfLate' /\ SessionOfLate' /\ ChannelTells'
  BY ClosedStream DEF StreamInvariant, ScopeOfLate, SessionOfLate, ChannelTells, Open, Awaited
<1> QED BY <1>1, <1>2 DEF StreamInvariant

LEMMA EventsConnect ==
    ASSUME EventSorts, StreamInvariant, Evt!Connect
    PROVE  StreamInvariant'
<1>1. /\ session = "good" /\ screen' = {m \in Monitors : place[m] \in granted} /\ missed' = FALSE
      /\ UNCHANGED <<place, granted, lost, session, ended, late, blind>>
  BY DEF Evt!Connect, Evt!world
<1>2. granted \in SUBSET Groups /\ Recheck + MaxDelay >= 0 /\ MaxDelay \in Nat /\ Recheck \in Nat
  BY DEF StreamInvariant, StreamShapes, EventSorts
<1>3. stream' = [Evt!Closed EXCEPT !.step = "subscribe", !.scope = granted]
  BY DEF Evt!Connect
<1>4. stream' \in Streams /\ stream'.step = "subscribe" /\ stream'.scope = granted /\ stream'.waits = 0
      /\ stream'.rechecked = 0 /\ stream'.channel = <<>>
  BY <1>2, <1>3, ClosedStream DEF Streams
<1>5. StreamShapes'
  BY <1>1, <1>4 DEF StreamInvariant, StreamShapes
<1>6. ScopeOfLate'
  <2>1. \A g \in granted : lost[g] = 0
    BY DEF StreamInvariant, ScopeOfLate
  <2> QED BY <2>1, <1>1, <1>2, <1>4 DEF ScopeOfLate, Awaited
<1>7. SessionOfLate' /\ ChannelTells'
  BY <1>1, <1>2, <1>4 DEF StreamInvariant, SessionOfLate, ChannelTells, Open
<1> QED BY <1>1, <1>5, <1>6, <1>7 DEF StreamInvariant

LEMMA EventsSubscribe ==
    ASSUME EventSorts, StreamInvariant, Evt!Subscribe
    PROVE  StreamInvariant'
<1>1. /\ stream.step = "subscribe" /\ screen' = {m \in Monitors : place[m] \in granted}
      /\ missed' = (granted # stream.scope)
      /\ UNCHANGED <<place, granted, lost, session, ended, late, blind>>
      /\ stream' = [stream EXCEPT !.step = "run", !.resolved = 0, !.rechecked = 0, !.waits = 0]
  BY DEF Evt!Subscribe, Evt!world
<1>2. /\ stream \in Streams /\ stream.scope \in SUBSET Groups /\ stream.waits \in Nat /\ ended \in Nat
      /\ MaxDelay \in Nat /\ Recheck \in Nat /\ lost \in [Groups -> Nat]
  BY DEF StreamInvariant, StreamShapes, EventSorts, Streams
<1>3. /\ stream' \in Streams /\ stream'.step = "run" /\ stream'.scope = stream.scope
      /\ stream'.resolved = 0 /\ stream'.rechecked = 0 /\ stream'.channel = stream.channel
  BY <1>1, <1>2 DEF Streams
<1>4. StreamShapes'
  BY <1>1, <1>3 DEF StreamInvariant, StreamShapes
<1>5. ScopeOfLate'
  <2>1. \A g \in stream.scope : lost[g] <= 0 + MaxDelay
    BY <1>1, <1>2 DEF StreamInvariant, ScopeOfLate, Awaited
  <2> QED BY <2>1, <1>1, <1>3 DEF StreamInvariant, ScopeOfLate, Awaited
<1>6. SessionOfLate'
  <2>1. session # "good" => ended <= 0 + MaxDelay
    BY <1>1, <1>2 DEF StreamInvariant, SessionOfLate, ScopeOfLate, Awaited
  <2> QED BY <2>1, <1>1, <1>2, <1>3 DEF StreamInvariant, SessionOfLate, Open
<1>7. ChannelTells'
  <2>1. stream.channel = <<>>
    BY <1>1 DEF StreamInvariant, ChannelTells
  <2> QED BY <2>1, <1>1, <1>3, ToldAtFirst DEF ChannelTells
<1> QED BY <1>1, <1>4, <1>5, <1>6, <1>7 DEF StreamInvariant

LEMMA EventsRecheck ==
    ASSUME EventSorts, StreamInvariant, NEW fails \in BOOLEAN, Evt!RecheckDue(fails)
    PROVE  StreamInvariant'
<1>1. /\ stream.step = "run" /\ blind' = (blind \/ (fails /\ session # "good"))
      /\ UNCHANGED <<place, granted, lost, session, ended, screen, missed, late>>
  BY DEF Evt!RecheckDue, Evt!world
<1>2. /\ stream \in Streams /\ MaxDelay \in Nat /\ Recheck \in Nat /\ blind' \in BOOLEAN
      /\ granted \in SUBSET Groups /\ screen \in SUBSET Monitors /\ blind \in BOOLEAN
  BY <1>1 DEF StreamInvariant, StreamShapes, EventSorts
<1>3. CASE fails
  <2>1. stream' = [stream EXCEPT !.rechecked = 0]
    BY <1>3 DEF Evt!RecheckDue
  <2>2. /\ stream' \in Streams /\ stream'.step = "run" /\ stream'.scope = stream.scope
        /\ stream'.resolved = stream.resolved /\ stream'.rechecked = 0 /\ stream'.channel = stream.channel
    BY <2>1, <1>1, <1>2 DEF Streams
  <2>3. StreamShapes'
    BY <1>1, <1>2, <2>2 DEF StreamInvariant, StreamShapes
  <2>4. ScopeOfLate' /\ ChannelTells'
    BY <1>1, <2>2 DEF StreamInvariant, ScopeOfLate, ChannelTells, Open, Awaited
  <2>5. SessionOfLate'
    <3>1. session # "good" => blind'
      BY <1>1, <1>3
    <3> QED BY <3>1, <1>1, <1>2, <2>2 DEF StreamInvariant, SessionOfLate
  <2> QED BY <2>3, <2>4, <2>5, <1>1 DEF StreamInvariant
<1>4. CASE ~fails /\ session # "good"
  <2>1. stream' = Evt!Closed
    BY <1>4 DEF Evt!RecheckDue
  <2> QED BY <2>1, <1>1, <1>2, EventsClose
<1>5. CASE ~fails /\ session = "good"
  <2>1. stream' = [stream EXCEPT !.rechecked = 0, !.resolved = 0, !.scope = granted]
    BY <1>5 DEF Evt!RecheckDue
  <2>2. /\ stream' \in Streams /\ stream'.step = "run" /\ stream'.scope = granted
        /\ stream'.resolved = 0 /\ stream'.rechecked = 0 /\ stream'.channel = stream.channel
    BY <2>1, <1>1, <1>2 DEF Streams
  <2>3. StreamShapes'
    BY <1>1, <1>2, <2>2 DEF StreamInvariant, StreamShapes
  <2>4. ScopeOfLate'
    <3>1. \A g \in granted : lost[g] = 0
      BY DEF StreamInvariant, ScopeOfLate
    <3> QED BY <3>1, <1>1, <1>2, <2>2 DEF ScopeOfLate, Awaited
  <2>5. SessionOfLate'
    BY <1>1, <1>2, <1>5, <2>2 DEF StreamInvariant, SessionOfLate
  <2>6. ChannelTells'
    BY <1>1, <2>2 DEF StreamInvariant, ChannelTells, Open
  <2> QED BY <2>3, <2>4, <2>5, <2>6, <1>1 DEF StreamInvariant
<1> QED BY <1>3, <1>4, <1>5

LEMMA EventsResolve ==
    ASSUME EventSorts, StreamInvariant, Evt!Resolve
    PROVE  StreamInvariant'
<1>1. /\ stream.step = "run" /\ stream.channel # <<>>
      /\ UNCHANGED <<place, granted, lost, session, ended, screen, missed, late, blind>>
  BY DEF Evt!Resolve, Evt!world
<1>2. /\ stream \in Streams /\ MaxDelay \in Nat /\ blind \in BOOLEAN
      /\ granted \in SUBSET Groups /\ screen \in SUBSET Monitors
  BY <1>1 DEF StreamInvariant, StreamShapes, EventSorts
<1>3. CASE stream' = Evt!Closed
  BY <1>1, <1>2, <1>3, EventsClose
<1>4. CASE stream' = [stream EXCEPT !.step = "resolve", !.scope = granted, !.waits = 0]
  <2>1. /\ stream' \in Streams /\ stream'.step = "resolve" /\ stream'.scope = granted
        /\ stream'.waits = 0 /\ stream'.rechecked = stream.rechecked /\ stream'.channel = stream.channel
    BY <1>1, <1>2, <1>4 DEF Streams
  <2>2. StreamShapes'
    BY <1>1, <2>1 DEF StreamInvariant, StreamShapes
  <2>3. ScopeOfLate'
    <3>1. \A g \in granted : lost[g] = 0
      BY DEF StreamInvariant, ScopeOfLate
    <3> QED BY <3>1, <1>1, <1>2, <2>1 DEF ScopeOfLate, Awaited
  <2>4. SessionOfLate' /\ ChannelTells'
    BY <1>1, <2>1 DEF StreamInvariant, SessionOfLate, ChannelTells, Open
  <2> QED BY <2>2, <2>3, <2>4, <1>1 DEF StreamInvariant
<1> QED BY <1>3, <1>4 DEF Evt!Resolve

\* An event that goes out leaves the client as told, whatever the handler stamps.
LEMMA EventsDelivered ==
    ASSUME EventSorts, StreamInvariant, Open, stream.channel # <<>>,
           Evt!Deliver(Head(stream.channel), stream.scope),
           UNCHANGED <<place, granted, lost, session, ended, missed, blind>>,
           stream' \in Streams, stream'.step = "run", stream'.scope = stream.scope,
           stream'.rechecked = stream.rechecked, stream'.channel = Tail(stream.channel),
           \A g \in stream.scope : lost[g] <= stream'.resolved + MaxDelay,
           late' \in BOOLEAN
    PROVE  /\ StreamShapes' /\ ScopeOfLate' /\ SessionOfLate' /\ ChannelTells'
<1>1. PICK e \in Evt!Event : e = Head(stream.channel)
  <2>1. stream.channel \in Seq(Evt!Event)
    BY DEF StreamInvariant, StreamShapes, Streams
  <2>2. Head(stream.channel) \in Evt!Event
    BY <2>1
  <2> QED BY <2>2
<1>2. screen' = IF e.now \in stream.scope THEN screen \cup {e.monitor}
                ELSE IF e.was \in stream.scope THEN screen \ {e.monitor} ELSE screen
  BY <1>1 DEF Evt!Deliver, Evt!VisibleTo
<1>3. e.monitor \in Monitors
  BY DEF Evt!Event
<1>4. StreamShapes'
  BY <1>2, <1>3 DEF StreamInvariant, StreamShapes
<1>5. ScopeOfLate' /\ SessionOfLate'
  BY DEF StreamInvariant, ScopeOfLate, SessionOfLate, Open, Awaited
<1>6. ChannelTells'
  <2> SUFFICES ASSUME ~missed
               PROVE  stream.scope = granted /\ Told(Tail(stream.channel), place, stream.scope, screen')
    BY DEF ChannelTells
  <2>1. stream.scope = granted /\ Told(stream.channel, place, stream.scope, screen)
    BY DEF StreamInvariant, ChannelTells
  <2>2. stream.channel \in Seq(Evt!Event)
    BY DEF StreamInvariant, StreamShapes, Streams
  <2> QED BY <2>1, <2>2, <1>1, <1>2, ToldNext
<1> QED BY <1>4, <1>5, <1>6

\* A group long lost is not shown with a scope that is recent.
LEMMA NotLate ==
    ASSUME StreamInvariant, NEW e, Evt!Deliver(e, stream.scope),
           \A g \in stream.scope : ~(lost[g] > ScopeTTL + MaxDelay)
    PROVE  ~late' /\ late' \in BOOLEAN
<1>1. Evt!VisibleTo(e, stream.scope) = "shown" => e.now \in stream.scope
  BY DEF Evt!VisibleTo
<1> QED BY <1>1 DEF StreamInvariant, StreamShapes, Evt!Deliver

LEMMA EventsDeliver ==
    ASSUME EventSorts, StreamInvariant, Evt!DeliverResolved \/ Evt!DeliverNow \/ Evt!DeliverBlind
    PROVE  StreamInvariant'
<1>0. /\ stream \in Streams /\ stream.scope \in SUBSET Groups /\ stream.waits \in Nat
      /\ stream.resolved \in Nat /\ MaxDelay \in Nat /\ ScopeTTL \in Nat /\ lost \in [Groups -> Nat]
      /\ stream.channel \in Seq(Evt!Event)
  BY DEF StreamInvariant, StreamShapes, EventSorts, Streams
<1>1. CASE Evt!DeliverResolved
  <2>1. /\ stream.step = "resolve" /\ Evt!Deliver(Head(stream.channel), stream.scope)
        /\ stream' = [stream EXCEPT !.step = "run", !.resolved = 0, !.waits = 0, !.channel = Tail(@)]
        /\ UNCHANGED <<place, granted, lost, session, ended, missed, blind>>
    BY <1>1 DEF Evt!DeliverResolved, Evt!world
  <2>2. stream.channel # <<>>
    BY <2>1 DEF StreamInvariant, ChannelTells
  <2>3. Tail(stream.channel) \in Seq(Evt!Event)
    BY <1>0, <2>2
  <2>4. /\ stream' \in Streams /\ stream'.step = "run" /\ stream'.scope = stream.scope
        /\ stream'.rechecked = stream.rechecked /\ stream'.channel = Tail(stream.channel)
        /\ stream'.resolved = 0
    BY <1>0, <2>1, <2>3 DEF Streams
  <2>5. \A g \in stream.scope : lost[g] \in Nat /\ lost[g] <= 0 + MaxDelay
    BY <1>0, <2>1 DEF StreamInvariant, ScopeOfLate, Awaited
  <2>6. ~late' /\ late' \in BOOLEAN
    BY <1>0, <2>1, <2>5, NotLate
  <2> QED BY <2>1, <2>2, <2>4, <2>5, <2>6, EventsDelivered DEF StreamInvariant, Open
<1>2. CASE Evt!DeliverNow \/ Evt!DeliverBlind
  <2>1. /\ stream.step = "run" /\ stream.channel # <<>>
        /\ Evt!Deliver(Head(stream.channel), stream.scope)
        /\ stream' = [stream EXCEPT !.channel = Tail(@)]
        /\ UNCHANGED <<place, granted, lost, session, ended, missed, blind>>
        /\ late' = late \/ ~Evt!Stale
    BY <1>2 DEF Evt!DeliverNow, Evt!DeliverBlind, Evt!world
  <2>2. Tail(stream.channel) \in Seq(Evt!Event)
    BY <1>0, <2>1
  <2>3. /\ stream' \in Streams /\ stream'.step = "run" /\ stream'.scope = stream.scope
        /\ stream'.rechecked = stream.rechecked /\ stream'.channel = Tail(stream.channel)
        /\ stream'.resolved = stream.resolved
    BY <1>0, <2>1, <2>2 DEF Streams
  <2>4. \A g \in stream.scope : lost[g] \in Nat /\ lost[g] <= stream.resolved + MaxDelay
    BY <1>0, <2>1 DEF StreamInvariant, ScopeOfLate
  <2>5. ~late' /\ late' \in BOOLEAN
    <3>1. CASE late' = late
      BY <3>1 DEF StreamInvariant, StreamShapes
    <3>2. CASE ~Evt!Stale
      <4>1. \A g \in stream.scope : ~(lost[g] > ScopeTTL + MaxDelay)
        BY <3>2, <2>4, <1>0 DEF Evt!Stale
      <4> QED BY <4>1, <2>1, NotLate
    <3> QED BY <3>1, <3>2, <2>1
  <2> QED BY <2>1, <2>3, <2>4, <2>5, EventsDelivered DEF StreamInvariant, Open
<1> QED BY <1>1, <1>2

LEMMA EventsStep ==
    ASSUME EventSorts, StreamInvariant, [Evt!Next]_(Evt!vars)
    PROVE  StreamInvariant'
<1>1. CASE Evt!Next
  <2>1. CASE Evt!Disconnect
    <3>1. stream' = Evt!Closed /\ UNCHANGED <<place, granted, lost, session, ended, screen, missed, late, blind>>
      BY <2>1 DEF Evt!Disconnect, Evt!world
    <3>2. screen \in SUBSET Monitors /\ blind \in BOOLEAN
      BY DEF StreamInvariant, StreamShapes
    <3> QED BY <3>1, <3>2, EventsClose
  <2>2. CASE \E how \in {"ended", "deleted"} : Evt!EndSession(how)
    BY <2>2, EventsEndSession
  <2>3. CASE \E theirs \in SUBSET Groups : Evt!Grant(theirs)
    BY <2>3, EventsGrant
  <2>4. CASE \E m \in Monitors, to \in Groups \cup {Gone} : Evt!Publish(m, to)
    BY <2>4, EventsPublish
  <2>5. CASE \E fails \in BOOLEAN : Evt!RecheckDue(fails)
    BY <2>5, EventsRecheck
  <2> QED BY <1>1, <2>1, <2>2, <2>3, <2>4, <2>5, EventsTick, EventsConnect, EventsSubscribe, EventsResolve,
             EventsDeliver DEF Evt!Next
<1>2. CASE UNCHANGED Evt!vars
  <2>1. UNCHANGED <<place, granted, lost, session, ended, stream, screen, missed, late, blind>>
    BY <1>2 DEF Evt!vars
  <2> QED BY <2>1 DEF StreamInvariant, StreamShapes, ScopeOfLate, SessionOfLate, ChannelTells, Open, Awaited
<1> QED BY <1>1, <1>2

\* What is kept says what the run checks.
LEMMA EventsFollow ==
    ASSUME EventSorts, StreamInvariant
    PROVE  Evt!StreamSound
<1>1. Evt!ScopeCatchesUp
  BY DEF StreamInvariant, Evt!ScopeCatchesUp
<1>2. Evt!StreamEndsWithSession
  <2> SUFFICES ASSUME session # "good", ended > Recheck + 2 * MaxDelay, ~blind,
                      stream.step \notin {"closed", "subscribe"}
               PROVE  FALSE
    BY DEF Evt!StreamEndsWithSession
  <2>1. Open /\ stream.rechecked \in Nat /\ ended \in Nat /\ MaxDelay \in Nat /\ Recheck \in Nat
    BY DEF StreamInvariant, StreamShapes, Streams, EventSorts, Open
  <2> QED BY <2>1 DEF StreamInvariant, SessionOfLate, Open
<1>3. Evt!ScreenIsVisible
  <2> SUFFICES ASSUME stream.step = "run", stream.channel = <<>>, ~missed
               PROVE  screen = {m \in Monitors : place[m] \in stream.scope}
    BY DEF Evt!ScreenIsVisible
  <2>1. Told(<<>>, place, stream.scope, screen) /\ screen \in SUBSET Monitors
    BY DEF StreamInvariant, StreamShapes, ChannelTells, Open
  <2> QED BY <2>1 DEF Told
<1> QED BY <1>1, <1>2, <1>3 DEF Evt!StreamSound

\* What every reachable state of a stream has: how old its scope and its recheck
\* may be, and that the events under way lead from what the client shows to what
\* there is (api/events.go).
THEOREM StreamKept ==
    ASSUME EventSorts
    PROVE  Evt!Spec => []StreamInvariant
<1>1. Evt!Init => StreamInvariant
  BY EventsStart
<1>2. StreamInvariant /\ [Evt!Next]_(Evt!vars) => StreamInvariant'
  BY EventsStep
<1> QED BY <1>1, <1>2, PTL DEF Evt!Spec

\* A group taken from an account stops showing in time, a stream ends with its
\* session, and who received everything shows what it may see and nothing else.
THEOREM StreamIsSound ==
    ASSUME EventSorts
    PROVE  Evt!Spec => []Evt!StreamSound
<1>1. StreamInvariant => Evt!StreamSound
  BY EventsFollow
<1> QED BY <1>1, StreamKept, PTL

-----------------------------------------------------------------------------
(***************************************************************************)
(* Credentials at rest.                                                    *)
(***************************************************************************)
Sec == INSTANCE Secrets

Values == [text: Texts, key: Keys \cup {None}]
Pushed == [text: Texts, hashed: BOOLEAN]
Credentials == [target: Targets, level: Levels, value: Values \cup {None}, push: Pushed \cup {None}]
Seeking == [step: {"down", "draw"}] \cup [step: {"key"}, configured: Keys \cup {None}, sealed: BOOLEAN]
Boxes == [step: {"unlock", "rotate", "up"}, primary: Keys, keys: SUBSET Keys, new: Keys \cup {None}]

\* What stands for nothing is none of the rest, nor a key what stands for none.
SecretSorts ==
    /\ Generated \in Keys /\ {None, "torn", "missing", "generate"} \cap Keys = {}
    /\ None \notin Values \cup Pushed \cup Credentials \cup Texts
    /\ Levels \subseteq Int

\* An instance that serves opens with its one key, a change of key with two.
BoxSound(box) ==
    /\ box.keys = {box.primary} \cup ({box.new} \ {None})
    /\ box.step = "up" => box.new = None
    /\ box.step = "rotate" => box.new # None

SecretShapes ==
    /\ row \in [Rows -> Credentials \cup {None}]
    /\ check \in Keys \cup {None} /\ file \in Keys \cup {None, "torn"}
    /\ proc \in [Instances -> Seeking \cup Boxes]
    /\ \A i \in Instances : proc[i].step \in {"unlock", "rotate", "up"} => BoxSound(proc[i])

\* The column of a token is of the row's own token.
TokensOwned ==
    \A r \in Rows : Sec!There(r) /\ row[r].push # None =>
        row[r].value # None /\ row[r].push.text = row[r].value.text

\* Plain text is what the version before wrote.
PlainIsOlder ==
    "older" \notin past => \A r \in Rows : Sec!There(r) /\ row[r].value # None => Sec!Sealed(row[r].value)

\* Without a sentinel there is no credential, if nothing met a running
\* instance and no older version wrote.
NoneUnguarded ==
    past = {} /\ check = None => \A r \in Rows : Sec!There(r) => row[r].value = None

\* Two keys at most open what is there.
TwoKeys ==
    "met" \notin past => \E k, l \in Keys :
        /\ check \in {None, k, l}
        /\ \A r \in Rows : Sec!There(r) /\ Sec!Sealed(row[r].value) => row[r].value.key \in {k, l}

SecretInvariant ==
    /\ SecretShapes /\ TokensOwned /\ Sec!UsedAsGiven /\ Sec!NothingPlain /\ PlainIsOlder
    /\ Sec!RunningOpensAll /\ Sec!OneKeyOpensAll /\ NoneUnguarded /\ TwoKeys

\* An edit under way is of an instance that serves, and what it carries was given
\* for the address it is to write and for no safer a connection.
Carried(h) ==
    /\ h.by \in Sec!Ups /\ h.row \in Rows
    /\ h.body.target \in Targets /\ h.body.level \in Levels /\ h.text \in Texts \cup {None}
    /\ h.row \in Pushers => h.text # None
    /\ h.text # None => \E l \in Levels : <<h.text, h.body.target, l>> \in given /\ l <= h.body.level
HandsSound == \A h \in hand : Carried(h)

\* What a row that is there holds.
LEMMA CredentialThere ==
    ASSUME SecretSorts, SecretShapes, NEW r \in Rows, Sec!There(r)
    PROVE  /\ row[r] \in Credentials /\ row[r].target \in Targets /\ row[r].level \in Levels
           /\ row[r].value # None => /\ row[r].value \in Values /\ row[r].value.text \in Texts
                                     /\ row[r].value.key \in Keys \cup {None}
           /\ row[r].push # None => row[r].push \in Pushed
BY DEF SecretSorts, SecretShapes, Credentials, Values, Pushed, Sec!There

\* A process with one of the last three steps has a box.
LEMMA BoxThere ==
    ASSUME SecretSorts, SecretShapes, NEW i \in Instances, proc[i].step \in {"unlock", "rotate", "up"}
    PROVE  /\ proc[i] \in Boxes /\ BoxSound(proc[i])
           /\ proc[i].primary \in Keys /\ proc[i].new \in Keys \cup {None}
           /\ proc[i].primary \in proc[i].keys /\ proc[i].keys \subseteq Keys
           /\ proc[i].keys = {proc[i].primary} \cup ({proc[i].new} \ {None})
<1>1. proc[i] \in Seeking \cup Boxes /\ BoxSound(proc[i])
  BY DEF SecretShapes
<1>2. proc[i] \notin Seeking
  BY DEF Seeking
<1> QED BY <1>1, <1>2 DEF Boxes, BoxSound

\* A step that leaves the database alone, forgets nothing given, and serves with
\* none but the boxes served with before, keeps what the parts say.
LEMMA SecretsUntouched ==
    ASSUME SecretInvariant, SecretShapes', UNCHANGED <<row, check>>, given \subseteq given', past \subseteq past',
           \A i \in Instances : proc'[i].step = "up" => proc'[i] = proc[i]
    PROVE  SecretInvariant'
<1>1. \A r \in Rows : Sec!There(r)' <=> Sec!There(r)
  BY DEF Sec!There
<1>2. TokensOwned'
  BY <1>1 DEF SecretInvariant, TokensOwned
<1>3. Sec!UsedAsGiven'
  BY <1>1 DEF SecretInvariant, Sec!UsedAsGiven
<1>4. \A i \in Instances : i \in Sec!Ups' => i \in Sec!Ups /\ proc'[i] = proc[i]
  BY DEF Sec!Ups
<1>5. Sec!NothingPlain'
  <2> SUFFICES ASSUME Sec!Ups' # {} PROVE Sec!NothingPlain'
    BY DEF Sec!NothingPlain
  <2>1. Sec!Ups # {}
    BY <1>4 DEF Sec!Ups
  <2> QED BY <2>1, <1>1 DEF SecretInvariant, Sec!NothingPlain, Sec!Sealed
<1>6. PlainIsOlder'
  BY <1>1 DEF SecretInvariant, PlainIsOlder, Sec!Sealed
<1>7. Sec!RunningOpensAll'
  <2> SUFFICES ASSUME "met" \notin past', NEW i \in Instances, i \in Sec!Ups'
               PROVE  Sec!OpensAll(proc[i])' /\ (check \in proc[i].keys)'
    BY DEF Sec!RunningOpensAll, Sec!Ups
  <2>1. Sec!OpensAll(proc[i]) /\ check \in proc[i].keys
    BY <1>4 DEF SecretInvariant, Sec!RunningOpensAll
  <2> QED BY <2>1, <1>1, <1>4 DEF Sec!OpensAll, Sec!Opens, Sec!Sealed
<1>8. Sec!OneKeyOpensAll'
  <2> SUFFICES ASSUME past' = {} PROVE Sec!OneKeyOpensAll'
    BY DEF Sec!OneKeyOpensAll
  <2>1. past = {}
    OBVIOUS
  <2> QED BY <2>1, <1>1 DEF SecretInvariant, Sec!OneKeyOpensAll
<1>9. NoneUnguarded'
  <2> SUFFICES ASSUME past' = {} PROVE NoneUnguarded'
    BY DEF NoneUnguarded
  <2>1. past = {}
    OBVIOUS
  <2> QED BY <2>1, <1>1 DEF SecretInvariant, NoneUnguarded
<1>10. TwoKeys'
  BY <1>1 DEF SecretInvariant, TwoKeys, Sec!Sealed
<1> QED BY <1>2, <1>3, <1>5, <1>6, <1>7, <1>8, <1>9, <1>10 DEF SecretInvariant

LEMMA SecretsStart ==
    ASSUME SecretSorts, Sec!Init
    PROVE  SecretInvariant
<1> USE DEF Sec!Init, Sec!There, Sec!Ups, Sec!Down
<1>1. SecretShapes
  BY DEF SecretShapes, Seeking
<1>2. TokensOwned /\ Sec!UsedAsGiven /\ Sec!NothingPlain /\ PlainIsOlder
  BY DEF TokensOwned, Sec!UsedAsGiven, Sec!NothingPlain, PlainIsOlder
<1>3. Sec!RunningOpensAll /\ Sec!OneKeyOpensAll /\ NoneUnguarded
  BY DEF Sec!RunningOpensAll, Sec!OneKeyOpensAll, NoneUnguarded
<1>4. TwoKeys
  BY DEF TwoKeys, SecretSorts
<1> QED BY <1>1, <1>2, <1>3, <1>4 DEF SecretInvariant

\* An instance that starts or stops touches no credential.
LEMMA InstanceMoves ==
    ASSUME SecretSorts, SecretInvariant, NEW i \in Instances,
           NEW p \in Seeking \cup Boxes, Sec!Goes(i, p), p.step # "up",
           p.step \in {"unlock", "rotate"} => BoxSound(p),
           file' \in Keys \cup {None, "torn"}, UNCHANGED <<row, check, given>>, past \subseteq past'
    PROVE  SecretInvariant'
<1>1. proc' = [proc EXCEPT ![i] = p] /\ proc \in [Instances -> Seeking \cup Boxes]
  BY DEF Sec!Goes, SecretInvariant, SecretShapes
<1>2. \A j \in Instances : proc'[j] = IF j = i THEN p ELSE proc[j]
  BY <1>1
<1>3. proc' \in [Instances -> Seeking \cup Boxes]
  BY <1>1
<1>4. \A j \in Instances : proc'[j].step \in {"unlock", "rotate", "up"} => BoxSound(proc'[j])
  BY <1>2 DEF SecretInvariant, SecretShapes
<1>5. SecretShapes'
  BY <1>3, <1>4 DEF SecretInvariant, SecretShapes
<1>6. \A j \in Instances : proc'[j].step = "up" => proc'[j] = proc[j]
  BY <1>2
<1> QED BY <1>5, <1>6, SecretsUntouched

LEMMA BoxesStart ==
    ASSUME SecretSorts, SecretInvariant, NEW i \in Instances, NEW k \in Keys \cup {None}, Sec!Start(i, k)
    PROVE  SecretInvariant'
<1> DEFINE p == [step |-> "key", configured |-> k, sealed |-> Sec!HasSealed]
<1>1. Sec!HasSealed \in BOOLEAN
  BY DEF Sec!HasSealed
<1>2. p \in Seeking
  BY <1>1 DEF Seeking
<1>3. Sec!Goes(i, p) /\ UNCHANGED <<row, check, file, given, past>>
  BY DEF Sec!Start
<1>4. p.step = "key" /\ file \in Keys \cup {None, "torn"}
  BY DEF SecretInvariant, SecretShapes
<1> HIDE DEF p
<1> QED BY <1>2, <1>3, <1>4, InstanceMoves

LEMMA StartRotationKeeps ==
    ASSUME SecretSorts, SecretInvariant, NEW i \in Instances, NEW old \in Keys, NEW new \in Keys,
           Sec!StartRotation(i, old, new)
    PROVE  SecretInvariant'
<1> DEFINE p == [step |-> "unlock", primary |-> old, keys |-> {old, new}, new |-> new]
<1>1. p \in Boxes /\ BoxSound(p)
  BY DEF Boxes, BoxSound, SecretSorts
<1>2. Sec!Goes(i, p) /\ UNCHANGED <<row, check, file, given, past>>
  BY DEF Sec!StartRotation
<1>3. p.step = "unlock" /\ file \in Keys \cup {None, "torn"}
  BY DEF SecretInvariant, SecretShapes
<1> HIDE DEF p
<1> QED BY <1>1, <1>2, <1>3, InstanceMoves

LEMMA ServingSound ==
    ASSUME SecretSorts, NEW k \in Keys
    PROVE  Sec!Serving(k) \in Boxes /\ BoxSound(Sec!Serving(k)) /\ Sec!Serving(k).step = "unlock"
BY DEF Sec!Serving, Boxes, BoxSound, SecretSorts

LEMMA FindKeyKeeps ==
    ASSUME SecretSorts, SecretInvariant, NEW i \in Instances, Sec!FindKey(i)
    PROVE  SecretInvariant'
<1> DEFINE k == Sec!ResolveKey(proc[i].configured, proc[i].sealed)
<1>1. UNCHANGED <<row, check, given, past>>
  BY DEF Sec!FindKey, Sec!SamePast
<1>2. Sec!Down \in Seeking /\ Sec!Down.step = "down"
  BY DEF Sec!Down, Seeking
<1>3. file \in Keys \cup {None, "torn"}
  BY DEF SecretInvariant, SecretShapes
<1>4. \/ k \in Keys /\ Sec!Goes(i, Sec!Serving(k)) /\ UNCHANGED file
      \/ Sec!Goes(i, Sec!Down) /\ UNCHANGED file
      \/ Sec!Goes(i, [step |-> "draw"]) /\ file' = "torn"
  BY DEF Sec!FindKey
<1> HIDE DEF k
<1>5. CASE k \in Keys /\ Sec!Goes(i, Sec!Serving(k)) /\ UNCHANGED file
  BY <1>1, <1>3, <1>5, ServingSound, InstanceMoves
<1>6. CASE Sec!Goes(i, Sec!Down) /\ UNCHANGED file
  BY <1>6, <1>1, <1>2, <1>3, InstanceMoves
<1>7. CASE Sec!Goes(i, [step |-> "draw"]) /\ file' = "torn"
  <2>1. [step |-> "draw"] \in Seeking
    BY DEF Seeking
  <2> QED BY <2>1, <1>1, <1>7, InstanceMoves
<1> QED BY <1>4, <1>5, <1>6, <1>7

LEMMA DrawKeyKeeps ==
    ASSUME SecretSorts, SecretInvariant, NEW i \in Instances, NEW works \in BOOLEAN,
           Sec!DrawKey(i, works)
    PROVE  SecretInvariant'
<1>1. UNCHANGED <<row, check, given, past>>
  BY DEF Sec!DrawKey, Sec!SamePast
<1>2. Sec!Down \in Seeking /\ Sec!Down.step = "down"
  BY DEF Sec!Down, Seeking
<1>3. CASE works
  <2>1. Sec!Goes(i, Sec!Serving(Generated)) /\ file' = Generated
    BY <1>3 DEF Sec!DrawKey
  <2>2. Generated \in Keys
    BY DEF SecretSorts
  <2> QED BY <2>1, <2>2, <1>1, ServingSound, InstanceMoves
<1>4. CASE ~works
  <2>1. Sec!Goes(i, Sec!Down) /\ file' = None
    BY <1>4 DEF Sec!DrawKey
  <2> QED BY <2>1, <1>1, <1>2, InstanceMoves
<1> QED BY <1>3, <1>4

LEMMA StopKeeps ==
    ASSUME SecretSorts, SecretInvariant, NEW i \in Instances, Sec!Stop(i)
    PROVE  SecretInvariant'
<1>1. UNCHANGED <<row, check, file, given, past>> /\ Sec!Goes(i, Sec!Down)
  BY DEF Sec!Stop
<1>2. Sec!Down \in Seeking /\ Sec!Down.step = "down" /\ file \in Keys \cup {None, "torn"}
  BY DEF Sec!Down, Seeking, SecretInvariant, SecretShapes
<1> QED BY <1>1, <1>2, InstanceMoves

\* The command that changed the key, or the process, ends.
LEMMA GoesDown ==
    ASSUME SecretInvariant, NEW i \in Instances, Sec!Goes(i, Sec!Down)
    PROVE  /\ proc' \in [Instances -> Seeking \cup Boxes]
           /\ \A j \in Instances : proc'[j] = IF j = i THEN Sec!Down ELSE proc[j]
           /\ \A j \in Instances : proc'[j].step \in {"unlock", "rotate", "up"} => BoxSound(proc'[j])
<1>1. Sec!Down \in Seeking /\ Sec!Down.step = "down"
  BY DEF Sec!Down, Seeking
<1>2. proc' = [proc EXCEPT ![i] = Sec!Down] /\ proc \in [Instances -> Seeking \cup Boxes]
  BY DEF Sec!Goes, SecretInvariant, SecretShapes
<1>3. \A j \in Instances : proc'[j] = IF j = i THEN Sec!Down ELSE proc[j]
  BY <1>2
<1>4. proc' \in [Instances -> Seeking \cup Boxes]
  BY <1>1, <1>2
<1> QED BY <1>1, <1>3, <1>4 DEF SecretInvariant, SecretShapes

\* What the new key seals again is otherwise what it was.
LEMMA ResealedRow ==
    ASSUME SecretSorts, SecretInvariant, NEW new \in Keys, NEW r \in Rows,
           row' = Sec!Resealed(new)
    PROVE  /\ row'[r] \in Credentials \cup {None}
           /\ Sec!There(r)' <=> Sec!There(r)
           /\ Sec!There(r) => /\ row'[r].target = row[r].target /\ row'[r].level = row[r].level
                              /\ row'[r].push = row[r].push
                              /\ row'[r].value = None <=> row[r].value = None
                              /\ row[r].value # None => /\ row'[r].value.text = row[r].value.text
                                                        /\ row'[r].value.key = new
<1>1. row'[r] = IF Sec!There(r) /\ row[r].value # None
                THEN [row[r] EXCEPT !.value.key = new] ELSE row[r]
  BY DEF Sec!Resealed
<1>2. row[r] \in Credentials \cup {None} /\ None \notin Credentials /\ None \notin Values
  BY DEF SecretInvariant, SecretShapes, SecretSorts
<1>3. CASE ~(Sec!There(r) /\ row[r].value # None)
  BY <1>1, <1>2, <1>3 DEF Sec!There
<1>4. CASE Sec!There(r) /\ row[r].value # None
  <2>1. row[r] \in Credentials /\ row[r].value \in Values
    BY <1>4, <1>2 DEF Sec!There, Credentials
  <2>2. PICK v \in Credentials : v = row[r]
    BY <2>1
  <2>3. row'[r] = [v EXCEPT !.value = [v.value EXCEPT !.key = new]]
    BY <1>1, <1>4, <2>2
  <2>4. [v.value EXCEPT !.key = new] \in Values
    BY <2>1, <2>2 DEF Values
  <2>5. PICK w \in Values : w = [v.value EXCEPT !.key = new]
    BY <2>4
  <2>6. w.text = v.value.text /\ w.key = new
    BY <2>1, <2>2, <2>5 DEF Values
  <2>7. row'[r] = [v EXCEPT !.value = w]
    BY <2>3, <2>5
  <2>8. row'[r] \in Credentials /\ row'[r].value = w /\ row'[r].target = v.target
        /\ row'[r].level = v.level /\ row'[r].push = v.push
    BY <2>7 DEF Credentials
  <2>9. w # None
    BY <1>2
  <2> QED BY <2>2, <2>6, <2>8, <2>9, <1>2, <1>4 DEF Sec!There
<1> QED BY <1>3, <1>4

LEMMA RotateKeeps ==
    ASSUME SecretSorts, SecretInvariant, NEW i \in Instances, Sec!Rotate(i)
    PROVE  SecretInvariant'
<1>1. past \subseteq past' /\ UNCHANGED <<file, given>> /\ Sec!Goes(i, Sec!Down)
  BY DEF Sec!Rotate, Sec!SamePast
<1>2. Sec!Down \in Seeking /\ Sec!Down.step = "down" /\ file \in Keys \cup {None, "torn"}
  BY DEF Sec!Down, Seeking, SecretInvariant, SecretShapes
<1>3. CASE UNCHANGED <<row, check>>
  BY <1>1, <1>2, <1>3, InstanceMoves
<1>4. CASE row' = Sec!Resealed(proc[i].new) /\ check' = proc[i].new
  <2>1. PICK new \in Keys : new = proc[i].new
    <3>1. proc[i].step = "rotate"
      BY DEF Sec!Rotate
    <3>2. SecretShapes
      BY DEF SecretInvariant
    <3> QED BY <3>1, <3>2, BoxThere DEF BoxSound
  <2>2. row' = Sec!Resealed(new) /\ check' = new /\ new # None
    BY <1>4, <2>1 DEF SecretSorts
  <2>3. \A r \in Rows :
           /\ row'[r] \in Credentials \cup {None}
           /\ Sec!There(r)' <=> Sec!There(r)
           /\ Sec!There(r) => /\ row'[r].target = row[r].target /\ row'[r].level = row[r].level
                              /\ row'[r].push = row[r].push
                              /\ row'[r].value = None <=> row[r].value = None
                              /\ row[r].value # None => /\ row'[r].value.text = row[r].value.text
                                                        /\ row'[r].value.key = new
    BY <2>2, ResealedRow
  <2>4. \A j \in Instances : proc'[j] = IF j = i THEN Sec!Down ELSE proc[j]
    BY <1>1, GoesDown
  <2>5. "met" \notin past' => Sec!Ups' = {}
    BY <2>4, <1>2 DEF Sec!Rotate, Sec!Ups
  <2>6. Sec!Ups' \subseteq Sec!Ups
    BY <2>4, <1>2 DEF Sec!Ups
  <2>7. SecretShapes'
    <3>1. row' \in [Rows -> Credentials \cup {None}]
      BY <2>2, <2>3 DEF Sec!Resealed
    <3> QED BY <3>1, <2>2, <1>1, GoesDown DEF SecretInvariant, SecretShapes
  <2>8. TokensOwned'
    BY <2>3 DEF SecretInvariant, TokensOwned
  <2>9. Sec!UsedAsGiven'
    BY <2>3, <1>1 DEF SecretInvariant, Sec!UsedAsGiven
  <2>10. \A r \in Rows : Sec!There(r)' /\ row'[r].value # None => Sec!Sealed(row[r].value)'
    BY <2>3, <2>2 DEF Sec!Sealed
  <2>11. Sec!NothingPlain'
    BY <2>3, <2>6, <2>10 DEF SecretInvariant, Sec!NothingPlain
  <2>12. PlainIsOlder'
    BY <2>10 DEF PlainIsOlder
  <2>13. Sec!RunningOpensAll'
    BY <2>5 DEF Sec!RunningOpensAll
  <2>14. Sec!OneKeyOpensAll'
    BY <2>2, <2>3 DEF Sec!OneKeyOpensAll
  <2>15. NoneUnguarded'
    BY <2>2 DEF NoneUnguarded
  <2>16. TwoKeys'
    BY <2>2, <2>3 DEF TwoKeys, Sec!Sealed
  <2> QED BY <2>7, <2>8, <2>9, <2>11, <2>12, <2>13, <2>14, <2>15, <2>16 DEF SecretInvariant
<1> QED BY <1>3, <1>4 DEF Sec!Rotate

\* A row after what was sealed is given up: its credential is gone, or was plain text.
LEMMA ForgottenRow ==
    ASSUME SecretSorts, SecretInvariant, NEW r \in Rows, row' = [q \in Rows |-> Sec!Forgotten(q)]
    PROVE  /\ row'[r] \in Credentials \cup {None}
           /\ Sec!There(r)' <=> Sec!There(r)
           /\ Sec!There(r) =>
                 \/ row'[r] = row[r] /\ ~Sec!Sealed(row[r].value)
                 \/ row'[r].value = None /\ row'[r].push = None
<1>1. row'[r] = IF Sec!There(r) /\ Sec!Sealed(row[r].value)
                THEN [row[r] EXCEPT !.value = None, !.push = None] ELSE row[r]
  BY DEF Sec!Forgotten
<1>2. row[r] \in Credentials \cup {None} /\ None \notin Credentials
  BY DEF SecretInvariant, SecretShapes, SecretSorts
<1>3. CASE Sec!There(r) /\ Sec!Sealed(row[r].value)
  <2>1. PICK v \in Credentials : v = row[r]
    BY <1>2, <1>3 DEF Sec!There
  <2>2. row'[r] = [v EXCEPT !.value = None, !.push = None]
    BY <2>1, <1>1, <1>3
  <2>3. row'[r] \in Credentials /\ row'[r].value = None /\ row'[r].push = None
    BY <2>2 DEF Credentials
  <2> QED BY <2>3, <1>2, <1>3 DEF Sec!There
<1> QED BY <1>1, <1>2, <1>3 DEF Sec!There

LEMMA ForgetKeeps ==
    ASSUME SecretSorts, SecretInvariant, Sec!Forget
    PROVE  SecretInvariant'
<1>1. past \subseteq past' /\ UNCHANGED <<file, given, proc>> /\ check' = None
      /\ row' = [q \in Rows |-> Sec!Forgotten(q)]
  BY DEF Sec!Forget
<1>2. \A r \in Rows :
           /\ row'[r] \in Credentials \cup {None}
           /\ Sec!There(r)' <=> Sec!There(r)
           /\ Sec!There(r) =>
                 \/ row'[r] = row[r] /\ ~Sec!Sealed(row[r].value)
                 \/ row'[r].value = None /\ row'[r].push = None
  BY <1>1, ForgottenRow
<1>3. Sec!Ups' = Sec!Ups
  BY <1>1 DEF Sec!Ups
<1>4. "met" \notin past' => Sec!Ups = {}
  BY DEF Sec!Forget, Sec!Ups
<1>5. SecretShapes'
  <2>1. row' \in [Rows -> Credentials \cup {None}]
    BY <1>1, <1>2
  <2> QED BY <2>1, <1>1 DEF SecretInvariant, SecretShapes
<1>6. TokensOwned'
  BY <1>2 DEF SecretInvariant, TokensOwned
<1>7. Sec!UsedAsGiven'
  BY <1>1, <1>2 DEF SecretInvariant, Sec!UsedAsGiven
<1>8. Sec!NothingPlain'
  BY <1>2, <1>3 DEF SecretInvariant, Sec!NothingPlain
<1>9. PlainIsOlder /\ (past' = {} => past = {}) /\ ("older" \notin past' => "older" \notin past)
  BY <1>1 DEF SecretInvariant
<1>10. PlainIsOlder'
  BY <1>2, <1>9 DEF PlainIsOlder
<1>11. Sec!RunningOpensAll'
  BY <1>3, <1>4 DEF Sec!RunningOpensAll
<1>12. Sec!OneKeyOpensAll'
  BY <1>1 DEF Sec!OneKeyOpensAll
<1>13. NoneUnguarded'
  BY <1>2, <1>9 DEF PlainIsOlder, NoneUnguarded
<1>14. TwoKeys'
  <2>1. \A r \in Rows : Sec!There(r)' => ~Sec!Sealed(row'[r].value)
    BY <1>2 DEF Sec!Sealed
  <2>2. check' = None /\ Generated \in Keys
    BY <1>1 DEF SecretSorts
  <2> QED BY <2>1, <2>2 DEF TwoKeys, Sec!Sealed
<1> QED BY <1>5, <1>6, <1>7, <1>8, <1>10, <1>11, <1>12, <1>13, <1>14 DEF SecretInvariant

\* The credential the version before wrote.
LEMMA OlderRow ==
    ASSUME SecretSorts, SecretInvariant, NEW r \in Rows, NEW text \in Texts, Sec!There(r),
           row' = [row EXCEPT ![r].value = [text |-> text, key |-> None],
                              ![r].push = Sec!PushOf(r, text, FALSE)]
    PROVE  /\ row' \in [Rows -> Credentials \cup {None}]
           /\ \A q \in Rows \ {r} : row'[q] = row[q]
           /\ row'[r].target = row[r].target /\ row'[r].level = row[r].level
           /\ row'[r].value = [text |-> text, key |-> None]
           /\ row'[r].push # None => row'[r].push.text = text
<1> DEFINE v == [text |-> text, key |-> None]
           p == Sec!PushOf(r, text, FALSE)
<1>1. PICK c \in Credentials : c = row[r]
  BY CredentialThere DEF SecretInvariant
<1>2. v \in Values
  BY DEF Values
<1>3. p \in Pushed \cup {None} /\ (p # None => p.text = text)
  BY DEF Sec!PushOf, Pushed
<1>4. row \in [Rows -> Credentials \cup {None}]
  BY DEF SecretInvariant, SecretShapes
<1>5. row' = [row EXCEPT ![r] = [c EXCEPT !.value = v, !.push = p]]
  BY <1>1, <1>4
<1> HIDE DEF v, p
<1>6. PICK d \in Credentials : d = [c EXCEPT !.value = v, !.push = p]
  BY <1>2, <1>3 DEF Credentials
<1>7. d.target = c.target /\ d.level = c.level /\ d.value = v /\ d.push = p
  BY <1>6 DEF Credentials
<1>8. row' = [row EXCEPT ![r] = d]
  BY <1>5, <1>6
<1>9. row' \in [Rows -> Credentials \cup {None}] /\ row'[r] = d /\ \A q \in Rows \ {r} : row'[q] = row[q]
  BY <1>4, <1>8
<1> QED BY <1>1, <1>3, <1>7, <1>9 DEF v

LEMMA OlderVersionKeeps ==
    ASSUME SecretSorts, SecretInvariant, NEW r \in Rows, NEW text \in Texts, NEW drops \in BOOLEAN,
           Sec!OlderVersion(r, text, drops)
    PROVE  SecretInvariant'
<1>1. /\ past' = past \cup {"older"} /\ UNCHANGED <<file, proc>> /\ check' \in {None, check}
      /\ given' = given \cup {<<text, row[r].target, row[r].level>>} /\ Sec!There(r)
  BY DEF Sec!OlderVersion
<1>2. /\ row' \in [Rows -> Credentials \cup {None}]
      /\ \A q \in Rows \ {r} : row'[q] = row[q]
      /\ row'[r].target = row[r].target /\ row'[r].level = row[r].level
      /\ row'[r].value = [text |-> text, key |-> None]
      /\ row'[r].push # None => row'[r].push.text = text
  <2>1. row' = [row EXCEPT ![r].value = [text |-> text, key |-> None],
                           ![r].push = Sec!PushOf(r, text, FALSE)]
    BY DEF Sec!OlderVersion
  <2> QED BY <1>1, <2>1, OlderRow
<1>3. Sec!Ups = {} /\ Sec!Ups' = {}
  BY DEF Sec!OlderVersion, Sec!Ups
<1>4. SecretShapes'
  BY <1>1, <1>2 DEF SecretInvariant, SecretShapes
<1>5. row'[r].value # None
  <2>1. [text |-> text, key |-> None] \in Values
    BY DEF Values
  <2> QED BY <2>1, <1>2 DEF SecretSorts
<1>6. \A q \in Rows \ {r} : Sec!There(q)' <=> Sec!There(q)
  BY <1>2 DEF Sec!There
<1>7. TokensOwned'
  <2> SUFFICES ASSUME NEW q \in Rows, Sec!There(q)', row'[q].push # None
               PROVE  row'[q].value # None /\ row'[q].push.text = row'[q].value.text
    BY DEF TokensOwned
  <2>1. CASE q = r
    BY <2>1, <1>2, <1>5
  <2>2. CASE q # r
    BY <2>2, <1>2, <1>6 DEF SecretInvariant, TokensOwned
  <2> QED BY <2>1, <2>2
<1>8. Sec!UsedAsGiven'
  <2> SUFFICES ASSUME NEW q \in Rows, Sec!There(q)', row'[q].value # None
               PROVE  \E l \in Levels : <<row'[q].value.text, row'[q].target, l>> \in given' /\ l <= row'[q].level
    BY DEF Sec!UsedAsGiven
  <2>1. CASE q = r
    <3>1. row[r].level \in Levels /\ row[r].level \in Int
      BY <1>1, CredentialThere DEF SecretInvariant, SecretSorts
    <3>2. <<row'[r].value.text, row'[r].target, row[r].level>> \in given'
      BY <1>1, <1>2
    <3> QED BY <2>1, <3>1, <3>2, <1>2
  <2>2. CASE q # r
    BY <2>2, <1>1, <1>2, <1>6 DEF SecretInvariant, Sec!UsedAsGiven
  <2> QED BY <2>1, <2>2
<1>9. Sec!NothingPlain' /\ PlainIsOlder' /\ Sec!RunningOpensAll' /\ Sec!OneKeyOpensAll' /\ NoneUnguarded'
  BY <1>1, <1>3 DEF Sec!NothingPlain, PlainIsOlder, Sec!RunningOpensAll, Sec!OneKeyOpensAll, NoneUnguarded
<1>10. TwoKeys'
  <2> SUFFICES ASSUME "met" \notin past' PROVE TwoKeys'
    BY DEF TwoKeys
  <2>1. PICK k, l \in Keys :
           /\ check \in {None, k, l}
           /\ \A q \in Rows : Sec!There(q) /\ Sec!Sealed(row[q].value) => row[q].value.key \in {k, l}
    BY <1>1 DEF SecretInvariant, TwoKeys
  <2>2. check' \in {None, k, l}
    BY <2>1, <1>1
  <2>3. \A q \in Rows : Sec!There(q)' /\ Sec!Sealed(row[q].value)' => row'[q].value.key \in {k, l}
    <3> SUFFICES ASSUME NEW q \in Rows, Sec!There(q)', Sec!Sealed(row[q].value)'
                 PROVE  row'[q].value.key \in {k, l}
      OBVIOUS
    <3>1. q # r
      BY <1>2 DEF Sec!Sealed
    <3> QED BY <3>1, <2>1, <1>2, <1>6 DEF Sec!Sealed
  <2> QED BY <2>2, <2>3 DEF TwoKeys
<1> QED BY <1>4, <1>7, <1>8, <1>9, <1>10 DEF SecretInvariant

\* An edit carries what it was given, or what the row it read was.
LEMMA EditCarries ==
    ASSUME SecretSorts, SecretInvariant, HandsSound, NEW i \in Instances, NEW r \in Rows,
           NEW body \in Sec!Bodies, Sec!Edit(i, r, body)
    PROVE  SecretInvariant' /\ HandsSound'
<1>1. PICK text : text = Sec!CarriedOver(r, body)
  OBVIOUS
<1>2. /\ UNCHANGED <<row, check, file, proc, past>> /\ i \in Sec!Ups
      /\ r \in Pushers => body.text # Sec!Omitted
      /\ text # "refused"
      /\ hand' = hand \cup {[by |-> i, row |-> r, body |-> body, text |-> text]}
      /\ given' = IF body.text = Sec!Omitted THEN given
                  ELSE given \cup {<<body.text, body.target, body.level>>}
  BY <1>1 DEF Sec!Edit
<1>3. /\ given \subseteq given'
      /\ body.text # Sec!Omitted => <<body.text, body.target, body.level>> \in given'
  BY <1>2
<1>4. body.target \in Targets /\ body.level \in Levels /\ body.level \in Int
      /\ body.text \in Texts \cup {Sec!Omitted}
  BY DEF Sec!Bodies, SecretSorts
<1>5. None \notin Texts /\ None \notin Values /\ Levels \subseteq Int
  BY DEF SecretSorts
<1>6. /\ text \in Texts \cup {None}
      /\ text # None => \E l \in Levels : <<text, body.target, l>> \in given' /\ l <= body.level
  <2>1. CASE body.text # Sec!Omitted
    <3>1. text = body.text /\ text \in Texts
      BY <2>1, <1>1, <1>4 DEF Sec!CarriedOver
    <3>2. <<text, body.target, body.level>> \in given'
      BY <2>1, <3>1, <1>3
    <3> QED BY <3>1, <3>2, <1>4
  <2>2. CASE body.text = Sec!Omitted /\ (~Sec!There(r) \/ row[r].value = None)
    BY <2>2, <1>1 DEF Sec!CarriedOver
  <2>3. CASE body.text = Sec!Omitted /\ Sec!There(r) /\ row[r].value # None
    <3>1. text = row[r].value.text /\ Sec!MayCarry(row[r], body)
      BY <2>3, <1>1, <1>2 DEF Sec!CarriedOver
    <3>2. text \in Texts /\ row[r].level \in Int /\ row[r].target = body.target
          /\ row[r].level <= body.level
      BY <2>3, <3>1, <1>4, <1>5, CredentialThere DEF SecretInvariant, Sec!MayCarry
    <3>3. PICK l \in Levels : <<row[r].value.text, row[r].target, l>> \in given /\ l <= row[r].level
      BY <2>3 DEF SecretInvariant, Sec!UsedAsGiven
    <3>4. l <= body.level /\ <<text, body.target, l>> \in given'
      BY <3>1, <3>2, <3>3, <1>3, <1>4, <1>5, <2>3
    <3> QED BY <3>2, <3>4
  <2> QED BY <2>1, <2>2, <2>3
<1>7. r \in Pushers => text # None
  BY <1>1, <1>2, <1>4, <1>5 DEF Sec!CarriedOver
<1>8. Sec!Ups' = Sec!Ups
  BY <1>2 DEF Sec!Ups
<1>9. ASSUME NEW h \in hand' PROVE Carried(h)'
  <2>1. CASE h \in hand
    BY <2>1, <1>3, <1>8 DEF HandsSound, Carried
  <2>2. CASE h = [by |-> i, row |-> r, body |-> body, text |-> text]
    <3>1. h.by = i /\ h.row = r /\ h.body = body /\ h.text = text
      BY <2>2
    <3> QED BY <3>1, <1>2, <1>4, <1>6, <1>7, <1>8 DEF Carried
  <2> QED BY <2>1, <2>2, <1>2
<1>10. SecretShapes'
  BY <1>2 DEF SecretInvariant, SecretShapes
<1>11. SecretInvariant'
  BY <1>2, <1>3, <1>10, SecretsUntouched
<1> QED BY <1>9, <1>11 DEF HandsSound

\* What an edit writes: a token as its hash, a credential under the one key the
\* instance serves with, and one that was given for this address and no more.
LEMMA WrittenRow ==
    ASSUME SecretSorts, SecretInvariant, NEW h, Carried(h), NEW w, w = Sec!Written(h)
    PROVE  /\ w \in Credentials
           /\ w.value # None => /\ w.value.key = proc[h.by].primary /\ w.value.text = h.text
                                /\ \E l \in Levels : <<h.text, w.target, l>> \in given /\ l <= w.level
           /\ w.push # None => w.value # None /\ w.push.hashed /\ w.push.text = h.text
<1>1. h.by \in Instances /\ proc[h.by].primary \in Keys
  BY BoxThere DEF Sec!Ups, SecretInvariant, Carried
<1>2. PICK text \in Texts \cup {None} : text = h.text
  BY DEF Carried
<1>3. None \notin Texts /\ None \notin Values /\ None \notin Pushed
  BY DEF SecretSorts
<1>4. /\ h.body.target \in Targets /\ h.body.level \in Levels
      /\ text # None => \E l \in Levels : <<text, h.body.target, l>> \in given /\ l <= h.body.level
  BY <1>2 DEF Carried
<1>5. h.row \in Pushers => text \in Texts
  BY <1>2 DEF Carried
<1> DEFINE v == IF text = None THEN None ELSE [text |-> text, key |-> proc[h.by].primary]
           p == Sec!PushOf(h.row, text, TRUE)
<1>6. v \in Values \cup {None} /\ (v = None <=> text = None)
      /\ (v # None => v.key = proc[h.by].primary /\ v.text = text)
  BY <1>1, <1>3 DEF Values
<1>7. p \in Pushed \cup {None} /\ (p # None => h.row \in Pushers /\ p.hashed /\ p.text = text)
  BY <1>5 DEF Sec!PushOf, Pushed
<1>8. w = [target |-> h.body.target, level |-> h.body.level, push |-> p, value |-> v]
  BY <1>2 DEF Sec!Written
<1> HIDE DEF v, p
<1>9. w \in Credentials /\ w.target = h.body.target /\ w.level = h.body.level /\ w.push = p /\ w.value = v
  BY <1>4, <1>6, <1>7, <1>8 DEF Credentials
<1>10. w.value # None => /\ w.value.key = proc[h.by].primary /\ w.value.text = h.text
                        /\ \E l \in Levels : <<h.text, w.target, l>> \in given /\ l <= w.level
  BY <1>2, <1>4, <1>6, <1>9
<1>11. w.push # None => w.value # None /\ w.push.hashed /\ w.push.text = h.text
  BY <1>2, <1>3, <1>5, <1>6, <1>7, <1>9
<1> QED BY <1>9, <1>10, <1>11

LEMMA SaveKeeps ==
    ASSUME SecretSorts, SecretInvariant, HandsSound, NEW h \in hand, Sec!Save(h)
    PROVE  SecretInvariant'
<1>0. PICK i, r : i = h.by /\ r = h.row
  OBVIOUS
<1>1. /\ UNCHANGED <<check, file, proc, given, past>>
      /\ Carried(h) /\ i \in Instances /\ i \in Sec!Ups /\ r \in Rows
  BY <1>0 DEF Sec!Save, HandsSound, Carried, Sec!Ups
<1>2. CASE UNCHANGED row
  <2>1. SecretShapes'
    BY <1>1, <1>2 DEF SecretInvariant, SecretShapes
  <2> QED BY <2>1, <1>1, <1>2, SecretsUntouched
<1>3. CASE ~UNCHANGED row
  <2>1. row' = [row EXCEPT ![r] = Sec!Written(h)]
    BY <1>0, <1>3 DEF Sec!Save
  <2>2. given \subseteq given'
    BY <1>1
  <2>0. PICK text : text = h.text
    OBVIOUS
  <2>3. PICK w : w = Sec!Written(h)
    OBVIOUS
  <2>4. /\ w \in Credentials
        /\ w.value # None => /\ w.value.key = proc[i].primary /\ w.value.text = text
                             /\ \E l \in Levels : <<text, w.target, l>> \in given' /\ l <= w.level
        /\ w.push # None => w.value # None /\ w.push.hashed /\ w.push.text = text
    BY <1>0, <1>1, <2>0, <2>3, WrittenRow
  <2>5. row' = [row EXCEPT ![r] = w] /\ row \in [Rows -> Credentials \cup {None}]
    BY <2>1, <2>3 DEF SecretInvariant, SecretShapes
  <2>6. row' \in [Rows -> Credentials \cup {None}] /\ row'[r] = w /\ \A q \in Rows \ {r} : row'[q] = row[q]
    BY <1>1, <2>4, <2>5
  <2>7. \A q \in Rows \ {r} : Sec!There(q)' <=> Sec!There(q)
    BY <2>6 DEF Sec!There
  <2>8. SecretShapes'
    BY <1>1, <2>6 DEF SecretInvariant, SecretShapes
  <2>9. TokensOwned'
    <3> SUFFICES ASSUME NEW q \in Rows, Sec!There(q)', row'[q].push # None
                 PROVE  row'[q].value # None /\ row'[q].push.text = row'[q].value.text
      BY DEF TokensOwned
    <3>1. CASE q = r
      BY <3>1, <2>4, <2>6
    <3>2. CASE q # r
      BY <3>2, <2>6, <2>7 DEF SecretInvariant, TokensOwned
    <3> QED BY <3>1, <3>2
  <2>10. Sec!UsedAsGiven'
    <3> SUFFICES ASSUME NEW q \in Rows, Sec!There(q)', row'[q].value # None
                 PROVE  \E l \in Levels : <<row'[q].value.text, row'[q].target, l>> \in given' /\ l <= row'[q].level
      BY DEF Sec!UsedAsGiven
    <3>1. CASE q = r
      BY <3>1, <2>4, <2>6
    <3>2. CASE q # r
      BY <3>2, <2>2, <2>6, <2>7 DEF SecretInvariant, Sec!UsedAsGiven
    <3> QED BY <3>1, <3>2
  <2>11. /\ i \in Instances /\ proc[i].step = "up" /\ proc[i].primary \in Keys
         /\ proc[i].keys = {proc[i].primary} /\ None \notin Keys
    <3>1. i \in Instances /\ proc[i].step = "up"
      BY <1>1 DEF Sec!Ups
    <3>2. BoxSound(proc[i]) /\ proc[i].primary \in Keys
      BY <3>1, BoxThere DEF SecretInvariant
    <3> QED BY <3>1, <3>2 DEF BoxSound, SecretSorts
  <2>12. \A q \in Rows : Sec!There(q)' /\ row'[q].value # None => Sec!Sealed(row[q].value)'
    <3> SUFFICES ASSUME NEW q \in Rows, Sec!There(q)', row'[q].value # None
                 PROVE  Sec!Sealed(row[q].value)'
      OBVIOUS
    <3>1. CASE q = r
      BY <3>1, <2>4, <2>6, <2>11 DEF Sec!Sealed
    <3>2. CASE q # r
      BY <3>2, <1>1, <2>6, <2>7 DEF SecretInvariant, Sec!NothingPlain, Sec!Sealed
    <3> QED BY <3>1, <3>2
  <2>13. Sec!NothingPlain'
    <3> SUFFICES ASSUME NEW q \in Rows, Sec!There(q)', row'[q].push # None
                 PROVE  row'[q].push.hashed
      BY <2>12 DEF Sec!NothingPlain
    <3>1. CASE q = r
      BY <3>1, <2>4, <2>6
    <3>2. CASE q # r
      BY <3>2, <1>1, <2>6, <2>7 DEF SecretInvariant, Sec!NothingPlain
    <3> QED BY <3>1, <3>2
  <2>14. PlainIsOlder'
    BY <2>12 DEF PlainIsOlder
  <2>15. "met" \notin past => check = proc[i].primary /\ check # None
    BY <1>1, <2>11 DEF SecretInvariant, Sec!RunningOpensAll
  <2>16. Sec!RunningOpensAll'
    <3> SUFFICES ASSUME "met" \notin past, NEW j \in Sec!Ups
                 PROVE  Sec!OpensAll(proc[j])' /\ check \in proc[j].keys
      BY <1>1 DEF Sec!RunningOpensAll, Sec!Ups
    <3>1. Sec!OpensAll(proc[j]) /\ check \in proc[j].keys
      BY DEF SecretInvariant, Sec!RunningOpensAll
    <3>2. \A q \in Rows : Sec!There(q)' /\ Sec!Sealed(row[q].value)' => row'[q].value.key \in proc[j].keys
      <4> SUFFICES ASSUME NEW q \in Rows, Sec!There(q)', Sec!Sealed(row[q].value)'
                   PROVE  row'[q].value.key \in proc[j].keys
        OBVIOUS
      <4>1. CASE q = r
        BY <4>1, <3>1, <2>4, <2>6, <2>15 DEF Sec!Sealed
      <4>2. CASE q # r
        BY <4>2, <3>1, <2>6, <2>7 DEF Sec!OpensAll, Sec!Opens, Sec!Sealed
      <4> QED BY <4>1, <4>2
    <3> QED BY <1>1, <3>1, <3>2 DEF Sec!OpensAll, Sec!Opens
  <2>17. Sec!OneKeyOpensAll'
    <3> SUFFICES ASSUME past = {}, NEW q \in Rows, Sec!There(q)', row'[q].value # None
                 PROVE  row'[q].value.key = check
      BY <1>1 DEF Sec!OneKeyOpensAll
    <3>1. CASE q = r
      BY <3>1, <2>4, <2>6, <2>15
    <3>2. CASE q # r
      BY <3>2, <2>6, <2>7, <2>15 DEF SecretInvariant, Sec!OneKeyOpensAll
    <3> QED BY <3>1, <3>2
  <2>18. NoneUnguarded'
    BY <1>1, <2>15 DEF NoneUnguarded
  <2>19. TwoKeys'
    <3> SUFFICES ASSUME "met" \notin past PROVE TwoKeys'
      BY <1>1 DEF TwoKeys
    <3>1. PICK k, l \in Keys :
             /\ check \in {None, k, l}
             /\ \A q \in Rows : Sec!There(q) /\ Sec!Sealed(row[q].value) => row[q].value.key \in {k, l}
      BY DEF SecretInvariant, TwoKeys
    <3>2. \A q \in Rows : Sec!There(q)' /\ Sec!Sealed(row[q].value)' => row'[q].value.key \in {k, l}
      <4> SUFFICES ASSUME NEW q \in Rows, Sec!There(q)', Sec!Sealed(row[q].value)'
                   PROVE  row'[q].value.key \in {k, l}
        OBVIOUS
      <4>1. CASE q = r
        BY <4>1, <3>1, <2>4, <2>6, <2>15 DEF Sec!Sealed
      <4>2. CASE q # r
        BY <4>2, <3>1, <2>6, <2>7 DEF Sec!Sealed
      <4> QED BY <4>1, <4>2
    <3> QED BY <1>1, <3>1, <3>2 DEF TwoKeys
  <2> QED BY <2>8, <2>9, <2>10, <2>13, <2>14, <2>16, <2>17, <2>18, <2>19 DEF SecretInvariant
<1> QED BY <1>2, <1>3

\* What the start seals opens with its box, and is otherwise what it was: a
\* sealed value untouched, a token in its column as its hash.
LEMMA AtRestRow ==
    ASSUME SecretSorts, SecretInvariant, NEW box, box.primary \in Keys, box.primary \in box.keys,
           Sec!OpensAll(box), NEW r \in Rows, row' = [q \in Rows |-> Sec!AtRest(box, q)]
    PROVE  /\ row'[r] \in Credentials \cup {None}
           /\ Sec!There(r)' <=> Sec!There(r)
           /\ Sec!There(r) =>
                 /\ row'[r].target = row[r].target /\ row'[r].level = row[r].level
                 /\ row'[r].value = None <=> row[r].value = None
                 /\ Sec!Sealed(row[r].value) => row'[r].value = row[r].value
                 /\ row[r].value # None =>
                       /\ row'[r].value.text = row[r].value.text
                       /\ row'[r].value.key \in Keys \cap box.keys
                 /\ row'[r].push # None => /\ row'[r].value # None /\ row'[r].push.hashed
                                           /\ row'[r].push.text = row[r].value.text
<1>1. row[r] \in Credentials \cup {None} /\ None \notin Credentials /\ None \notin Values
      /\ None \notin Pushed
  BY DEF SecretInvariant, SecretShapes, SecretSorts
<1>2. CASE ~Sec!There(r)
  BY <1>1, <1>2 DEF Sec!AtRest, Sec!There
<1>3. CASE Sec!There(r) /\ row[r].value = None
  <2>1. row'[r] = row[r]
    BY <1>3 DEF Sec!AtRest
  <2>2. row[r].push = None
    BY <1>3 DEF SecretInvariant, TokensOwned
  <2> QED BY <2>1, <2>2, <1>1, <1>3 DEF Sec!There, Sec!Sealed
<1>4. CASE Sec!There(r) /\ row[r].value # None
  <2>1. PICK c \in Credentials : c = row[r]
    BY <1>4, <1>1 DEF Sec!There
  <2>2. c.value \in Values /\ c.value.text \in Texts /\ c.value.key \in Keys \cup {None}
    BY <1>4, <2>1, CredentialThere DEF SecretInvariant
  <2> DEFINE v == IF Sec!Sealed(c.value) THEN c.value ELSE [text |-> c.value.text, key |-> box.primary]
             p == IF c.push = None THEN None ELSE [text |-> c.value.text, hashed |-> TRUE]
  <2>3. row'[r] = [c EXCEPT !.value = v, !.push = p]
    BY <1>4, <2>1 DEF Sec!AtRest, Sec!Sealed
  <2>4. v \in Values /\ v.text = c.value.text
    BY <2>2 DEF Values
  <2>5. v.key \in Keys \cap box.keys /\ (Sec!Sealed(c.value) => v = c.value)
    BY <1>4, <2>1, <2>2 DEF Sec!OpensAll, Sec!Opens, Sec!Sealed
  <2>6. p \in Pushed \cup {None} /\ (p # None => p.hashed /\ p.text = c.value.text)
    BY <2>2 DEF Pushed
  <2> HIDE DEF v, p
  <2>7. PICK d \in Credentials : d = [c EXCEPT !.value = v, !.push = p]
    BY <2>4, <2>6 DEF Credentials
  <2>8. d.target = c.target /\ d.level = c.level /\ d.value = v /\ d.push = p
    BY <2>7 DEF Credentials
  <2>9. row'[r] = d /\ d # None /\ v # None
    BY <2>3, <2>4, <2>7, <1>1
  <2>10. row'[r] \in Credentials \cup {None} /\ (Sec!There(r)' <=> Sec!There(r))
    BY <1>4, <2>9 DEF Sec!There
  <2>11. /\ row'[r].target = row[r].target /\ row'[r].level = row[r].level
         /\ row'[r].value = None <=> row[r].value = None
    BY <1>4, <2>1, <2>8, <2>9
  <2>12. Sec!Sealed(row[r].value) => row'[r].value = row[r].value
    BY <2>1, <2>5, <2>8, <2>9
  <2>13. row'[r].value.text = row[r].value.text /\ row'[r].value.key \in Keys \cap box.keys
    BY <2>1, <2>4, <2>5, <2>8, <2>9
  <2>14. row'[r].push # None => /\ row'[r].value # None /\ row'[r].push.hashed
                                /\ row'[r].push.text = row[r].value.text
    BY <2>1, <2>6, <2>8, <2>9
  <2> QED BY <2>10, <2>11, <2>12, <2>13, <2>14
<1> QED BY <1>2, <1>3, <1>4

LEMMA UnlockKeeps ==
    ASSUME SecretSorts, SecretInvariant, NEW i \in Instances, Sec!Unlock(i)
    PROVE  SecretInvariant'
<1>1. UNCHANGED <<file, past, given>> /\ file \in Keys \cup {None, "torn"} /\ past \subseteq past'
  BY DEF Sec!Unlock, Sec!SamePast, SecretInvariant, SecretShapes
<1>2. CASE ~(Sec!KeyFits(proc[i]) /\ Sec!OpensAll(proc[i]))
  <2>1. UNCHANGED <<row, check>> /\ Sec!Goes(i, Sec!Down)
    BY <1>2 DEF Sec!Unlock
  <2>2. Sec!Down \in Seeking /\ Sec!Down.step = "down"
    BY DEF Sec!Down, Seeking
  <2> QED BY <1>1, <2>1, <2>2, InstanceMoves
<1>3. CASE Sec!KeyFits(proc[i]) /\ Sec!OpensAll(proc[i])
  <2>0. PICK box : box = proc[i]
    OBVIOUS
  <2>1. /\ box \in Boxes /\ BoxSound(box) /\ box.step = "unlock"
        /\ box.primary \in Keys /\ box.new \in Keys \cup {None}
        /\ box.primary \in box.keys /\ box.keys \subseteq Keys
        /\ box.keys = {box.primary} \cup ({box.new} \ {None})
    <3>1. proc[i].step = "unlock" /\ SecretShapes
      BY DEF Sec!Unlock, SecretInvariant
    <3> QED BY <3>1, <2>0, BoxThere
  <2>2. PICK s \in {"up", "rotate"} :
           s = (IF box.new = None THEN "up" ELSE "rotate") /\ Sec!Goes(i, [box EXCEPT !.step = s])
    BY <1>3, <2>0 DEF Sec!Unlock
  <2>3. check' = Sec!Verified(box) /\ row' = [q \in Rows |-> Sec!AtRest(box, q)]
    BY <1>3, <2>0 DEF Sec!Unlock
  <2>4. /\ check' \in box.keys /\ Sec!OpensAll(box) /\ None \notin Keys /\ check' # None
        /\ (check # None => check' = check)
    BY <1>3, <2>0, <2>1, <2>3 DEF Sec!KeyFits, Sec!Verified, SecretSorts
  <2>5. \A r \in Rows :
           /\ row'[r] \in Credentials \cup {None}
           /\ Sec!There(r)' <=> Sec!There(r)
           /\ Sec!There(r) =>
                 /\ row'[r].target = row[r].target /\ row'[r].level = row[r].level
                 /\ row'[r].value = None <=> row[r].value = None
                 /\ Sec!Sealed(row[r].value) => row'[r].value = row[r].value
                 /\ row[r].value # None =>
                       /\ row'[r].value.text = row[r].value.text
                       /\ row'[r].value.key \in Keys \cap box.keys
                 /\ row'[r].push # None => /\ row'[r].value # None /\ row'[r].push.hashed
                                           /\ row'[r].push.text = row[r].value.text
    BY <2>1, <2>3, <2>4, AtRestRow
  <2>6. PICK b \in Boxes : b = [box EXCEPT !.step = s]
    BY <2>1, <2>2 DEF Boxes
  <2>7. b.step = s /\ b.keys = box.keys /\ b.new = box.new /\ b.primary = box.primary /\ BoxSound(b)
    BY <2>1, <2>2, <2>6 DEF Boxes, BoxSound
  <2>8. proc' = [proc EXCEPT ![i] = b] /\ proc \in [Instances -> Seeking \cup Boxes]
    BY <2>2, <2>6 DEF Sec!Goes, SecretInvariant, SecretShapes
  <2>9. \A j \in Instances : proc'[j] = IF j = i THEN b ELSE proc[j]
    BY <2>8
  <2>10. SecretShapes'
    <3>1. row' \in [Rows -> Credentials \cup {None}]
      BY <2>3, <2>5
    <3>2. proc' \in [Instances -> Seeking \cup Boxes]
      BY <2>8
    <3>3. \A j \in Instances : proc'[j].step \in {"unlock", "rotate", "up"} => BoxSound(proc'[j])
      BY <2>7, <2>9 DEF SecretInvariant, SecretShapes
    <3>4. check' \in Keys \cup {None}
      BY <2>1, <2>4
    <3> QED BY <3>1, <3>2, <3>3, <3>4, <1>1 DEF SecretShapes
  <2>11. TokensOwned'
    BY <2>5 DEF SecretInvariant, TokensOwned
  <2>12. Sec!UsedAsGiven'
    BY <1>1, <2>5 DEF SecretInvariant, Sec!UsedAsGiven
  <2>13. \A r \in Rows : Sec!There(r)' /\ row'[r].value # None => Sec!Sealed(row[r].value)'
    BY <2>4, <2>5 DEF Sec!Sealed
  <2>14. Sec!NothingPlain' /\ PlainIsOlder'
    BY <2>5, <2>13 DEF Sec!NothingPlain, PlainIsOlder
  <2>15. Sec!RunningOpensAll'
    <3> SUFFICES ASSUME "met" \notin past, NEW j \in Instances, proc'[j].step = "up"
                 PROVE  Sec!OpensAll(proc[j])' /\ (check \in proc[j].keys)'
      BY <1>1 DEF Sec!RunningOpensAll, Sec!Ups
    <3>1. CASE j = i
      <4>1. proc'[j] = b
        BY <2>9, <3>1
      <4>2. check' \in b.keys
        BY <2>4, <2>7
      <4>3. \A r \in Rows : Sec!There(r)' /\ row'[r].value # None => row'[r].value.key \in b.keys
        BY <2>5, <2>7
      <4> QED BY <4>1, <4>2, <4>3 DEF Sec!OpensAll, Sec!Opens, Sec!Sealed
    <3>2. CASE j # i
      <4>1. proc'[j] = proc[j] /\ j \in Sec!Ups
        BY <2>9, <3>2 DEF Sec!Ups
      <4>2. Sec!OpensAll(proc[j]) /\ check \in proc[j].keys
        BY <4>1 DEF SecretInvariant, Sec!RunningOpensAll
      <4>3. check # None
        <5>1. proc[j].keys \subseteq Keys
          BY <4>1, BoxThere DEF Sec!Ups, SecretInvariant
        <5> QED BY <5>1, <4>2, <2>4
      <4>4. \A r \in Rows : Sec!There(r) /\ row[r].value # None => Sec!Sealed(row[r].value)
        BY <4>1 DEF SecretInvariant, Sec!NothingPlain
      <4>5. \A r \in Rows : Sec!There(r)' /\ row'[r].value # None =>
               Sec!There(r) /\ Sec!Sealed(row[r].value) /\ row'[r].value = row[r].value
        BY <4>4, <2>5
      <4> QED BY <4>1, <4>2, <4>3, <4>5, <2>4 DEF Sec!OpensAll, Sec!Opens, Sec!Sealed
    <3> QED BY <3>1, <3>2
  <2>16. Sec!OneKeyOpensAll'
    <3> SUFFICES ASSUME past = {}, NEW r \in Rows, Sec!There(r)', row'[r].value # None
                 PROVE  row'[r].value.key = check'
      BY <1>1 DEF Sec!OneKeyOpensAll
    <3>1. Sec!There(r) /\ row[r].value # None
      BY <2>5
    <3>2. check # None
      BY <3>1 DEF SecretInvariant, NoneUnguarded
    <3>3. Sec!Sealed(row[r].value)
      BY <3>1 DEF SecretInvariant, PlainIsOlder
    <3>4. row[r].value.key = check
      BY <3>1, <3>2 DEF SecretInvariant, Sec!OneKeyOpensAll
    <3> QED BY <3>1, <3>2, <3>3, <3>4, <2>4, <2>5
  <2>17. NoneUnguarded'
    BY <2>4 DEF NoneUnguarded
  <2>18. TwoKeys'
    <3>1. PICK l \in Keys : box.keys = {box.primary, l}
      BY <2>1
    <3>2. box.primary \in Keys /\ check' \in {None, box.primary, l}
      BY <2>1, <2>4, <3>1
    <3>3. \A r \in Rows : Sec!There(r)' /\ Sec!Sealed(row[r].value)' => row'[r].value.key \in {box.primary, l}
      BY <2>5, <3>1 DEF Sec!Sealed
    <3> QED BY <3>2, <3>3 DEF TwoKeys
  <2> QED BY <2>10, <2>11, <2>12, <2>14, <2>15, <2>16, <2>17, <2>18 DEF SecretInvariant
<1> QED BY <1>2, <1>3

\* What goes down has no edits left, and one that serves keeps serving.
LEMMA HandsStay ==
    ASSUME HandsSound, hand' \subseteq hand, given \subseteq given', \A h \in hand' : h.by \in Sec!Ups'
    PROVE  HandsSound'
BY DEF HandsSound, Carried

LEMMA SecretStep ==
    ASSUME SecretSorts, SecretInvariant, HandsSound, [Sec!Next]_(Sec!vars)
    PROVE  SecretInvariant' /\ HandsSound'
<1>0. /\ proc \in [Instances -> Seeking \cup Boxes]
      /\ \A h \in hand : h.by \in Instances /\ proc[h.by].step = "up"
  BY DEF SecretInvariant, SecretShapes, HandsSound, Carried, Sec!Ups
<1>1. ASSUME NEW i \in Instances, NEW k \in Keys \cup {None}, Sec!Start(i, k)
      PROVE  SecretInvariant' /\ HandsSound'
  <2>1. \A h \in hand' : h.by \in Sec!Ups'
    BY <1>0, <1>1 DEF Sec!Start, Sec!Goes, Sec!Ups
  <2>2. UNCHANGED <<hand, given>>
    BY <1>1 DEF Sec!Start
  <2> QED BY <1>1, <2>1, <2>2, BoxesStart, HandsStay
<1>2. ASSUME NEW i \in Instances, NEW old \in Keys, NEW new \in Keys, Sec!StartRotation(i, old, new)
      PROVE  SecretInvariant' /\ HandsSound'
  <2>1. \A h \in hand' : h.by \in Sec!Ups'
    BY <1>0, <1>2 DEF Sec!StartRotation, Sec!Goes, Sec!Ups
  <2>2. UNCHANGED <<hand, given>>
    BY <1>2 DEF Sec!StartRotation
  <2> QED BY <1>2, <2>1, <2>2, StartRotationKeeps, HandsStay
<1>3. ASSUME NEW i \in Instances,
             Sec!FindKey(i) \/ Sec!DrawKey(i, TRUE) \/ Sec!DrawKey(i, FALSE) \/ Sec!Unlock(i) \/ Sec!Rotate(i)
      PROVE  SecretInvariant' /\ HandsSound'
  <2>1. /\ proc[i].step # "up" /\ UNCHANGED <<hand, given>>
        /\ \E p : proc' = [proc EXCEPT ![i] = p]
    BY <1>3 DEF Sec!FindKey, Sec!DrawKey, Sec!Unlock, Sec!Rotate, Sec!Goes, Sec!SamePast
  <2>2. \A h \in hand' : h.by \in Sec!Ups'
    BY <1>0, <2>1 DEF Sec!Ups
  <2> QED BY <1>3, <2>1, <2>2, FindKeyKeeps, DrawKeyKeeps, UnlockKeeps, RotateKeeps, HandsStay
<1>4. ASSUME NEW i \in Instances, Sec!Stop(i)
      PROVE  SecretInvariant' /\ HandsSound'
  <2>1. /\ hand' = {h \in hand : h.by # i} /\ UNCHANGED given
        /\ proc' = [proc EXCEPT ![i] = Sec!Down]
    BY <1>4 DEF Sec!Stop, Sec!Goes
  <2>2. \A h \in hand' : h.by \in Sec!Ups'
    BY <1>0, <2>1 DEF Sec!Ups
  <2> QED BY <1>4, <2>1, <2>2, StopKeeps, HandsStay
<1>5. ASSUME NEW i \in Instances, NEW r \in Rows, NEW b \in Sec!Bodies, Sec!Edit(i, r, b)
      PROVE  SecretInvariant' /\ HandsSound'
  BY <1>5, EditCarries
<1>6. ASSUME NEW h \in hand, Sec!Save(h)
      PROVE  SecretInvariant' /\ HandsSound'
  <2>1. hand' = hand \ {h} /\ UNCHANGED <<proc, given>>
    BY <1>6 DEF Sec!Save
  <2>2. \A g \in hand' : g.by \in Sec!Ups'
    BY <1>0, <2>1 DEF Sec!Ups
  <2> QED BY <1>6, <2>1, <2>2, SaveKeeps, HandsStay
<1>7. ASSUME (\E r \in Rows, t \in Texts, drops \in BOOLEAN : Sec!OlderVersion(r, t, drops)) \/ Sec!Forget
      PROVE  SecretInvariant' /\ HandsSound'
  <2>1. given \subseteq given' /\ UNCHANGED <<proc, hand>>
    BY <1>7 DEF Sec!OlderVersion, Sec!Forget
  <2>2. \A h \in hand' : h.by \in Sec!Ups'
    BY <1>0, <2>1 DEF Sec!Ups
  <2> QED BY <1>7, <2>1, <2>2, OlderVersionKeeps, ForgetKeeps, HandsStay
<1>8. ASSUME UNCHANGED Sec!vars
      PROVE  SecretInvariant' /\ HandsSound'
  <2>1. UNCHANGED <<row, check, file, proc, hand, given, past>>
    BY <1>8 DEF Sec!vars
  <2>2. SecretShapes'
    BY <2>1 DEF SecretInvariant, SecretShapes
  <2>3. \A h \in hand' : h.by \in Sec!Ups'
    BY <1>0, <2>1 DEF Sec!Ups
  <2> QED BY <2>1, <2>2, <2>3, SecretsUntouched, HandsStay
<1> QED BY <1>1, <1>2, <1>3, <1>4, <1>5, <1>6, <1>7, <1>8 DEF Sec!Next

\* What is kept says what the runs check.
LEMMA SecretsFollow ==
    ASSUME SecretSorts, SecretInvariant
    PROVE  Sec!SecretsSound
<1>1. Sec!TokensFind
  BY DEF SecretInvariant, TokensOwned, Sec!TokensFind
<1>2. Sec!TwoKeysOpenAll
  <2> DEFINE used == {k \in Keys : k = check \/ \E r \in Rows :
                        Sec!There(r) /\ row[r].value # None /\ row[r].value.key = k}
  <2> SUFFICES ASSUME "met" \notin past PROVE Sec!Cardinality(used) <= 2
    BY DEF Sec!TwoKeysOpenAll
  <2>1. PICK k, l \in Keys :
           /\ check \in {None, k, l}
           /\ \A r \in Rows : Sec!There(r) /\ Sec!Sealed(row[r].value) => row[r].value.key \in {k, l}
    BY DEF SecretInvariant, TwoKeys
  <2>2. used \subseteq {k, l}
    BY <2>1 DEF SecretSorts, Sec!Sealed
  <2> HIDE DEF used
  <2>3. IsFiniteSet({k, l}) /\ Cardinality({k, l}) <= 2
    <3>1. IsFiniteSet({l}) /\ Cardinality({l}) = 1
      BY FS_Singleton
    <3>2. {k, l} = {l} \cup {k}
      OBVIOUS
    <3> QED BY <3>1, <3>2, FS_AddElement
  <2>4. Cardinality(used) <= Cardinality({k, l}) /\ IsFiniteSet(used)
    BY <2>2, <2>3, FS_Subset
  <2>5. Cardinality(used) \in Nat /\ Cardinality({k, l}) \in Nat
    BY <2>3, <2>4, FS_CardinalityType
  <2>6. Sec!Cardinality(used) = Cardinality(used)
    BY DEF Sec!Cardinality, Cardinality
  <2> QED BY <2>3, <2>4, <2>5, <2>6
<1> QED BY <1>1, <1>2 DEF SecretInvariant, Sec!SecretsSound

\* What every reachable state of the credentials at rest has: the inductive
\* invariant, for any instances, keys, rows and levels (sqlstore/secrets.go,
\* secretbox, checker/secret.go).
THEOREM SecretsKept ==
    ASSUME SecretSorts
    PROVE  Sec!Spec => [](SecretInvariant /\ HandsSound)
<1>1. Sec!Init => SecretInvariant /\ HandsSound
  BY SecretsStart DEF HandsSound, Sec!Init
<1>2. SecretInvariant /\ HandsSound /\ [Sec!Next]_(Sec!vars) => SecretInvariant' /\ HandsSound'
  BY SecretStep
<1> QED BY <1>1, <1>2, PTL DEF Sec!Spec

\* A running instance opens every credential, keeps none in plain text, finds a
\* push monitor by its own token only, and uses a credential with the address it
\* was given for; a change of key takes all along.
THEOREM SecretsAreSound ==
    ASSUME SecretSorts
    PROVE  Sec!Spec => []Sec!SecretsSound
<1>1. SecretInvariant => Sec!SecretsSound
  BY SecretsFollow
<1> QED BY <1>1, SecretsKept, PTL

-----------------------------------------------------------------------------
(***************************************************************************)
(* Notification channels: the credential of a channel through its edits,   *)
(* and the rows that tie a channel to what it tells of.                    *)
(***************************************************************************)
Chn == INSTANCE Channels

Kinds == {b.kind : b \in Bodies}
Hosts == {b.host : b \in Bodies} \cup {None}
ChannelSecrets == {b.secret : b \in Bodies} \cup {None}
ChannelRows == [kind: Kinds, host: Hosts, secret: ChannelSecrets, plain: BOOLEAN, enabled: BOOLEAN]
Tellable == Monitors \cup Groups

\* A request about a row, and one about the ties of a channel.
RowOrders ==
    [step: {"resolve", "write"}, kind: {"create", "update"}, of: Channels, body: Bodies,
     row: ChannelRows, ties: (SUBSET Tellable) \cup {None}]
TieOrders ==
    [step: {"resolve", "write"}, kind: {"targets", "link", "unlink"}, of: Channels,
     row: {Chn!NoRow}, ties: SUBSET Tellable]

\* A request is a body with every field; what is not there is no row, and no
\* monitor is a group.
ChannelSorts ==
    /\ Bodies \subseteq ChannelRows
    /\ None # Gone /\ None \notin ChannelRows /\ Gone \notin ChannelRows
    /\ None \notin Kinds /\ "refused" \notin Kinds
    /\ None # "omitted" /\ None # "masked"
    /\ Ties \subseteq SUBSET Tellable /\ None \notin SUBSET Tellable
    /\ Monitors \cap Groups = {} /\ Gone \notin Groups /\ None \notin Groups
    /\ Gone \notin Monitors /\ None \notin Monitors

ChannelShapes ==
    /\ channel \in [Channels -> ChannelRows \cup {None, Gone}]
    /\ answered \in [Channels -> ChannelRows \cup {None, Gone}]
    /\ tied \in [Channels -> SUBSET Tellable]
    /\ place \in [Monitors -> Groups \cup {None, Gone}]
    /\ over \in [Groups -> Groups \cup {None, Gone}]
    /\ request \in [Clients -> {Chn!Idle} \cup RowOrders \cup TieOrders]
    /\ DOMAIN given = Channels /\ secret \in [Channels -> ChannelSecrets]
    /\ crossed \in [Channels -> BOOLEAN]

\* A row that a request is about to write is complete, and its credential was
\* given for its destination.
OrdersAreGiven ==
    \A c \in Clients : request[c] \in RowOrders =>
        /\ Chn!Valid(request[c].row)
        /\ request[c].row.secret # None =>
              <<request[c].row.kind, request[c].row.host, request[c].row.secret>>
                  \in given[request[c].of]

\* Two requests about a channel at once cross each other.
TwoCross ==
    \A c, d \in Clients :
        /\ c # d /\ request[c] # Chn!Idle /\ request[d] # Chn!Idle
        /\ request[c].of = request[d].of
        => crossed[request[c].of]

\* A request that no other crosses is about to write the credential that its
\* body asks for, of the row as it still is.
OrdersKeepSecrets ==
    \A c \in Clients :
        /\ request[c] \in RowOrders /\ ~crossed[request[c].of]
        /\ request[c].kind = "update" => Chn!Stored(request[c].of)
        => request[c].row.secret = Chn!SecretAfter(request[c].of, request[c])

ChannelsInvariant ==
    /\ ChannelShapes /\ OrdersAreGiven /\ TwoCross /\ OrdersKeepSecrets
    /\ Chn!SecretsStayPut /\ Chn!EditsKeepSecrets /\ Chn!AnsweredIsStored /\ Chn!TiesHold

\* Idle requests are told from the others by their step.
LEMMA OrderSorts ==
    ASSUME NEW r \in {Chn!Idle} \cup RowOrders \cup TieOrders
    PROVE  /\ r.step = "idle" <=> r = Chn!Idle
           /\ r # Chn!Idle /\ r.kind \in {"create", "update"} => r \in RowOrders
           /\ r # Chn!Idle /\ r.kind \notin {"create", "update"} => r \in TieOrders
           /\ r \in RowOrders => r.kind \in {"create", "update"} /\ r # Chn!Idle
           /\ r \in TieOrders => r \notin RowOrders /\ r # Chn!Idle
<1>1. CASE r = Chn!Idle
  <2>1. r.step = "idle" BY <1>1 DEF Chn!Idle
  <2> QED BY <2>1, <1>1 DEF RowOrders, TieOrders
<1>2. CASE r \in RowOrders
  <2>1. r.step # "idle" /\ r.kind \in {"create", "update"} BY <1>2 DEF RowOrders
  <2>2. r # Chn!Idle BY <2>1 DEF Chn!Idle
  <2>3. r \notin TieOrders BY <2>1 DEF TieOrders
  <2> QED BY <2>1, <2>2, <2>3, <1>2
<1>3. CASE r \in TieOrders
  <2>1. r.step # "idle" /\ r.kind \notin {"create", "update"} BY <1>3 DEF TieOrders
  <2>2. r # Chn!Idle BY <2>1 DEF Chn!Idle
  <2>3. r \notin RowOrders BY <2>1 DEF RowOrders
  <2> QED BY <2>1, <2>2, <2>3, <1>3
<1> QED BY <1>1, <1>2, <1>3

\* What an edit carries over: a row of the kind asked for; a credential the
\* request gives, or the stored one with the destination it has; and it is
\* what the body asks for.
LEMMA CarriedOver ==
    ASSUME ChannelSorts, NEW b \in Bodies, NEW prev \in ChannelRows, Chn!Valid(Chn!Carry(b, prev))
    PROVE  LET rec == Chn!Carry(b, prev) IN
           /\ rec \in ChannelRows /\ rec.kind = b.kind
           /\ ~ Chn!Says("update", b) /\ rec.secret # None =>
                 rec.kind = prev.kind /\ rec.host = prev.host /\ rec.secret = prev.secret
           /\ Chn!Says("update", b) => rec.secret = b.secret
           /\ ~ Chn!Says("update", b) /\ b.secret = "masked" => rec.secret = prev.secret
           /\ b.secret = "omitted" =>
                 rec.secret = IF b.kind = "webhook" \/ (b.kind = "email" /\ b.plain)
                                 \/ prev.kind # b.kind
                                THEN None ELSE prev.secret
<1> DEFINE old == IF prev.kind = b.kind THEN prev ELSE Chn!NoRow
           host == IF b.host = "omitted" THEN old.host ELSE b.host
           rec == Chn!Carry(b, prev)
<1>0. Chn!Says("update", b) <=> b.secret # "omitted" /\ ~ (b.secret = "masked" /\ b.kind = "webhook")
  BY DEF Chn!Says, Chn!Omitted, Chn!Masked
<1>1. b \in ChannelRows /\ b.kind \in Kinds /\ b.kind # None /\ b.kind # "refused"
  BY DEF ChannelSorts, ChannelRows
<1>2. /\ old.secret \in ChannelSecrets /\ old.host \in Hosts
      /\ old.secret # None => old = prev /\ prev.kind = b.kind
      /\ prev.kind # b.kind => old.secret = None
      /\ prev.kind = b.kind => old = prev
  <2>1. None \in ChannelSecrets /\ None \in Hosts BY DEF ChannelSecrets, Hosts
  <2>2. Chn!NoRow.secret = None /\ Chn!NoRow.host = None BY DEF Chn!NoRow
  <2> QED BY <2>1, <2>2 DEF ChannelRows
<1>3. rec.kind # "refused" /\ rec.secret # "omitted"
      /\ (rec.plain => rec.secret = None)
  BY DEF Chn!Valid, Chn!Omitted
<1>4. Chn!Refused.kind = "refused" BY DEF Chn!Refused, Chn!NoRow
<1>5. CASE b.kind = "webhook"
  <2> DEFINE kept == [b EXCEPT !.host = host, !.secret = old.secret]
             plainly == [kept EXCEPT !.secret = IF b.secret = "omitted" THEN None ELSE b.secret]
  <2>1. rec = IF b.secret # "masked" THEN plainly
              ELSE IF old.secret = None \/ host # old.host THEN Chn!Refused ELSE kept
    BY <1>5 DEF Chn!Carry, Chn!CarryWebhook, Chn!Omitted, Chn!Masked
  <2>2. host \in Hosts /\ None \in ChannelSecrets /\ b.secret \in ChannelSecrets
    BY <1>1, <1>2 DEF ChannelRows, ChannelSecrets
  <2>3. /\ kept \in ChannelRows /\ kept.kind = b.kind /\ kept.host = host
        /\ kept.secret = old.secret
    BY <1>1, <1>2, <2>2 DEF ChannelRows
  <2>4. /\ plainly \in ChannelRows /\ plainly.kind = b.kind
        /\ plainly.secret = IF b.secret = "omitted" THEN None ELSE b.secret
    BY <2>2, <2>3 DEF ChannelRows
  <2>5. CASE b.secret # "masked"
    <3>1. rec = plainly BY <2>1, <2>5
    <3> HIDE DEF plainly, kept, host, old
    <3> QED BY <3>1, <2>4, <2>5, <1>5, <1>0
  <2>6. CASE b.secret = "masked"
    <3>1. ~(old.secret = None \/ host # old.host) BY <2>1, <2>6, <1>3, <1>4
    <3>2. rec = kept BY <2>1, <2>6, <3>1
    <3>3. old = prev /\ prev.kind = b.kind BY <3>1, <1>2
    <3> HIDE DEF plainly, kept, host, old
    <3> QED BY <3>1, <3>2, <3>3, <2>3, <2>6, <1>5, <1>0
  <2> QED BY <2>5, <2>6
<1>6. CASE b.kind # "webhook"
  <2> DEFINE bare == [b EXCEPT !.secret = None]
             kept == [b EXCEPT !.secret = old.secret]
  <2>1. rec = IF b.secret # "omitted" THEN b
              ELSE IF old.secret = None \/ (b.kind = "email" /\ b.plain) THEN bare
              ELSE IF b.host # old.host THEN Chn!Refused ELSE kept
    BY <1>6 DEF Chn!Carry, Chn!CarryServer, Chn!Omitted
  <2>2. None \in ChannelSecrets BY DEF ChannelSecrets
  <2>3. bare \in ChannelRows /\ bare.kind = b.kind /\ bare.secret = None
    BY <1>1, <2>2 DEF ChannelRows
  <2>4. kept \in ChannelRows /\ kept.kind = b.kind /\ kept.host = b.host /\ kept.secret = old.secret
    BY <1>1, <1>2 DEF ChannelRows
  <2>5. CASE b.secret # "omitted"
    <3>1. rec = b BY <2>1, <2>5
    <3> QED BY <3>1, <2>5, <1>0, <1>1, <1>6
  <2>6. CASE b.secret = "omitted" /\ (old.secret = None \/ (b.kind = "email" /\ b.plain))
    <3>1. rec = bare BY <2>1, <2>6
    <3>2. (b.kind = "email" /\ b.plain) \/ prev.kind # b.kind \/ prev.secret = None BY <2>6, <1>2
    <3> HIDE DEF bare, old
    <3> QED BY <3>1, <3>2, <2>3, <2>6, <1>0
  <2>7. CASE b.secret = "omitted" /\ ~(old.secret = None \/ (b.kind = "email" /\ b.plain))
    <3>1. rec = kept /\ b.host = old.host BY <2>1, <2>7, <1>3, <1>4
    <3>2. old = prev /\ prev.kind = b.kind BY <2>7, <1>2
    <3> HIDE DEF kept, old
    <3> QED BY <3>1, <3>2, <2>4, <2>7, <1>6, <1>0
  <2> QED BY <2>5, <2>6, <2>7
<1> QED BY <1>5, <1>6

LEMMA ChannelsStart ==
    ASSUME ChannelSorts, Chn!Init
    PROVE  ChannelsInvariant
<1>1. ChannelShapes
  <2>1. \A b \in Bodies : b \in ChannelRows BY DEF ChannelSorts
  <2>2. channel \in [Channels -> ChannelRows \cup {None, Gone}] BY <2>1 DEF Chn!Init
  <2>3. \A ch \in Channels : channel[ch] \notin {None, Gone} => channel[ch].secret \in ChannelSecrets
    BY <2>2 DEF ChannelRows
  <2>4. secret \in [Channels -> ChannelSecrets]
    <3>1. None \in ChannelSecrets BY DEF ChannelSecrets
    <3> QED BY <2>3, <3>1 DEF Chn!Init, Chn!Stored
  <2>5. request \in [Clients -> {Chn!Idle} \cup RowOrders \cup TieOrders] BY DEF Chn!Init
  <2>6. over \in [Groups -> Groups \cup {None, Gone}] BY DEF Chn!Init
  <2>7. place \in [Monitors -> Groups \cup {None, Gone}] BY DEF Chn!Init
  <2>8. tied \in [Channels -> SUBSET Tellable] BY DEF Chn!Init
  <2>9. answered \in [Channels -> ChannelRows \cup {None, Gone}] BY <2>2 DEF Chn!Init
  <2>10. DOMAIN given = Channels /\ crossed \in [Channels -> BOOLEAN] BY DEF Chn!Init
  <2> QED BY <2>2, <2>4, <2>5, <2>6, <2>7, <2>8, <2>9, <2>10 DEF ChannelShapes
<1>2. \A c \in Clients : request[c] = Chn!Idle /\ request[c] \notin RowOrders
  <2>1. Chn!Idle \notin RowOrders BY OrderSorts
  <2> QED BY <2>1 DEF Chn!Init
<1>3. OrdersAreGiven /\ TwoCross /\ OrdersKeepSecrets
  BY <1>2 DEF OrdersAreGiven, TwoCross, OrdersKeepSecrets
<1>4. Chn!SecretsStayPut BY DEF Chn!SecretsStayPut, Chn!Init
<1>5. Chn!EditsKeepSecrets BY DEF Chn!EditsKeepSecrets, Chn!Init
<1>6. Chn!AnsweredIsStored BY DEF Chn!AnsweredIsStored, Chn!Init
<1>7. Chn!TiesHold BY DEF Chn!TiesHold, Chn!Init
<1> QED BY <1>1, <1>3, <1>4, <1>5, <1>6, <1>7 DEF ChannelsInvariant

\* A request that writes no table: more may be given and more be crossed.
Quiet ==
    /\ UNCHANGED <<channel, tied, place, over, secret, answered>>
    /\ crossed' \in [Channels -> BOOLEAN] /\ \A ch \in Channels : crossed[ch] => crossed'[ch]
    /\ DOMAIN given' = Channels /\ \A ch \in Channels : given[ch] \subseteq given'[ch]

\* What is asked of the order of one client, before a step and after it.
OrderHolds(c) ==
    request[c] \in RowOrders =>
        /\ Chn!Valid(request[c].row)
        /\ request[c].row.secret # None =>
              <<request[c].row.kind, request[c].row.host, request[c].row.secret>>
                  \in given[request[c].of]
        /\ ~crossed[request[c].of] /\ (request[c].kind = "update" => Chn!Stored(request[c].of))
           => request[c].row.secret = Chn!SecretAfter(request[c].of, request[c])

LEMMA OrdersHold ==
    /\ (OrdersAreGiven /\ OrdersKeepSecrets) <=> (\A c \in Clients : OrderHolds(c))
    /\ (OrdersAreGiven /\ OrdersKeepSecrets)' <=> (\A c \in Clients : OrderHolds(c)')
BY DEF OrdersAreGiven, OrdersKeepSecrets, OrderHolds

\* The tables of a quiet step are as sound as they were.
LEMMA QuietTables ==
    ASSUME ChannelsInvariant, Quiet, TwoCross', \A c \in Clients : OrderHolds(c)',
           request' \in [Clients -> {Chn!Idle} \cup RowOrders \cup TieOrders]
    PROVE  ChannelsInvariant'
<1>1. ChannelShapes' BY DEF ChannelsInvariant, ChannelShapes, Quiet
<1>2. \A ch \in Channels : Chn!Stored(ch)' <=> Chn!Stored(ch) BY DEF Chn!Stored, Quiet
<1>3. Chn!SecretsStayPut'
  BY <1>2 DEF ChannelsInvariant, Chn!SecretsStayPut, Quiet
<1>4. Chn!EditsKeepSecrets'
  BY <1>2 DEF ChannelsInvariant, Chn!EditsKeepSecrets, Quiet
<1>5. Chn!AnsweredIsStored' BY DEF ChannelsInvariant, Chn!AnsweredIsStored, Quiet
<1>6. Chn!TiesHold'
  BY <1>2 DEF ChannelsInvariant, Chn!TiesHold, Chn!There, Quiet
<1>7. (OrdersAreGiven /\ OrdersKeepSecrets)' BY OrdersHold
<1> QED BY <1>1, <1>3, <1>4, <1>5, <1>6, <1>7 DEF ChannelsInvariant

\* An order that stays as it was, or waits to write.
LEMMA QuietOrder ==
    ASSUME ChannelsInvariant, Quiet, NEW c \in Clients,
           request'[c] \in {Chn!Idle, request[c], [request[c] EXCEPT !.step = "write"]}
    PROVE  OrderHolds(c)'
<1>1. OrderHolds(c) BY OrdersHold DEF ChannelsInvariant
<1>2. CASE request'[c] = Chn!Idle
  <2>1. Chn!Idle \notin RowOrders BY OrderSorts
  <2> QED BY <2>1, <1>2 DEF OrderHolds
<1>3. CASE request'[c] \in {request[c], [request[c] EXCEPT !.step = "write"]}
  <2> SUFFICES ASSUME request'[c] \in RowOrders PROVE OrderHolds(c)' BY DEF OrderHolds
  <2>1. request[c] \in {Chn!Idle} \cup RowOrders \cup TieOrders
    BY DEF ChannelsInvariant, ChannelShapes
  <2>2. request[c] \in RowOrders
    <3>1. CASE request'[c] = request[c] BY <3>1
    <3>2. CASE request'[c] # request[c]
      <4>1. request'[c] = [request[c] EXCEPT !.step = "write"] BY <3>2, <1>3
      <4>2. "kind" \in DOMAIN request'[c] /\ request'[c].kind \in {"create", "update"}
        BY DEF RowOrders
      <4>3. "kind" \in DOMAIN request[c] BY <4>1, <4>2
      <4>4. request[c].kind \in {"create", "update"} BY <4>1, <4>2
      <4>5. request[c] # Chn!Idle BY <4>3 DEF Chn!Idle
      <4> QED BY <2>1, <4>4, <4>5, OrderSorts
    <3> QED BY <3>1, <3>2
  <2>3. /\ request'[c].of = request[c].of /\ request'[c].row = request[c].row
        /\ request'[c].kind = request[c].kind /\ request'[c].body = request[c].body
        /\ request[c].of \in Channels
    <3>1. CASE request'[c] = request[c] BY <3>1, <2>2 DEF RowOrders
    <3>2. CASE request'[c] # request[c]
      <4>1. request'[c] = [request[c] EXCEPT !.step = "write"] BY <3>2, <1>3
      <4> QED BY <4>1, <2>2 DEF RowOrders
    <3> QED BY <3>1, <3>2
  <2>4. Chn!Valid(request'[c].row) = Chn!Valid(request[c].row) BY <2>3
  <2>5. Chn!SecretAfter(request[c].of, request[c])' = Chn!SecretAfter(request[c].of, request[c])
    BY <2>3 DEF Chn!SecretAfter, Quiet
  <2>6. Chn!Stored(request[c].of)' <=> Chn!Stored(request[c].of) BY <2>3 DEF Chn!Stored, Quiet
  <2> QED BY <1>1, <2>2, <2>3, <2>4, <2>5, <2>6 DEF OrderHolds, Quiet, Chn!Stored
<1> QED BY <1>2, <1>3

\* A request begins: any other about the channel crosses it from then on.
LEMMA OrderBegins ==
    ASSUME ChannelsInvariant, NEW c \in Clients, NEW ch \in Channels, Chn!Begins(c, ch),
           DOMAIN given' = Channels, \A x \in Channels : given[x] \subseteq given'[x],
           NEW r \in RowOrders \cup TieOrders, r.of = ch,
           request' = [request EXCEPT ![c] = r],
           r \in RowOrders =>
               /\ Chn!Valid(r.row)
               /\ r.row.secret # None => <<r.row.kind, r.row.host, r.row.secret>> \in given'[ch]
               /\ ~crossed[ch] /\ (r.kind = "update" => Chn!Stored(ch))
                  => r.row.secret = Chn!SecretAfter(ch, r)
    PROVE  ChannelsInvariant'
<1>1. ChannelShapes BY DEF ChannelsInvariant
<1>2. Quiet BY <1>1 DEF Quiet, Chn!Begins, ChannelShapes
<1>3. request' \in [Clients -> {Chn!Idle} \cup RowOrders \cup TieOrders]
  BY <1>1 DEF ChannelShapes
<1>4. request'[c] = r /\ \A d \in Clients : d # c => request'[d] = request[d]
  BY <1>1 DEF ChannelShapes
<1>5. /\ crossed'[ch] <=> crossed[ch] \/ Chn!InCourse(ch) # {}
      /\ \A x \in Channels : x # ch => crossed'[x] = crossed[x]
  BY <1>1 DEF Chn!Begins, ChannelShapes
<1>6. \A d \in Clients : request[d] # Chn!Idle /\ request[d].of = ch => d \in Chn!InCourse(ch)
  <2> TAKE d \in Clients
  <2>1. request[d] \in {Chn!Idle} \cup RowOrders \cup TieOrders BY <1>1 DEF ChannelShapes
  <2> QED BY <2>1, OrderSorts DEF Chn!InCourse
<1>7. TwoCross'
  <2> SUFFICES ASSUME NEW x \in Clients, NEW y \in Clients, x # y,
                      request'[x] # Chn!Idle, request'[y] # Chn!Idle,
                      request'[x].of = request'[y].of
               PROVE  crossed'[request'[x].of]
    BY DEF TwoCross
  <2>1. CASE x # c /\ y # c
    <3>1. crossed[request[x].of]
      BY <2>1, <1>4 DEF ChannelsInvariant, TwoCross
    <3>2. request[x].of \in Channels
      <4>1. request[x] \in RowOrders \cup TieOrders BY <2>1, <1>4, <1>1 DEF ChannelShapes
      <4> QED BY <4>1 DEF RowOrders, TieOrders
    <3> QED BY <3>1, <3>2, <2>1, <1>2, <1>4 DEF Quiet
  <2>2. CASE x = c
    <3>1. y \in Chn!InCourse(ch) BY <2>2, <1>4, <1>6
    <3> QED BY <3>1, <2>2, <1>4, <1>5
  <2>3. CASE y = c
    <3>1. x \in Chn!InCourse(ch) BY <2>3, <1>4, <1>6
    <3> QED BY <3>1, <2>3, <1>4, <1>5
  <2> QED BY <2>1, <2>2, <2>3
<1>8. \A d \in Clients : OrderHolds(d)'
  <2> TAKE d \in Clients
  <2>1. CASE d # c BY <2>1, <1>2, <1>4, QuietOrder
  <2>2. CASE d = c
    <3>1. Chn!SecretAfter(ch, r)' = Chn!SecretAfter(ch, r)
      BY <1>2 DEF Chn!SecretAfter, Quiet
    <3>2. Chn!Stored(ch)' <=> Chn!Stored(ch) BY <1>2 DEF Chn!Stored, Quiet
    <3>3. crossed[ch] => crossed'[ch] BY <1>5
    <3> QED BY <3>1, <3>2, <3>3, <2>2, <1>4 DEF OrderHolds, Chn!Stored, Chn!SecretAfter
  <2> QED BY <2>1, <2>2
<1> QED BY <1>2, <1>3, <1>7, <1>8, QuietTables

LEMMA ChannelCreate ==
    ASSUME ChannelSorts, ChannelsInvariant, NEW c \in Clients, NEW ch \in Channels,
           NEW b \in Bodies, NEW ties \in Ties \cup {None}, Chn!Create(c, ch, b, ties)
    PROVE  ChannelsInvariant'
<1> DEFINE rec == Chn!Fresh(b)
           tells == IF ties = None THEN {} ELSE ties
           r == [step |-> "resolve", kind |-> "create", of |-> ch, body |-> b, row |-> rec,
                 ties |-> tells]
<1>1. /\ Chn!Begins(c, ch) /\ Chn!Gives(ch, Chn!Says("create", b), rec) /\ Chn!Valid(rec)
      /\ request' = [request EXCEPT ![c] = r]
  BY DEF Chn!Create, Chn!Goes
<1>2. b \in ChannelRows /\ b.secret \in ChannelSecrets /\ None \in ChannelSecrets
  BY DEF ChannelSorts, ChannelRows, ChannelSecrets
<1>3. /\ rec \in ChannelRows
      /\ rec.secret = IF b.secret = "omitted" THEN None ELSE b.secret
  BY <1>2 DEF Chn!Fresh, ChannelRows, Chn!Omitted
<1>4. Chn!Says("create", b) <=> b.secret # "omitted"
  BY DEF Chn!Says, Chn!Omitted
<1>5. tells \in SUBSET Tellable BY DEF ChannelSorts
<1>6. r \in RowOrders /\ r.of = ch /\ r.row = rec /\ r.body = b /\ r.kind = "create"
  <2> HIDE DEF rec, tells
  <2> QED BY <1>3, <1>5 DEF RowOrders
<1>7. /\ DOMAIN given' = Channels /\ \A x \in Channels : given[x] \subseteq given'[x]
      /\ rec.secret # None => <<rec.kind, rec.host, rec.secret>> \in given'[ch]
  <2>1. DOMAIN given = Channels BY DEF ChannelsInvariant, ChannelShapes
  <2>2. rec.secret # None => Chn!Says("create", b) BY <1>3, <1>4
  <2> HIDE DEF rec, r
  <2> QED BY <1>1, <2>1, <2>2 DEF Chn!Gives
<1>8. rec.secret = Chn!SecretAfter(ch, r)
  <2> HIDE DEF rec, r
  <2>1. CASE b.secret = "omitted"
    <3>1. ~ Chn!Says(r.kind, r.body) BY <2>1, <1>4, <1>6
    <3>2. r.body.secret # Chn!Masked BY <2>1, <1>6 DEF Chn!Masked
    <3>3. Chn!SecretAfter(ch, r) = None BY <3>1, <3>2, <1>6 DEF Chn!SecretAfter
    <3> QED BY <3>3, <2>1, <1>3
  <2>2. CASE b.secret # "omitted"
    <3>1. Chn!Says(r.kind, r.body) BY <2>2, <1>4, <1>6
    <3>2. Chn!SecretAfter(ch, r) = b.secret BY <3>1, <1>6 DEF Chn!SecretAfter
    <3> QED BY <3>2, <2>2, <1>3
  <2> QED BY <2>1, <2>2
<1> HIDE DEF rec, r
<1> QED BY <1>1, <1>6, <1>7, <1>8, OrderBegins

LEMMA ChannelUpdate ==
    ASSUME ChannelSorts, ChannelsInvariant, NEW c \in Clients, NEW ch \in Channels,
           NEW b \in Bodies, NEW ties \in Ties \cup {None}, Chn!Update(c, ch, b, ties)
    PROVE  ChannelsInvariant'
<1> DEFINE rec == Chn!Carry(b, channel[ch])
           r == [step |-> IF ties = None THEN "write" ELSE "resolve", kind |-> "update",
                 of |-> ch, body |-> b, row |-> rec, ties |-> ties]
<1>1. /\ Chn!Begins(c, ch) /\ Chn!Stored(ch)
      /\ IF Chn!Valid(rec)
           THEN Chn!Gives(ch, Chn!Says("update", b), rec) /\ request' = [request EXCEPT ![c] = r]
           ELSE UNCHANGED <<given, request>>
  BY DEF Chn!Update, Chn!Goes
<1>2. ChannelShapes BY DEF ChannelsInvariant
<1>3. CASE ~Chn!Valid(rec)
  <2>1. UNCHANGED <<given, request>> BY <1>1, <1>3
  <2>2. Quiet BY <2>1, <1>1, <1>2 DEF Quiet, Chn!Begins, ChannelShapes
  <2>3. \A d \in Clients : OrderHolds(d)' BY <2>1, <2>2, QuietOrder
  <2>4. TwoCross'
    <3> SUFFICES ASSUME NEW x \in Clients, NEW y \in Clients, x # y,
                        request[x] # Chn!Idle, request[y] # Chn!Idle,
                        request[x].of = request[y].of
                 PROVE  crossed'[request[x].of]
      BY <2>1 DEF TwoCross
    <3>1. crossed[request[x].of] BY DEF ChannelsInvariant, TwoCross
    <3>2. request[x] \in RowOrders \cup TieOrders BY <1>2 DEF ChannelShapes
    <3>3. request[x].of \in Channels BY <3>2 DEF RowOrders, TieOrders
    <3> QED BY <3>1, <3>3, <2>2 DEF Quiet
  <2>5. request' \in [Clients -> {Chn!Idle} \cup RowOrders \cup TieOrders]
    BY <2>1, <1>2 DEF ChannelShapes
  <2> QED BY <2>2, <2>3, <2>4, <2>5, QuietTables
<1>4. CASE Chn!Valid(rec)
  <2>1. channel[ch] \in ChannelRows BY <1>1, <1>2 DEF ChannelShapes, Chn!Stored
  <2>2. /\ rec \in ChannelRows /\ rec.kind = b.kind
        /\ ~ Chn!Says("update", b) /\ rec.secret # None =>
              rec.kind = channel[ch].kind /\ rec.host = channel[ch].host
              /\ rec.secret = channel[ch].secret
        /\ Chn!Says("update", b) => rec.secret = b.secret
        /\ ~ Chn!Says("update", b) /\ b.secret = "masked" => rec.secret = channel[ch].secret
        /\ b.secret = "omitted" =>
              rec.secret = IF b.kind = "webhook" \/ (b.kind = "email" /\ b.plain)
                              \/ channel[ch].kind # b.kind
                             THEN None ELSE channel[ch].secret
    BY <2>1, <1>4, CarriedOver
  <2>3. ties \in (SUBSET Tellable) \cup {None} BY DEF ChannelSorts
  <2>4. r \in RowOrders /\ r.of = ch /\ r.row = rec /\ r.body = b /\ r.kind = "update"
    <3> HIDE DEF rec
    <3> QED BY <2>2, <2>3 DEF RowOrders
  <2>5. Chn!Gives(ch, Chn!Says("update", b), rec) /\ request' = [request EXCEPT ![c] = r] BY <1>1, <1>4
  <2>6. /\ DOMAIN given' = Channels /\ \A x \in Channels : given[x] \subseteq given'[x]
        /\ rec.secret # None => <<rec.kind, rec.host, rec.secret>> \in given'[ch]
    <3>1. DOMAIN given = Channels BY <1>2 DEF ChannelShapes
    <3>2. channel[ch].secret # None =>
            <<channel[ch].kind, channel[ch].host, channel[ch].secret>> \in given[ch]
      BY <1>1 DEF ChannelsInvariant, Chn!SecretsStayPut
    <3> HIDE DEF rec, r
    <3>3. DOMAIN given' = Channels /\ \A x \in Channels : given[x] \subseteq given'[x]
      BY <2>5, <3>1 DEF Chn!Gives
    <3>4. CASE ~ Chn!Says("update", b) BY <3>2, <3>3, <3>4, <2>2
    <3>5. CASE Chn!Says("update", b) BY <3>1, <3>5, <2>5 DEF Chn!Gives
    <3> QED BY <3>3, <3>4, <3>5
  <2>7. ~crossed[ch] => rec.secret = Chn!SecretAfter(ch, r)
    <3> HIDE DEF rec, r
    <3> SUFFICES ASSUME ~crossed[ch] PROVE rec.secret = Chn!SecretAfter(ch, r) OBVIOUS
    <3>1. channel[ch].secret = secret[ch]
      BY <1>1 DEF ChannelsInvariant, Chn!EditsKeepSecrets
    <3>5. r.kind = "update" /\ r.body = b BY <2>4
    <3>2. CASE Chn!Says("update", b)
      <4>1. Chn!SecretAfter(ch, r) = b.secret BY <3>2, <3>5 DEF Chn!SecretAfter
      <4> QED BY <4>1, <3>2, <2>2
    <3>3. CASE ~ Chn!Says("update", b) /\ b.secret = "masked"
      <4>1. Chn!SecretAfter(ch, r) = secret[ch]
        BY <3>3, <3>5 DEF Chn!SecretAfter, Chn!Masked
      <4> QED BY <4>1, <3>1, <3>3, <2>2
    <3>4. CASE ~ Chn!Says("update", b) /\ b.secret # "masked"
      <4>1. b.secret = "omitted" BY <3>4 DEF Chn!Says, Chn!Omitted, Chn!Masked
      <4>2. Chn!SecretAfter(ch, r) =
              IF b.kind = "webhook" \/ (b.kind = "email" /\ b.plain) \/ channel[ch].kind # b.kind
                THEN None ELSE secret[ch]
        BY <3>4, <3>5 DEF Chn!SecretAfter, Chn!Masked
      <4> QED BY <4>1, <4>2, <3>1, <2>2
    <3> QED BY <3>2, <3>3, <3>4
  <2> HIDE DEF rec, r
  <2> QED BY <1>1, <1>4, <2>4, <2>5, <2>6, <2>7, OrderBegins
<1> QED BY <1>3, <1>4

LEMMA ChannelTie ==
    ASSUME ChannelsInvariant, NEW c \in Clients, NEW ch \in Channels,
           NEW step \in {"resolve", "write"}, NEW kind \in {"targets", "link", "unlink"},
           NEW ties \in SUBSET Tellable, Chn!Tie(c, ch, step, kind, ties)
    PROVE  ChannelsInvariant'
<1> DEFINE r == [step |-> step, kind |-> kind, of |-> ch, row |-> Chn!NoRow, ties |-> ties]
<1>1. Chn!Begins(c, ch) /\ UNCHANGED given /\ request' = [request EXCEPT ![c] = r]
  BY DEF Chn!Tie, Chn!Goes
<1>2. r \in TieOrders /\ r.of = ch BY DEF TieOrders
<1>3. r \notin RowOrders BY <1>2, OrderSorts
<1>4. DOMAIN given' = Channels /\ \A x \in Channels : given[x] \subseteq given'[x]
  BY <1>1 DEF ChannelsInvariant, ChannelShapes
<1> HIDE DEF r
<1> QED BY <1>1, <1>2, <1>3, <1>4, OrderBegins

LEMMA ChannelResolve ==
    ASSUME ChannelsInvariant, NEW c \in Clients, Chn!Resolve(c)
    PROVE  ChannelsInvariant'
<1>1. ChannelShapes BY DEF ChannelsInvariant
<1>2. Quiet BY <1>1 DEF Chn!Resolve, Quiet, ChannelShapes
<1>3. PICK r \in {Chn!Idle, [request[c] EXCEPT !.step = "write"]} :
         request' = [request EXCEPT ![c] = r]
  BY DEF Chn!Resolve, Chn!Goes
<1>4. request[c] \in RowOrders \cup TieOrders
  <2>1. request[c].step # "idle" BY DEF Chn!Resolve
  <2>2. request[c] \in {Chn!Idle} \cup RowOrders \cup TieOrders BY <1>1 DEF ChannelShapes
  <2> QED BY <2>1, <2>2 DEF Chn!Idle
<1>5. r = Chn!Idle \/ (r \in RowOrders \cup TieOrders /\ r.of = request[c].of)
  <2>1. CASE r = Chn!Idle BY <2>1
  <2>2. CASE r = [request[c] EXCEPT !.step = "write"]
    <3>1. CASE request[c] \in RowOrders BY <3>1, <2>2 DEF RowOrders
    <3>2. CASE request[c] \in TieOrders BY <3>2, <2>2 DEF TieOrders
    <3> QED BY <3>1, <3>2, <1>4
  <2> QED BY <2>1, <2>2
<1>6. request'[c] = r /\ \A d \in Clients : d # c => request'[d] = request[d]
  BY <1>1, <1>3 DEF ChannelShapes
<1>7. request' \in [Clients -> {Chn!Idle} \cup RowOrders \cup TieOrders]
  BY <1>1, <1>3, <1>5 DEF ChannelShapes
<1>8. \A d \in Clients : OrderHolds(d)' BY <1>2, <1>3, <1>6, QuietOrder
<1>9. TwoCross'
  <2> SUFFICES ASSUME NEW x \in Clients, NEW y \in Clients, x # y,
                      request'[x] # Chn!Idle, request'[y] # Chn!Idle,
                      request'[x].of = request'[y].of
               PROVE  crossed'[request'[x].of]
    BY DEF TwoCross
  <2>1. Chn!Idle \notin RowOrders \cup TieOrders BY OrderSorts
  <2>2. \A d \in {x, y} : request[d] # Chn!Idle /\ request'[d].of = request[d].of
    BY <1>4, <1>5, <1>6, <2>1
  <2> QED BY <2>2, <1>2 DEF ChannelsInvariant, TwoCross, Chn!Resolve
<1> QED BY <1>2, <1>7, <1>8, <1>9, QuietTables

\* Once a request is over, those that are left cross as they did.
LEMMA OverKeepsCrossing ==
    ASSUME ChannelsInvariant, NEW c \in Clients, request' = [request EXCEPT ![c] = Chn!Idle],
           crossed' = crossed
    PROVE  /\ request' \in [Clients -> {Chn!Idle} \cup RowOrders \cup TieOrders]
           /\ request'[c] = Chn!Idle /\ \A d \in Clients : d # c => request'[d] = request[d]
           /\ TwoCross'
<1>1. request \in [Clients -> {Chn!Idle} \cup RowOrders \cup TieOrders] /\ TwoCross
  BY DEF ChannelsInvariant, ChannelShapes
<1>2. /\ request' \in [Clients -> {Chn!Idle} \cup RowOrders \cup TieOrders]
      /\ request'[c] = Chn!Idle /\ \A d \in Clients : d # c => request'[d] = request[d]
  BY <1>1
<1>3. TwoCross' BY <1>1, <1>2 DEF TwoCross
<1> QED BY <1>2, <1>3

LEMMA ChannelWriteRow ==
    ASSUME ChannelSorts, ChannelsInvariant, NEW c \in Clients, Chn!WriteRow(c)
    PROVE  ChannelsInvariant'
<1>1. ChannelShapes BY DEF ChannelsInvariant
<1>2. PICK r \in RowOrders : r = request[c] /\ r # Chn!Idle
  <2>1. request[c] \in {Chn!Idle} \cup RowOrders \cup TieOrders BY <1>1 DEF ChannelShapes
  <2>2. request[c].step = "write" /\ request[c].kind \in {"create", "update"}
    BY DEF Chn!WriteRow
  <2>3. request[c] # Chn!Idle BY <2>2 DEF Chn!Idle
  <2> QED BY <2>1, <2>2, <2>3, OrderSorts
<1>3. PICK ch \in Channels : ch = r.of BY DEF RowOrders
<1>4. /\ r.row \in ChannelRows /\ r.ties \in (SUBSET Tellable) \cup {None} /\ r.body \in Bodies
      /\ r.kind \in {"create", "update"}
  BY DEF RowOrders
<1> DEFINE does == /\ IF r.kind = "create" THEN channel[ch] = None ELSE Chn!Stored(ch)
                   /\ r.ties # None => \A t \in r.ties : Chn!There(t)
<1>5. PICK works \in BOOLEAN : works <=> does OBVIOUS
<1>6. /\ request' = [request EXCEPT ![c] = Chn!Idle]
      /\ UNCHANGED <<place, over, requests, edits, given, crossed>>
      /\ works => /\ channel' = [channel EXCEPT ![ch] = r.row]
                  /\ answered' = [answered EXCEPT ![ch] = r.row]
                  /\ secret' = [secret EXCEPT ![ch] = Chn!SecretAfter(ch, r)]
                  /\ tied' = [tied EXCEPT ![ch] = IF r.ties # None THEN r.ties ELSE @]
      /\ ~works => UNCHANGED <<channel, answered, secret, tied>>
  <2>1. /\ request' = [request EXCEPT ![c] = Chn!Idle]
        /\ channel' = [channel EXCEPT ![ch] = IF Chn!Stored(ch) \/ r.kind = "create"
                                                THEN Chn!Kept(does, @, r.row) ELSE @]
        /\ tied' = [tied EXCEPT ![ch] = IF does /\ r.ties # None THEN r.ties ELSE @]
        /\ secret' = [secret EXCEPT ![ch] = IF does THEN Chn!SecretAfter(ch, r) ELSE @]
        /\ answered' = [answered EXCEPT ![ch] = IF does THEN r.row ELSE @]
        /\ UNCHANGED <<place, over, requests, edits, given, crossed>>
    BY <1>2, <1>3 DEF Chn!WriteRow, Chn!Goes
  <2>2. CASE does
    <3>1. Chn!Kept(does, channel[ch], r.row) = r.row BY <2>2 DEF Chn!Kept
    <3>2. Chn!Stored(ch) \/ r.kind = "create" BY <2>2
    <3>3. channel' = [channel EXCEPT ![ch] = r.row] BY <2>1, <3>1, <3>2
    <3> QED BY <2>1, <2>2, <3>3, <1>5
  <2>3. CASE ~does
    <3>1. Chn!Kept(does, channel[ch], r.row) = channel[ch] BY <2>3 DEF Chn!Kept
    <3>2. channel' = [channel EXCEPT ![ch] = channel[ch]] BY <2>1, <3>1
    <3>3. channel' = channel BY <3>2, <1>1 DEF ChannelShapes
    <3>4. answered' = answered /\ secret' = secret /\ tied' = tied
      BY <2>1, <2>3, <1>1 DEF ChannelShapes
    <3> QED BY <2>1, <2>3, <3>3, <3>4, <1>5
  <2> QED BY <2>2, <2>3
<1>7. /\ request' \in [Clients -> {Chn!Idle} \cup RowOrders \cup TieOrders]
      /\ request'[c] = Chn!Idle /\ \A d \in Clients : d # c => request'[d] = request[d]
      /\ TwoCross'
  BY <1>6, OverKeepsCrossing
<1>8. works => /\ IF r.kind = "create" THEN channel[ch] = None ELSE Chn!Stored(ch)
               /\ r.ties # None => \A t \in r.ties : Chn!There(t)
  BY <1>5
<1> HIDE DEF does
<1>9. OrderHolds(c) BY OrdersHold DEF ChannelsInvariant
<1>10. works => channel'[ch] = r.row /\ answered'[ch] = r.row
                /\ secret'[ch] = Chn!SecretAfter(ch, r)
                /\ tied'[ch] = IF r.ties # None THEN r.ties ELSE tied[ch]
  BY <1>1, <1>6 DEF ChannelShapes
<1>11. \A x \in Channels : x # ch \/ ~works =>
          /\ channel'[x] = channel[x] /\ answered'[x] = answered[x] /\ secret'[x] = secret[x]
          /\ tied'[x] = tied[x]
  BY <1>1, <1>6 DEF ChannelShapes
<1>12. /\ works => Chn!Stored(ch)'
       /\ \A x \in Channels : x # ch \/ ~works => (Chn!Stored(x)' <=> Chn!Stored(x))
  <2>1. r.row \notin {None, Gone} BY <1>4 DEF ChannelSorts
  <2> QED BY <2>1, <1>10, <1>11 DEF Chn!Stored
<1>13. works /\ ~crossed[ch] => Chn!SecretAfter(ch, r) = r.row.secret
  BY <1>2, <1>3, <1>4, <1>8, <1>9 DEF OrderHolds
<1>14. Chn!SecretAfter(ch, r) \in ChannelSecrets
  <2>1. r.body.secret \in ChannelSecrets /\ None \in ChannelSecrets BY <1>4 DEF ChannelSecrets
  <2>2. secret[ch] \in ChannelSecrets BY <1>1 DEF ChannelShapes
  <2>3. CASE Chn!Says(r.kind, r.body) BY <2>1, <2>3 DEF Chn!SecretAfter
  <2>4. CASE ~ Chn!Says(r.kind, r.body) /\ r.body.secret = Chn!Masked
    BY <2>2, <2>4 DEF Chn!SecretAfter
  <2>5. CASE ~ Chn!Says(r.kind, r.body) /\ r.body.secret # Chn!Masked
    BY <2>1, <2>2, <2>5 DEF Chn!SecretAfter
  <2> QED BY <2>3, <2>4, <2>5
<1>15. ChannelShapes'
  <2>1. channel' \in [Channels -> ChannelRows \cup {None, Gone}]
    BY <1>1, <1>4, <1>6 DEF ChannelShapes
  <2>2. answered' \in [Channels -> ChannelRows \cup {None, Gone}]
    BY <1>1, <1>4, <1>6 DEF ChannelShapes
  <2>3. tied' \in [Channels -> SUBSET Tellable] BY <1>1, <1>4, <1>6 DEF ChannelShapes
  <2>4. secret' \in [Channels -> ChannelSecrets] BY <1>1, <1>6, <1>14 DEF ChannelShapes
  <2> QED BY <2>1, <2>2, <2>3, <2>4, <1>1, <1>6, <1>7 DEF ChannelShapes
<1>16. Chn!SecretsStayPut'
  <2> SUFFICES ASSUME NEW x \in Channels, Chn!Stored(x)', channel'[x].secret # None
               PROVE  <<channel'[x].kind, channel'[x].host, channel'[x].secret>> \in given[x]
    BY <1>6 DEF Chn!SecretsStayPut, Chn!Stored
  <2>1. CASE x = ch /\ works BY <2>1, <1>2, <1>3, <1>9, <1>10 DEF OrderHolds
  <2>2. CASE ~(x = ch /\ works)
    BY <2>2, <1>11, <1>12 DEF ChannelsInvariant, Chn!SecretsStayPut
  <2> QED BY <2>1, <2>2
<1>17. Chn!EditsKeepSecrets'
  <2> SUFFICES ASSUME NEW x \in Channels, Chn!Stored(x)', ~crossed[x]
               PROVE  channel'[x].secret = secret'[x]
    BY <1>6 DEF Chn!EditsKeepSecrets, Chn!Stored
  <2>1. CASE x = ch /\ works BY <2>1, <1>10, <1>13
  <2>2. CASE ~(x = ch /\ works)
    BY <2>2, <1>11, <1>12 DEF ChannelsInvariant, Chn!EditsKeepSecrets
  <2> QED BY <2>1, <2>2
<1>18. Chn!AnsweredIsStored'
  <2> SUFFICES ASSUME NEW x \in Channels PROVE channel'[x] = answered'[x]
    BY DEF Chn!AnsweredIsStored
  <2>1. channel[x] = answered[x] BY DEF ChannelsInvariant, Chn!AnsweredIsStored
  <2> QED BY <2>1, <1>10, <1>11
<1>19. Chn!TiesHold'
  <2> SUFFICES ASSUME NEW x \in Channels, tied'[x] # {}
               PROVE  Chn!Stored(x)' /\ \A t \in tied'[x] : Chn!There(t)'
    BY DEF Chn!TiesHold
  <2>1. \A t : Chn!There(t)' <=> Chn!There(t) BY <1>6 DEF Chn!There
  <2>2. CASE x = ch /\ works /\ r.ties # None BY <2>1, <2>2, <1>8, <1>10, <1>12
  <2>3. CASE ~(x = ch /\ works /\ r.ties # None)
    <3>1. tied'[x] = tied[x] /\ (Chn!Stored(x) => Chn!Stored(x)')
      BY <2>3, <1>10, <1>11, <1>12
    <3> QED BY <3>1, <2>1 DEF ChannelsInvariant, Chn!TiesHold
  <2> QED BY <2>2, <2>3
<1>20. \A d \in Clients : OrderHolds(d)'
  <2> SUFFICES ASSUME NEW d \in Clients, request'[d] \in RowOrders PROVE OrderHolds(d)'
    BY DEF OrderHolds
  <2>1. d # c /\ request'[d] = request[d] /\ request[d] # Chn!Idle
    <3>1. Chn!Idle \notin RowOrders BY OrderSorts
    <3> QED BY <3>1, <1>7
  <2>2. OrderHolds(d) BY OrdersHold DEF ChannelsInvariant
  <2>3. PICK x \in Channels : x = request[d].of BY <2>1 DEF RowOrders
  <2>4. CASE x = ch
    <3>1. crossed[ch] BY <2>1, <2>3, <2>4, <1>2, <1>3 DEF ChannelsInvariant, TwoCross
    <3> QED BY <3>1, <2>1, <2>2, <2>3, <2>4, <1>6 DEF OrderHolds
  <2>5. CASE x # ch
    <3>1. /\ channel'[x] = channel[x] /\ secret'[x] = secret[x]
          /\ Chn!Stored(x)' <=> Chn!Stored(x)
      BY <2>5, <1>11, <1>12
    <3>2. PICK q \in RowOrders : q = request[d] BY <2>1
    <3>3. Chn!SecretAfter(x, q)' = Chn!SecretAfter(x, q) BY <3>1 DEF Chn!SecretAfter
    <3> QED BY <3>1, <3>2, <3>3, <2>1, <2>2, <2>3, <1>6
            DEF OrderHolds, Chn!SecretAfter, Chn!Stored
  <2> QED BY <2>4, <2>5
<1>21. (OrdersAreGiven /\ OrdersKeepSecrets)' BY <1>20, OrdersHold
<1> QED BY <1>7, <1>15, <1>16, <1>17, <1>18, <1>19, <1>21 DEF ChannelsInvariant

\* What a step leaves of a channel that it does not write.
LEMMA OrdersOfOthers ==
    ASSUME ChannelsInvariant, UNCHANGED <<channel, secret, given, crossed>>,
           NEW d \in Clients, request'[d] \in {Chn!Idle, request[d]}
    PROVE  OrderHolds(d)'
<1>1. OrderHolds(d) BY OrdersHold DEF ChannelsInvariant
<1>2. CASE request'[d] = Chn!Idle
  <2>1. Chn!Idle \notin RowOrders BY OrderSorts
  <2> QED BY <2>1, <1>2 DEF OrderHolds
<1>3. CASE request'[d] = request[d]
  <2> SUFFICES ASSUME request[d] \in RowOrders PROVE OrderHolds(d)'
    BY <1>3 DEF OrderHolds
  <2>1. PICK q \in RowOrders : q = request[d] OBVIOUS
  <2>2. /\ Chn!SecretAfter(q.of, q)' = Chn!SecretAfter(q.of, q)
        /\ Chn!Stored(q.of)' <=> Chn!Stored(q.of)
    BY DEF Chn!SecretAfter, Chn!Stored
  <2> QED BY <1>1, <1>3, <2>1, <2>2 DEF OrderHolds, Chn!SecretAfter, Chn!Stored
<1> QED BY <1>2, <1>3

LEMMA ChannelWriteTies ==
    ASSUME ChannelSorts, ChannelsInvariant, NEW c \in Clients, Chn!WriteTies(c)
    PROVE  ChannelsInvariant'
<1>1. ChannelShapes BY DEF ChannelsInvariant
<1>2. PICK r \in TieOrders : r = request[c]
  <2>1. request[c] \in {Chn!Idle} \cup RowOrders \cup TieOrders BY <1>1 DEF ChannelShapes
  <2>2. request[c].step = "write" /\ request[c].kind \in {"targets", "link", "unlink"}
    BY DEF Chn!WriteTies
  <2>3. request[c] # Chn!Idle BY <2>2 DEF Chn!Idle
  <2> QED BY <2>1, <2>2, <2>3, OrderSorts
<1>3. PICK ch \in Channels : ch = r.of BY DEF TieOrders
<1>4. r.ties \in SUBSET Tellable /\ r.kind \in {"targets", "link", "unlink"} BY DEF TieOrders
<1> DEFINE does == Chn!Stored(ch) /\ \A t \in r.ties : Chn!There(t)
           after == IF does \/ r.kind = "unlink" THEN Chn!TiesAfter(r, tied[ch]) ELSE tied[ch]
<1>5. /\ request' = [request EXCEPT ![c] = Chn!Idle]
      /\ UNCHANGED <<channel, place, over, requests, edits, given, secret, answered, crossed>>
      /\ tied' = [tied EXCEPT ![ch] = after]
  BY <1>2, <1>3 DEF Chn!WriteTies, Chn!Goes
<1>6. /\ request' \in [Clients -> {Chn!Idle} \cup RowOrders \cup TieOrders]
      /\ request'[c] = Chn!Idle /\ \A d \in Clients : d # c => request'[d] = request[d]
      /\ TwoCross'
  BY <1>5, OverKeepsCrossing
<1>7. tied[ch] \in SUBSET Tellable BY <1>1 DEF ChannelShapes
<1>8. /\ r.kind = "unlink" => Chn!TiesAfter(r, tied[ch]) = tied[ch] \ r.ties
      /\ r.kind = "link" => Chn!TiesAfter(r, tied[ch]) = tied[ch] \cup r.ties
      /\ r.kind = "targets" => Chn!TiesAfter(r, tied[ch]) = r.ties
  BY DEF Chn!TiesAfter
<1>9. after \in SUBSET Tellable /\ (after \subseteq tied[ch] \/ (does /\ after \subseteq tied[ch] \cup r.ties))
  BY <1>4, <1>7, <1>8
<1>10. PICK next \in SUBSET Tellable : next = after BY <1>9
<1>11. tied'[ch] = next /\ \A x \in Channels : x # ch => tied'[x] = tied[x]
  BY <1>1, <1>5, <1>10 DEF ChannelShapes
<1>12. ChannelShapes'
  <2>1. tied' \in [Channels -> SUBSET Tellable] BY <1>1, <1>5, <1>10 DEF ChannelShapes
  <2> QED BY <2>1, <1>1, <1>5, <1>6 DEF ChannelShapes
<1>13. Chn!SecretsStayPut' /\ Chn!EditsKeepSecrets' /\ Chn!AnsweredIsStored'
  BY <1>5 DEF ChannelsInvariant, Chn!SecretsStayPut, Chn!EditsKeepSecrets,
              Chn!AnsweredIsStored, Chn!Stored
<1>14. Chn!TiesHold'
  <2> SUFFICES ASSUME NEW x \in Channels, tied'[x] # {}
               PROVE  Chn!Stored(x)' /\ \A t \in tied'[x] : Chn!There(t)'
    BY DEF Chn!TiesHold
  <2>1. (\A t : Chn!There(t)' <=> Chn!There(t)) /\ (Chn!Stored(x)' <=> Chn!Stored(x))
    BY <1>5 DEF Chn!There, Chn!Stored
  <2>2. tied[x] # {} => Chn!Stored(x) /\ \A t \in tied[x] : Chn!There(t)
    BY DEF ChannelsInvariant, Chn!TiesHold
  <2>3. CASE x = ch
    <3>1. next \subseteq tied[ch] \/ (does /\ next \subseteq tied[ch] \cup r.ties)
      BY <1>9, <1>10
    <3> QED BY <3>1, <2>1, <2>2, <2>3, <1>11
  <2>4. CASE x # ch BY <2>1, <2>2, <2>4, <1>11
  <2> QED BY <2>3, <2>4
<1>15. \A d \in Clients : OrderHolds(d)' BY <1>5, <1>6, OrdersOfOthers
<1>16. (OrdersAreGiven /\ OrdersKeepSecrets)' BY <1>15, OrdersHold
<1> QED BY <1>6, <1>12, <1>13, <1>14, <1>16 DEF ChannelsInvariant

LEMMA ChannelDelete ==
    ASSUME ChannelSorts, ChannelsInvariant, NEW ch \in Channels, Chn!Delete(ch)
    PROVE  ChannelsInvariant'
<1>1. ChannelShapes BY DEF ChannelsInvariant
<1>2. /\ channel' = [channel EXCEPT ![ch] = Gone] /\ tied' = [tied EXCEPT ![ch] = {}]
      /\ answered' = [answered EXCEPT ![ch] = Gone]
      /\ UNCHANGED <<place, over, request, requests, given, secret, crossed>>
  BY DEF Chn!Delete
<1>3. /\ channel'[ch] = Gone /\ tied'[ch] = {} /\ answered'[ch] = Gone
      /\ \A x \in Channels : x # ch => /\ channel'[x] = channel[x] /\ tied'[x] = tied[x]
                                       /\ answered'[x] = answered[x]
  BY <1>1, <1>2 DEF ChannelShapes
<1>4. ~Chn!Stored(ch)' /\ \A x \in Channels : x # ch => (Chn!Stored(x)' <=> Chn!Stored(x))
  BY <1>3 DEF Chn!Stored
<1>5. ChannelShapes'
  <2>1. channel' \in [Channels -> ChannelRows \cup {None, Gone}] BY <1>1, <1>2 DEF ChannelShapes
  <2>2. answered' \in [Channels -> ChannelRows \cup {None, Gone}] BY <1>1, <1>2 DEF ChannelShapes
  <2>3. tied' \in [Channels -> SUBSET Tellable] BY <1>1, <1>2 DEF ChannelShapes
  <2> QED BY <2>1, <2>2, <2>3, <1>1, <1>2 DEF ChannelShapes
<1>6. Chn!SecretsStayPut'
  BY <1>2, <1>3, <1>4 DEF ChannelsInvariant, Chn!SecretsStayPut, Chn!Stored
<1>7. Chn!EditsKeepSecrets'
  BY <1>2, <1>3, <1>4 DEF ChannelsInvariant, Chn!EditsKeepSecrets, Chn!Stored
<1>8. Chn!AnsweredIsStored' BY <1>3 DEF ChannelsInvariant, Chn!AnsweredIsStored
<1>9. Chn!TiesHold'
  BY <1>2, <1>3, <1>4 DEF ChannelsInvariant, Chn!TiesHold, Chn!Stored, Chn!There
<1>10. TwoCross' BY <1>2 DEF ChannelsInvariant, TwoCross
<1>11. \A d \in Clients : OrderHolds(d)'
  <2> SUFFICES ASSUME NEW d \in Clients, request[d] \in RowOrders PROVE OrderHolds(d)'
    BY <1>2 DEF OrderHolds
  <2>1. OrderHolds(d) BY OrdersHold DEF ChannelsInvariant
  <2>2. PICK q \in RowOrders : q = request[d] OBVIOUS
  <2>3. PICK x \in Channels : x = q.of BY DEF RowOrders
  <2>4. CASE x # ch
    <3>1. Chn!SecretAfter(x, q)' = Chn!SecretAfter(x, q)
      BY <2>4, <1>2, <1>3 DEF Chn!SecretAfter
    <3> QED BY <3>1, <2>1, <2>2, <2>3, <2>4, <1>2, <1>3, <1>4
            DEF OrderHolds, Chn!SecretAfter, Chn!Stored
  <2>5. CASE x = ch /\ q.kind = "update"
    BY <2>1, <2>2, <2>3, <2>5, <1>2, <1>4 DEF OrderHolds
  <2>6. CASE x = ch /\ q.kind # "update"
    <3>1. q.kind = "create" BY <2>6 DEF RowOrders
    <3>2. Chn!SecretAfter(x, q)' = Chn!SecretAfter(x, q)
      BY <3>1, <1>2 DEF Chn!SecretAfter
    <3> QED BY <3>1, <3>2, <2>1, <2>2, <2>3, <1>2 DEF OrderHolds, Chn!SecretAfter
  <2> QED BY <2>4, <2>5, <2>6
<1>12. (OrdersAreGiven /\ OrdersKeepSecrets)' BY <1>11, OrdersHold
<1> QED BY <1>5, <1>6, <1>7, <1>8, <1>9, <1>10, <1>12 DEF ChannelsInvariant

\* A monitor or a group goes, and the rows that tie a channel to it.
LEMMA ChannelLoses ==
    ASSUME ChannelSorts, ChannelsInvariant, NEW t \in Tellable, Chn!Loses(t),
           UNCHANGED <<channel, request, given, secret, answered, crossed>>,
           \/ t \in Monitors /\ place' = [place EXCEPT ![t] = Gone] /\ over' = over
           \/ t \in Groups /\ over' = [over EXCEPT ![t] = Gone] /\ place' = place
    PROVE  ChannelsInvariant'
<1>1. ChannelShapes BY DEF ChannelsInvariant
<1>2. tied' = [ch \in Channels |-> tied[ch] \ {t}] BY DEF Chn!Loses
<1>3. \A x \in Tellable : x # t => (Chn!There(x)' <=> Chn!There(x))
  BY <1>1 DEF Chn!There, ChannelShapes, ChannelSorts, Tellable
<1>4. ChannelShapes'
  <2>1. tied' \in [Channels -> SUBSET Tellable] BY <1>1, <1>2 DEF ChannelShapes
  <2>2. place' \in [Monitors -> Groups \cup {None, Gone}] BY <1>1 DEF ChannelShapes
  <2>3. over' \in [Groups -> Groups \cup {None, Gone}] BY <1>1 DEF ChannelShapes
  <2> QED BY <2>1, <2>2, <2>3, <1>1 DEF ChannelShapes
<1>5. Chn!SecretsStayPut' /\ Chn!EditsKeepSecrets' /\ Chn!AnsweredIsStored' /\ TwoCross'
  BY DEF ChannelsInvariant, Chn!SecretsStayPut, Chn!EditsKeepSecrets,
         Chn!AnsweredIsStored, Chn!Stored, TwoCross
<1>6. Chn!TiesHold'
  <2> SUFFICES ASSUME NEW ch \in Channels, tied'[ch] # {}
               PROVE  Chn!Stored(ch)' /\ \A x \in tied'[ch] : Chn!There(x)'
    BY DEF Chn!TiesHold
  <2>1. tied'[ch] = tied[ch] \ {t} /\ tied[ch] \subseteq Tellable
    BY <1>1, <1>2 DEF ChannelShapes
  <2>2. Chn!Stored(ch) /\ \A x \in tied[ch] : Chn!There(x)
    BY <2>1 DEF ChannelsInvariant, Chn!TiesHold
  <2>3. Chn!Stored(ch)' BY <2>2 DEF Chn!Stored
  <2> QED BY <2>1, <2>2, <2>3, <1>3
<1>7. \A d \in Clients : OrderHolds(d)' BY OrdersOfOthers
<1>8. (OrdersAreGiven /\ OrdersKeepSecrets)' BY <1>7, OrdersHold
<1> QED BY <1>4, <1>5, <1>6, <1>8 DEF ChannelsInvariant

LEMMA ChannelStep ==
    ASSUME ChannelSorts, ChannelsInvariant, [Chn!Next]_(Chn!vars)
    PROVE  ChannelsInvariant'
<1>1. ASSUME NEW c \in Clients, NEW ch \in Channels, NEW b \in Bodies,
             NEW ties \in Ties \cup {None}, Chn!Create(c, ch, b, ties)
      PROVE  ChannelsInvariant'
  BY <1>1, ChannelCreate
<1>2. ASSUME NEW c \in Clients, NEW ch \in Channels, NEW b \in Bodies,
             NEW ties \in Ties \cup {None}, Chn!Update(c, ch, b, ties)
      PROVE  ChannelsInvariant'
  BY <1>2, ChannelUpdate
<1>3. ASSUME NEW c \in Clients, NEW ch \in Channels, NEW ties \in Ties, Chn!Targets(c, ch, ties)
      PROVE  ChannelsInvariant'
  <2>1. ties \in SUBSET Tellable BY DEF ChannelSorts
  <2>2. Chn!Tie(c, ch, "resolve", "targets", ties) BY <1>3 DEF Chn!Targets
  <2> QED BY <2>1, <2>2, ChannelTie
<1>4. ASSUME NEW c \in Clients, NEW ch \in Channels, NEW t \in Monitors \cup Groups,
             NEW k \in {"link", "unlink"}, Chn!Link(c, ch, t, k)
      PROVE  ChannelsInvariant'
  <2>1. {t} \in SUBSET Tellable BY DEF Tellable
  <2>2. Chn!Tie(c, ch, "write", k, {t}) BY <1>4 DEF Chn!Link
  <2> QED BY <2>1, <2>2, ChannelTie
<1>5. ASSUME NEW c \in Clients, Chn!Resolve(c) PROVE ChannelsInvariant'
  BY <1>5, ChannelResolve
<1>6. ASSUME NEW c \in Clients, Chn!WriteRow(c) PROVE ChannelsInvariant'
  BY <1>6, ChannelWriteRow
<1>7. ASSUME NEW c \in Clients, Chn!WriteTies(c) PROVE ChannelsInvariant'
  BY <1>7, ChannelWriteTies
<1>8. ASSUME NEW ch \in Channels, Chn!Delete(ch) PROVE ChannelsInvariant'
  BY <1>8, ChannelDelete
<1>9. ASSUME NEW m \in Monitors, Chn!DeleteMonitor(m) PROVE ChannelsInvariant'
  <2>1. m \in Tellable BY DEF Tellable
  <2> QED BY <1>9, <2>1, ChannelLoses DEF Chn!DeleteMonitor
<1>10. ASSUME NEW g \in Groups, Chn!DeleteGroup(g) PROVE ChannelsInvariant'
  <2>1. g \in Tellable BY DEF Tellable
  <2> QED BY <1>10, <2>1, ChannelLoses DEF Chn!DeleteGroup
<1>11. CASE UNCHANGED Chn!vars
  <2>1. UNCHANGED <<channel, tied, place, over, request, given, secret, answered, crossed>>
    BY <1>11 DEF Chn!vars
  <2>2. Quiet BY <2>1 DEF Quiet, ChannelsInvariant, ChannelShapes
  <2>3. \A d \in Clients : OrderHolds(d)' BY <2>1, <2>2, QuietOrder
  <2>4. TwoCross' BY <2>1 DEF ChannelsInvariant, TwoCross
  <2>5. request' \in [Clients -> {Chn!Idle} \cup RowOrders \cup TieOrders]
    BY <2>1 DEF ChannelsInvariant, ChannelShapes
  <2> QED BY <2>2, <2>3, <2>4, <2>5, QuietTables
<1> QED BY <1>1, <1>2, <1>3, <1>4, <1>5, <1>6, <1>7, <1>8, <1>9, <1>10, <1>11 DEF Chn!Next

\* Every channel that tells of a monitor is in the list of an account that
\* reaches the monitor, but for one of a group above what it reaches.
LEMMA DestinationsListed == ASSUME ChannelShapes PROVE Chn!DestinationsAreListed
<1> SUFFICES ASSUME NEW grants \in SUBSET Groups, NEW m \in Monitors,
                    place[m] \in Chn!Reach(grants), NEW ch \in Chn!Destinations(m)
             PROVE  \/ ch \in Chn!ListFor(Chn!Reach(grants))
                    \/ over[place[m]] \in tied[ch] /\ over[place[m]] \notin Chn!Reach(grants)
  BY DEF Chn!DestinationsAreListed
<1>1. /\ ch \in Channels
      /\ \/ m \in tied[ch]
         \/ place[m] \in tied[ch] \cap Groups
         \/ over[place[m]] \in tied[ch] \cap Groups
  BY DEF Chn!Destinations
<1> QED BY <1>1 DEF Chn!ListFor

\* Through any number of requests about the channels and of deletions, a
\* request about a row has a complete one with a credential that was given for
\* its destination, and one no other crosses is about to write what its body
\* asks for (handleUpdateChannel, CarrySecrets, UpdateWithTargets).
THEOREM ChannelsKept == ASSUME ChannelSorts PROVE Chn!Spec => []ChannelsInvariant
<1>1. Chn!Init => ChannelsInvariant BY ChannelsStart
<1>2. ChannelsInvariant /\ [Chn!Next]_(Chn!vars) => ChannelsInvariant' BY ChannelStep
<1> QED BY <1>1, <1>2, PTL DEF Chn!Spec

\* A credential is used with a destination it was given for; an edit that says
\* nothing of it, and that no other crosses, keeps it; what a request was told
\* is what is stored; no tie is to what is gone; and who sees a monitor sees
\* the channels that tell of it (edit.go, CarrySecrets; sqlstore/incident.go,
\* UpdateWithTargets; access.go, visibleChannels).
THEOREM ChannelsAreSound == ASSUME ChannelSorts PROVE Chn!Spec => []Chn!ChannelsSound
<1>1. ChannelsInvariant => Chn!ChannelsSound
  <2> SUFFICES ASSUME ChannelsInvariant PROVE Chn!ChannelsSound OBVIOUS
  <2>1. Chn!DestinationsAreListed BY DestinationsListed DEF ChannelsInvariant
  <2> QED BY <2>1 DEF ChannelsInvariant, Chn!ChannelsSound
<1> QED BY <1>1, ChannelsKept, PTL

-----------------------------------------------------------------------------
(***************************************************************************)
(* Sets in the order of a relation, given as the set of its pairs.         *)
(***************************************************************************)
Orders(L, S) ==
    /\ \A a \in S : <<a, a>> \notin L
    /\ \A a, b, c \in S : <<a, b>> \in L /\ <<b, c>> \in L => <<a, c>> \in L
    /\ \A a, b \in S : a # b => <<a, b>> \in L \/ <<b, a>> \in L
Ahead(L, S, a) == {b \in S : <<b, a>> \in L}

\* Who comes later has more ahead.
LEMMA AheadGrows ==
    ASSUME NEW L, NEW S, IsFiniteSet(S), Orders(L, S), NEW a \in S, NEW b \in S, <<a, b>> \in L
    PROVE  /\ Cardinality(Ahead(L, S, a)) \in Nat /\ Cardinality(Ahead(L, S, b)) \in Nat
           /\ Cardinality(Ahead(L, S, a)) < Cardinality(Ahead(L, S, b))
<1>1. Ahead(L, S, a) \in SUBSET Ahead(L, S, b) /\ Ahead(L, S, b) \in SUBSET S
  BY DEF Ahead, Orders
<1>2. a \in Ahead(L, S, b) /\ a \notin Ahead(L, S, a)
  BY DEF Ahead, Orders
<1>3. IsFiniteSet(Ahead(L, S, b))
  BY <1>1, FS_Subset
<1>4. /\ IsFiniteSet(Ahead(L, S, a))
      /\ Cardinality(Ahead(L, S, a)) <= Cardinality(Ahead(L, S, b))
      /\ Cardinality(Ahead(L, S, b)) = Cardinality(Ahead(L, S, a)) => Ahead(L, S, b) = Ahead(L, S, a)
  BY <1>1, <1>3, FS_Subset
<1>5. Cardinality(Ahead(L, S, a)) \in Nat /\ Cardinality(Ahead(L, S, b)) \in Nat
  BY <1>3, <1>4, FS_CardinalityType
<1> QED  BY <1>2, <1>4, <1>5

\* Each place in the order is somebody's, and of one only.
LEMMA EachPlaceIsTaken ==
    ASSUME NEW L, NEW S, IsFiniteSet(S), Orders(L, S)
    PROVE  /\ Cardinality(S) \in Nat
           /\ \A k \in 1..Cardinality(S) : \E a \in S : Cardinality(Ahead(L, S, a)) = k - 1
           /\ \A a \in S : Cardinality(Ahead(L, S, a)) + 1 \in 1..Cardinality(S)
           /\ \A a, b \in S : Cardinality(Ahead(L, S, a)) = Cardinality(Ahead(L, S, b)) => a = b
<1> DEFINE n == Cardinality(S)
           rank == [a \in S |-> Cardinality(Ahead(L, S, a))]
<1>1. n \in Nat
  BY FS_CardinalityType
<1>2. ASSUME NEW a \in S  PROVE rank[a] \in 0..n - 1
  <2>1. Ahead(L, S, a) \in SUBSET S /\ a \notin Ahead(L, S, a)
    BY DEF Ahead, Orders
  <2>2. /\ IsFiniteSet(Ahead(L, S, a)) /\ Cardinality(Ahead(L, S, a)) <= n
        /\ n = Cardinality(Ahead(L, S, a)) => S = Ahead(L, S, a)
    BY <2>1, FS_Subset
  <2>3. Cardinality(Ahead(L, S, a)) \in Nat
    BY <2>2, FS_CardinalityType
  <2> QED  BY <1>1, <2>1, <2>2, <2>3
<1>3. ASSUME NEW a \in S, NEW b \in S, rank[a] = rank[b]  PROVE a = b
  <2> SUFFICES ASSUME a # b  PROVE FALSE
    OBVIOUS
  <2>1. <<a, b>> \in L \/ <<b, a>> \in L
    BY DEF Orders
  <2> QED  BY <1>3, <2>1, AheadGrows
<1>4. rank \in [S -> 0..n - 1]
  BY <1>2
<1>5. rank \in Injection(S, 0..n - 1)
  BY <1>3, <1>4 DEF Injection, IsInjective
<1>6. IsFiniteSet(0..n - 1) /\ Cardinality(0..n - 1) = n
  BY <1>1, FS_Interval
<1>7. rank \in Surjection(S, 0..n - 1)
  BY <1>5, <1>6, FS_Injection
<1>8. \A k \in 0..n - 1 : \E a \in S : rank[a] = k
  BY <1>7 DEF Surjection
<1>9. ASSUME NEW k \in 1..n  PROVE \E a \in S : rank[a] = k - 1
  <2>1. k - 1 \in 0..n - 1
    BY <1>1
  <2> QED  BY <1>8, <2>1
<1>10. \A a \in S : rank[a] + 1 \in 1..n
  BY <1>1, <1>2
<1> QED  BY <1>1, <1>3, <1>9, <1>10

-----------------------------------------------------------------------------
(***************************************************************************)
(* Announcements, and the page that shows them.                            *)
(***************************************************************************)
Ann == INSTANCE Announcements

AnnounceBody == [phase: Phases, global: BOOLEAN, components: SUBSET Monitors]
AnnounceRow == [phase: Phases, global: BOOLEAN, components: SUBSET Monitors, started: Nat,
                resolved: Nat \cup {None}]
Entry == [phase: Phases, at: Nat]

\* No announcement is a row, ids are numbers and bodies are what the handler
\* parses (api/statuspage_handlers.go).
AnnouncementSorts ==
    /\ None # Gone /\ {None, Gone} \cap AnnounceRow = {} /\ None \notin Nat
    /\ Announcements \in SUBSET Nat /\ IsFiniteSet(Announcements)
    /\ Limit \in Nat /\ WindowDays \in Nat
    /\ Bodies \subseteq AnnounceBody

\* What a request remembers at each of its steps.
AnnounceIdle == [step: {"idle"}]
AnnounceReading ==
    [step: {"components"}, kind: {"edit"}, of: Announcements, body: AnnounceBody, row: AnnounceRow]
    \cup [step: {"components"}, kind: {"publish"}, of: Announcements, body: [phase: Phases],
          row: AnnounceRow]
FirstEntry == [step: {"entry"}, kind: {"create"}, of: Announcements, phase: Phases, at: Nat,
               row: {None}]
Publishing == [step: {"entry", "write"}, kind: {"publish"}, of: Announcements, phase: Phases,
               at: Nat, row: AnnounceRow]
Rewriting == [step: {"write"}, kind: {"edit"}, of: Announcements, phase: Phases, at: Nat,
              row: AnnounceRow]
AnnounceRequests == AnnounceIdle \cup AnnounceReading \cup FirstEntry \cup Publishing \cup Rewriting

ListedRow == [of: Announcements, row: AnnounceRow, read: BOOLEAN]
ShownRow == [of: Announcements, phase: Phases, resolved: Nat \cup {None}, entries: Seq(Entry)]
PageViews == [step: {"idle", "list", "components", "updates", "done"}, published: SUBSET Monitors,
              since: Int, rows: Seq(ListedRow), shown: SUBSET ShownRow]

AnnounceShapes ==
    /\ now \in Nat
    /\ announcement \in [Announcements -> AnnounceRow \cup {None, Gone}]
    /\ timeline \in [Announcements -> Seq(Entry)]
    /\ published \subseteq Monitors
    /\ request \in [Clients -> AnnounceRequests]
    /\ closed \in [Announcements -> Nat \cup {None}]
    /\ overlapped \in [Announcements -> BOOLEAN] /\ silent \in [Announcements -> BOOLEAN]
    /\ view \in PageViews

\* Ids are given in the order of time, and kept.
IdsInOrder ==
    /\ \A a, b \in Announcements : a < b /\ announcement[b] # None => announcement[a] # None
    /\ \A a, b \in Announcements :
         a < b /\ Ann!Stored(a) /\ Ann!Stored(b) => announcement[a].started <= announcement[b].started
    /\ \A a \in Announcements : Ann!Stored(a) => announcement[a].started <= now

IsRow(stored) == stored \notin {None, Gone}
Stamped(stored) == stored.phase = "resolved" <=> stored.resolved # None
Latest(line) == line[Len(line)].phase

\* What request q read of an announcement is what is still stored of it, if no
\* other request was in course; and its entry comes after those there are.
ReadFits(q, stored, alone) ==
    /\ stored # None
    /\ q.kind # "create" /\ IsRow(stored) =>
         /\ q.row.started = stored.started
         /\ alone => q.row.phase = stored.phase /\ q.row.resolved = stored.resolved
EntryFits(q, stored, line) ==
    /\ \A i \in DOMAIN line : line[i].at <= q.at
    /\ q.kind = "create" /\ IsRow(stored) => line = <<>> /\ stored.phase = q.phase
    /\ q.step = "write" /\ q.kind = "publish" /\ IsRow(stored) => line # <<>> /\ Latest(line) = q.phase
RequestFits(q, stored, line, alone) ==
    q.step # "idle" =>
        /\ ReadFits(q, stored, alone)
        /\ q.step \in {"entry", "write"} /\ alone => EntryFits(q, stored, line)
RequestsFit ==
    \A c \in Clients : request[c].step # "idle" =>
        LET a == request[c].of IN
        RequestFits(request[c], announcement[a], timeline[a], ~ overlapped[a])

HoursPast ==
    \A c \in Clients : request[c].step \in {"entry", "write"} => request[c].at <= now

Alone ==
    \A a \in Announcements, c, d \in Clients :
        ~ overlapped[a] /\ c \in Ann!InCourse(a) /\ d \in Ann!InCourse(a) => c = d

\* The entries are in the order of their hours; the hour of resolution is the
\* one of the last request that resolved it; the phase follows the timeline,
\* but while a request publishes.
EntriesInOrder(line, time) ==
    /\ \A i, j \in DOMAIN line : i < j => line[i].at <= line[j].at
    /\ \A i \in DOMAIN line : line[i].at <= time
RowFits(stored, line, hour, alone, heard, time) ==
    /\ stored = None => line = <<>>
    /\ IsRow(stored) => Stamped(stored)
    /\ alone => /\ EntriesInOrder(line, time)
                /\ IsRow(stored) => stored.resolved = hour
                /\ IsRow(stored) /\ heard /\ line # <<>> => stored.phase = Latest(line)
Published(c, a) == request[c].step = "write" /\ request[c].kind = "publish" /\ request[c].of = a
NoneTold(a) == ~ silent[a] /\ \A c \in Clients : ~ Published(c, a)
RowsFit ==
    \A a \in Announcements :
        RowFits(announcement[a], timeline[a], closed[a], ~ overlapped[a], NoneTold(a), now)

StoredInvariant == AnnounceShapes /\ IdsInOrder /\ RequestsFit /\ HoursPast /\ Alone /\ RowsFit

\* What the reader may leave out: it is too old, or after a page of others.
LaterOnes(a) == {x \in Announcements : x > a /\ announcement[x] # None}
LeftOut(a) == announcement[a].started < view.since \/ Cardinality(LaterOnes(a)) >= Limit

\* What is read of an announcement was for the page when it was read, and is
\* what is still stored of those nothing touched.
WasForPage(l, wanted, held) ==
    /\ Stamped(l.row)
    /\ l.row.global => l.of \in held
    /\ l.read /\ l.row.components \cap wanted # {} => l.of \in held
Stands(l, a, stored) ==
    /\ l.of = a /\ l.row.global = stored.global
    /\ l.read => l.row.components = stored.components
ReadingView == view.step \in {"list", "components", "updates"}
ViewKept ==
    /\ always \subseteq {a \in Announcements : announcement[a] # None}
    /\ ReadingView => always \subseteq Ann!ForPage
    /\ \A s \in view.shown : s.of \in could /\ Stamped(s)
    /\ \A i \in DOMAIN view.rows : WasForPage(view.rows[i], view.published, could)
    /\ view.step \in {"idle", "list", "done"} => view.rows = <<>>
    /\ view.step = "idle" => view.shown = {}
    /\ view.step = "components" => \E i \in DOMAIN view.rows : ~ view.rows[i].read
    /\ view.step = "updates" => view.rows # <<>> /\ \A i \in DOMAIN view.rows : view.rows[i].read
    /\ view.step \in {"components", "updates", "done"} =>
         \A a \in always : IsRow(announcement[a]) =>
            \/ a \in {s.of : s \in view.shown}
            \/ LeftOut(a)
            \/ \E i \in DOMAIN view.rows : Stands(view.rows[i], a, announcement[a])

AnnounceInvariant == StoredInvariant /\ ViewKept

\* The step of a request says what it remembers.
LEMMA AnnounceSteps ==
    ASSUME NEW r \in AnnounceRequests
    PROVE  /\ r.step \in {"idle", "components", "entry", "write"}
           /\ r.step = "idle" <=> r = Ann!Idle
           /\ r.step = "components" => /\ r \in AnnounceReading /\ r.kind \in {"edit", "publish"}
                                       /\ r.row \in AnnounceRow
           /\ r.step = "entry" /\ r.kind = "create" => r \in FirstEntry
           /\ r.step \in {"entry", "write"} /\ r.kind # "create" =>
                 r.row \in AnnounceRow /\ r.kind \in {"edit", "publish"}
           /\ r.step = "entry" /\ r.kind # "create" => r \in Publishing
           /\ r.step = "entry" => r.kind \in {"create", "publish"}
           /\ r.step = "write" => r \in Publishing \cup Rewriting /\ r.kind # "create"
           /\ r.step # "idle" => r.of \in Announcements
           /\ r.step \in {"entry", "write"} => r.at \in Nat /\ r.phase \in Phases
BY DEF AnnounceRequests, AnnounceIdle, AnnounceReading, FirstEntry, Publishing, Rewriting, Ann!Idle

\* Of two requests about an announcement one began while the other ran.
LEMMA AloneNow ==
    ASSUME AnnounceShapes, Alone, NEW c \in Clients, NEW d \in Clients,
           request[c].step # "idle", request[d].step # "idle", request[c].of = request[d].of,
           ~ overlapped[request[c].of]
    PROVE  c = d
<1>1. request[c].of \in Announcements
  BY AnnounceSteps DEF AnnounceShapes
<1> QED  BY <1>1 DEF Alone, Ann!InCourse

LEMMA StoredRow ==
    ASSUME AnnounceShapes, NEW a \in Announcements, IsRow(announcement[a])
    PROVE  announcement[a] \in AnnounceRow
BY DEF AnnounceShapes, IsRow

\* An hour of resolution, of what is resolved (resolvedStamp).
LEMMA StampTyped ==
    ASSUME AnnouncementSorts, NEW before \in Nat \cup {None}, NEW phase, NEW at \in Nat
    PROVE  /\ Ann!Stamp(before, phase, at) \in Nat \cup {None}
           /\ phase = "resolved" <=> Ann!Stamp(before, phase, at) # None
BY DEF Ann!Stamp, Ann!Resolved, AnnouncementSorts

\* A step of one request, or of none, about one announcement.
LEMMA StepsOfOne ==
    ASSUME AnnouncementSorts, StoredInvariant, AnnounceShapes', IdsInOrder', now' = now,
           NEW a \in Announcements, NEW c,
           \A d \in Clients : d # c => request'[d] = request[d],
           \A x \in Announcements : x # a =>
               /\ announcement'[x] = announcement[x] /\ timeline'[x] = timeline[x]
               /\ closed'[x] = closed[x] /\ overlapped'[x] = overlapped[x]
               /\ silent'[x] = silent[x],
           overlapped[a] => overlapped'[a],
           c \in Clients => /\ request[c].step = "idle" \/ request[c].of = a
                            /\ request'[c].step # "idle" => request'[c].of = a
                            /\ request'[c].step \in {"entry", "write"} => request'[c].at <= now
                            /\ RequestFits(request'[c], announcement'[a], timeline'[a],
                                           ~ overlapped'[a])
                            /\ request'[c].step # "idle" /\ ~ overlapped'[a] =>
                                  \A d \in Clients : d # c => d \notin Ann!InCourse(a),
           \A d \in Clients : d # c /\ d \in Ann!InCourse(a) =>
               RequestFits(request[d], announcement'[a], timeline'[a], ~ overlapped'[a]),
           RowFits(announcement'[a], timeline'[a], closed'[a], ~ overlapped'[a], NoneTold(a)', now')
    PROVE  StoredInvariant'
<1> USE DEF StoredInvariant
<1>1. \A d \in Clients : request[d].step # "idle" => request[d].of \in Announcements
  BY AnnounceSteps DEF AnnounceShapes
<1>2. RequestsFit'
  <2> SUFFICES ASSUME NEW d \in Clients, request'[d].step # "idle"
               PROVE  RequestFits(request'[d], announcement'[request'[d].of],
                                  timeline'[request'[d].of], ~ overlapped'[request'[d].of])
    BY DEF RequestsFit
  <2>1. CASE d = c
    BY <2>1
  <2>2. CASE d # c /\ request[d].of = a
    BY <2>2 DEF Ann!InCourse
  <2>3. CASE d # c /\ request[d].of # a
    <3>1. request'[d] = request[d] /\ request[d].of \in Announcements
      BY <1>1, <2>3
    <3>2. RequestFits(request[d], announcement[request[d].of], timeline[request[d].of],
                      ~ overlapped[request[d].of])
      BY <3>1 DEF RequestsFit
    <3> QED  BY <2>3, <3>1, <3>2
  <2> QED  BY <2>1, <2>2, <2>3
<1>3. Alone'
  <2> SUFFICES ASSUME NEW x \in Announcements, ~ overlapped'[x], NEW d \in Clients, NEW e \in Clients,
                      d \in Ann!InCourse(x)', e \in Ann!InCourse(x)'
               PROVE  d = e
    BY DEF Alone
  <2>1. ~ overlapped[x]
    BY DEF AnnounceShapes
  <2>2. \A f \in Clients : f # c /\ f \in Ann!InCourse(x)' => f \in Ann!InCourse(x)
    BY DEF Ann!InCourse
  <2>3. c \in Clients /\ c \in Ann!InCourse(x)' => x = a /\ request'[c].step # "idle"
    BY DEF Ann!InCourse
  <2> QED  BY <2>1, <2>2, <2>3 DEF Alone
<1>4. RowsFit'
  <2> SUFFICES ASSUME NEW x \in Announcements, x # a
               PROVE  RowFits(announcement'[x], timeline'[x], closed'[x], ~ overlapped'[x], NoneTold(x)',
                              now')
    BY DEF RowsFit
  <2>1. \A d \in Clients : Published(d, x)' <=> Published(d, x)
    <3> SUFFICES ASSUME NEW d \in Clients  PROVE Published(d, x)' <=> Published(d, x)
      OBVIOUS
    <3>1. CASE d = c
      <4>1. ~ Published(d, x)' /\ ~ Published(d, x)
        BY <3>1 DEF Published
      <4> QED  BY <4>1
    <3>2. CASE d # c
      BY <3>2 DEF Published
    <3> QED  BY <3>1, <3>2
  <2>2. NoneTold(x)' = NoneTold(x)
    BY <2>1 DEF NoneTold
  <2> QED  BY <2>2 DEF RowsFit
<1>5. HoursPast'
  <2> SUFFICES ASSUME NEW d \in Clients, request'[d].step \in {"entry", "write"}
               PROVE  request'[d].at <= now
    BY DEF HoursPast
  <2>1. CASE d = c
    BY <2>1
  <2>2. CASE d # c
    BY <2>2 DEF HoursPast
  <2> QED  BY <2>1, <2>2
<1> QED  BY <1>2, <1>3, <1>4, <1>5

\* No announcement comes or changes its hour.
LEMMA IdsStay ==
    ASSUME StoredInvariant, now' \in Nat, now <= now',
           \A a \in Announcements :
               /\ announcement[a] # None => announcement'[a] # None
               /\ announcement'[a] # None => announcement[a] # None
               /\ IsRow(announcement'[a]) => /\ IsRow(announcement[a])
                                             /\ announcement'[a].started = announcement[a].started
    PROVE  IdsInOrder'
<1>1. \A a \in Announcements : /\ Ann!Stored(a)' => Ann!Stored(a) /\ announcement'[a].started = announcement[a].started
                               /\ Ann!Stored(a) => announcement[a].started \in Nat
  BY StoredRow DEF Ann!Stored, IsRow, AnnounceRow, StoredInvariant
<1>2. now \in Nat
  BY DEF StoredInvariant, AnnounceShapes
<1>3. \A a \in Announcements : Ann!Stored(a)' => announcement'[a].started <= now'
  BY <1>1, <1>2 DEF StoredInvariant, IdsInOrder
<1>4. \A a, b \in Announcements :
         a < b /\ Ann!Stored(a)' /\ Ann!Stored(b)' => announcement'[a].started <= announcement'[b].started
  BY <1>1 DEF StoredInvariant, IdsInOrder
<1>5. \A a, b \in Announcements : a < b /\ announcement'[b] # None => announcement'[a] # None
  BY DEF StoredInvariant, IdsInOrder
<1> QED  BY <1>3, <1>4, <1>5 DEF IdsInOrder

\* Nothing of what is stored changes, and time may pass.
LEMMA StoredRests ==
    ASSUME StoredInvariant, now' \in Nat, now <= now',
           UNCHANGED <<announcement, timeline, request, closed, overlapped, silent>>,
           AnnounceShapes'
    PROVE  StoredInvariant'
<1> USE DEF StoredInvariant
<1>1. IdsInOrder'
  BY IdsStay
<1>2. RequestsFit' /\ Alone'
  BY DEF RequestsFit, Alone, Ann!InCourse
<1>3. \A a : NoneTold(a)' = NoneTold(a)
  BY DEF NoneTold, Published
<1>4. ASSUME NEW a \in Announcements
      PROVE  EntriesInOrder(timeline[a], now) => EntriesInOrder(timeline[a], now')
  <2>1. timeline[a] \in Seq(Entry)
    BY DEF AnnounceShapes
  <2>2. ASSUME NEW i \in DOMAIN timeline[a], timeline[a][i].at <= now
        PROVE  timeline[a][i].at <= now'
    <3>1. timeline[a][i] \in Entry
      BY <2>1
    <3>2. timeline[a][i].at \in Nat
      BY <3>1 DEF Entry
    <3>3. now \in Nat
      BY DEF AnnounceShapes
    <3> QED  BY <2>2, <3>2, <3>3
  <2> QED  BY <2>2 DEF EntriesInOrder
<1>5. RowsFit'
  BY <1>3, <1>4 DEF RowsFit, RowFits
<1>6. HoursPast'
  <2> SUFFICES ASSUME NEW c \in Clients, request[c].step \in {"entry", "write"}
               PROVE  request[c].at <= now'
    BY DEF HoursPast
  <2>1. request[c].at \in Nat /\ request[c].at <= now
    BY AnnounceSteps DEF HoursPast, AnnounceShapes
  <2>2. now \in Nat
    BY DEF AnnounceShapes
  <2> QED  BY <2>1, <2>2
<1> QED  BY <1>1, <1>2, <1>5, <1>6

\* A request reads an announcement that is there.
LEMMA RowIsRead ==
    ASSUME AnnouncementSorts, StoredInvariant, NEW c \in Clients, NEW a \in Announcements,
           NEW kind \in {"edit", "publish"}, NEW b \in Bodies, Ann!ReadRow(c, a, kind, b)
    PROVE  StoredInvariant'
<1> USE DEF StoredInvariant
<1> DEFINE r == [step |-> "components", kind |-> kind, of |-> a,
                 body |-> IF kind = "edit" THEN b ELSE [phase |-> b.phase],
                 row |-> announcement[a]]
<1>1. /\ request[c].step = "idle" /\ IsRow(announcement[a]) /\ request' = [request EXCEPT ![c] = r]
      /\ overlapped' = [overlapped EXCEPT ![a] = @ \/ Ann!InCourse(a) # {}]
      /\ UNCHANGED <<now, announcement, timeline, published, view, closed, silent>>
  BY DEF Ann!ReadRow, Ann!Request, Ann!Goes, Ann!Stored, IsRow
<1>2. announcement[a] \in AnnounceRow
  BY <1>1, StoredRow
<1>3. r \in AnnounceReading
  <2>1. b \in AnnounceBody
    BY DEF AnnouncementSorts
  <2>2. CASE kind = "edit"
    BY <1>2, <2>1, <2>2 DEF AnnounceReading
  <2>3. CASE kind = "publish"
    BY <1>2, <2>1, <2>3 DEF AnnounceReading, AnnounceBody
  <2> QED  BY <2>2, <2>3
<1>4. r.step = "components" /\ r.of = a /\ r.row = announcement[a] /\ r.kind # "create"
  OBVIOUS
<1> HIDE DEF r
<1>5. AnnounceShapes'
  BY <1>1, <1>3 DEF AnnounceShapes, AnnounceRequests
<1>6. /\ request'[c] = r /\ \A d \in Clients : d # c => request'[d] = request[d]
      /\ \A x \in Announcements : x # a => overlapped'[x] = overlapped[x]
      /\ overlapped'[a] <=> (overlapped[a] \/ Ann!InCourse(a) # {})
  BY <1>1 DEF AnnounceShapes
<1>7. IdsInOrder'
  BY <1>1, IdsStay DEF AnnounceShapes
<1>8. RequestFits(r, announcement[a], timeline[a], ~ overlapped'[a])
  BY <1>1, <1>4 DEF RequestFits, ReadFits, IsRow
<1>9. \A d \in Clients : d # c /\ d \in Ann!InCourse(a) =>
          RequestFits(request[d], announcement[a], timeline[a], ~ overlapped'[a])
  <2>1. \A d \in Clients : d \in Ann!InCourse(a) =>
            RequestFits(request[d], announcement[a], timeline[a], ~ overlapped[a])
    BY DEF RequestsFit, Ann!InCourse
  <2> QED  BY <1>6, <2>1 DEF RequestFits, ReadFits
<1>10. NoneTold(a)' = NoneTold(a)
  <2>1. ASSUME NEW d \in Clients  PROVE Published(d, a)' <=> Published(d, a)
    <3>1. CASE d = c
      BY <1>1, <1>4, <1>6, <3>1 DEF Published
    <3>2. CASE d # c
      BY <1>6, <3>2 DEF Published
    <3> QED  BY <3>1, <3>2
  <2> QED  BY <1>1, <2>1 DEF NoneTold
<1>11. RowFits(announcement'[a], timeline'[a], closed'[a], ~ overlapped'[a], NoneTold(a)', now')
  <2>1. RowFits(announcement[a], timeline[a], closed[a], ~ overlapped[a], NoneTold(a), now)
    BY DEF RowsFit
  <2>2. RowFits(announcement[a], timeline[a], closed[a], ~ overlapped'[a], NoneTold(a), now)
    BY <1>6, <2>1 DEF RowFits
  <2> QED  BY <1>1, <1>10, <2>2
<1>12. \A d \in Clients : ~ overlapped'[a] => d \notin Ann!InCourse(a)
  BY <1>6
<1> QED  BY <1>1, <1>4, <1>5, <1>6, <1>7, <1>8, <1>9, <1>11, <1>12, StepsOfOne

\* A request goes on, or ends, and nothing of what is stored changes but, it
\* may be, what the ghosts keep of a request that publishes.
LEMMA RequestGoes ==
    ASSUME AnnouncementSorts, StoredInvariant, NEW c \in Clients, request[c].step # "idle",
           NEW r \in AnnounceRequests, Ann!Goes(c, r), NEW a, a = request[c].of,
           r.step # "idle" => r.of = a,
           r.step \in {"entry", "write"} => r.at <= now,
           RequestFits(r, announcement[a], timeline[a], ~ overlapped[a]),
           ~ (r.step = "write" /\ r.kind = "publish"),
           silent' \in [Announcements -> BOOLEAN],
           \A x \in Announcements : x # a => silent'[x] = silent[x],
           silent[a] => silent'[a],
           Published(c, a) => silent'[a],
           UNCHANGED <<now, announcement, timeline, published, view, closed, overlapped>>
    PROVE  StoredInvariant'
<1> USE DEF StoredInvariant
<1>1. request' = [request EXCEPT ![c] = r] /\ request \in [Clients -> AnnounceRequests]
  BY DEF Ann!Goes, AnnounceShapes
<1>2. /\ \A d \in Clients : d # c => request'[d] = request[d]
      /\ request'[c] = r
  BY <1>1
<1>3. a \in Announcements
  BY AnnounceSteps DEF AnnounceShapes
<1>4. AnnounceShapes'
  BY <1>1 DEF AnnounceShapes
<1>5. IdsInOrder'
  BY IdsStay DEF AnnounceShapes
<1>6. \A d \in Clients : d # c /\ d \in Ann!InCourse(a) =>
          RequestFits(request[d], announcement[a], timeline[a], ~ overlapped[a])
  BY DEF RequestsFit, Ann!InCourse
<1>7. \A d \in Clients : d # c /\ d \in Ann!InCourse(a) => overlapped[a]
  BY AloneNow DEF Ann!InCourse
<1>8. NoneTold(a)' => NoneTold(a)
  <2> SUFFICES ASSUME NoneTold(a)', NEW d \in Clients, Published(d, a)  PROVE FALSE
    BY <1>3 DEF NoneTold, AnnounceShapes
  <2>1. CASE d = c
    BY <2>1 DEF NoneTold
  <2>2. CASE d # c
    <3>1. Published(d, a)'
      BY <1>2, <2>2 DEF Published
    <3> QED  BY <3>1 DEF NoneTold
  <2> QED  BY <2>1, <2>2
<1>9. RowFits(announcement[a], timeline[a], closed[a], ~ overlapped[a], NoneTold(a), now)
  BY <1>3 DEF RowsFit
<1>10. RowFits(announcement[a], timeline[a], closed[a], ~ overlapped[a], NoneTold(a)', now)
  BY <1>8, <1>9 DEF RowFits
<1> QED  BY <1>2, <1>3, <1>4, <1>5, <1>6, <1>7, <1>10, StepsOfOne

\* A request that fails leaves its entry without its phase, or nothing.
LEMMA RequestFails ==
    ASSUME AnnouncementSorts, StoredInvariant, NEW c \in Clients, Ann!Fail(c)
    PROVE  StoredInvariant'
<1> USE DEF StoredInvariant
<1>1. /\ request[c].step # "idle" /\ Ann!Goes(c, Ann!Idle)
      /\ silent' = [silent EXCEPT ![request[c].of] =
            @ \/ (request[c].kind = "publish" /\ request[c].step = "write")]
      /\ UNCHANGED <<now, announcement, timeline, published, view, closed, overlapped>>
  BY DEF Ann!Fail
<1>2. request[c].of \in Announcements
  BY <1>1, AnnounceSteps DEF AnnounceShapes
<1>3. /\ silent' \in [Announcements -> BOOLEAN]
      /\ \A x \in Announcements : x # request[c].of => silent'[x] = silent[x]
      /\ silent[request[c].of] => silent'[request[c].of]
      /\ Published(c, request[c].of) => silent'[request[c].of]
  BY <1>1, <1>2 DEF AnnounceShapes, Published
<1>4. Ann!Idle \in AnnounceRequests /\ Ann!Idle.step = "idle"
  BY DEF Ann!Idle, AnnounceRequests, AnnounceIdle
<1>5. RequestFits(Ann!Idle, announcement[request[c].of], timeline[request[c].of],
                  ~ overlapped[request[c].of])
  BY <1>4 DEF RequestFits
<1> QED  BY <1>1, <1>3, <1>4, <1>5, RequestGoes

\* What is about an announcement alone fits its row.
LEMMA FitsNow ==
    ASSUME AnnouncementSorts, StoredInvariant, NEW c \in Clients, request[c].step # "idle",
           NEW a, a = request[c].of
    PROVE  /\ a \in Announcements
           /\ request[c] \in AnnounceRequests
           /\ RequestFits(request[c], announcement[a], timeline[a], ~ overlapped[a])
           /\ RowFits(announcement[a], timeline[a], closed[a], ~ overlapped[a], NoneTold(a), now)
           /\ \A d \in Clients : d # c /\ d \in Ann!InCourse(a) => overlapped[a]
<1> USE DEF StoredInvariant
<1>1. a \in Announcements /\ request[c] \in AnnounceRequests
  BY AnnounceSteps DEF AnnounceShapes
<1>2. \A d \in Clients : d # c /\ d \in Ann!InCourse(a) => overlapped[a]
  BY AloneNow DEF Ann!InCourse
<1> QED  BY <1>1, <1>2 DEF RequestsFit, RowsFit

\* ... reads its components, and the clock.
LEMMA ComponentsAreRead ==
    ASSUME AnnouncementSorts, StoredInvariant, NEW c \in Clients, Ann!ReadComponents(c)
    PROVE  StoredInvariant'
<1> DEFINE r == request[c]
           a == r.of
           found == IF Ann!Stored(a) THEN announcement[a].components ELSE {}
           edit == [step |-> "write", kind |-> "edit", of |-> a, phase |-> r.body.phase,
                    at |-> now,
                    row |-> [r.row EXCEPT !.global = r.body.global,
                                          !.components = r.body.components]]
           publish == [step |-> "entry", kind |-> "publish", of |-> a, phase |-> r.body.phase,
                       at |-> now, row |-> [r.row EXCEPT !.components = found]]
<1>1. /\ r.step = "components"
      /\ Ann!Goes(c, IF r.kind = "edit" THEN edit ELSE publish)
      /\ UNCHANGED <<now, announcement, timeline, published, view, closed, overlapped, silent>>
  BY DEF Ann!ReadComponents
<1>2. /\ a \in Announcements /\ r \in AnnounceReading /\ r.row \in AnnounceRow
      /\ r.kind \in {"edit", "publish"}
      /\ RequestFits(r, announcement[a], timeline[a], ~ overlapped[a])
      /\ RowFits(announcement[a], timeline[a], closed[a], ~ overlapped[a], NoneTold(a), now)
  BY <1>1, FitsNow, AnnounceSteps
<1>3. now \in Nat /\ silent \in [Announcements -> BOOLEAN]
  BY DEF StoredInvariant, AnnounceShapes
<1>4. ReadFits(r, announcement[a], ~ overlapped[a])
  BY <1>1, <1>2 DEF RequestFits
<1>5. ~ overlapped[a] => \A i \in DOMAIN timeline[a] : timeline[a][i].at <= now
  BY <1>2 DEF RowFits, EntriesInOrder
<1>6. ~ Published(c, a)
  BY <1>1 DEF Published
<1>7. CASE r.kind = "edit"
  <2>1. r.body \in AnnounceBody
    BY <1>2, <1>7 DEF AnnounceReading
  <2> DEFINE stored == [r.row EXCEPT !.global = r.body.global, !.components = r.body.components]
  <2>2. /\ stored \in AnnounceRow /\ stored.started = r.row.started /\ stored.phase = r.row.phase
        /\ stored.resolved = r.row.resolved
    BY <1>2, <2>1 DEF AnnounceRow, AnnounceBody
  <2> HIDE DEF stored
  <2> DEFINE q == [step |-> "write", kind |-> "edit", of |-> a, phase |-> r.body.phase,
                   at |-> now, row |-> stored]
  <2>3. q \in Rewriting
    BY <1>2, <1>3, <2>1, <2>2 DEF Rewriting, AnnounceBody
  <2>4. q.step = "write" /\ q.kind = "edit" /\ q.of = a /\ q.at = now /\ q.row = stored
    OBVIOUS
  <2>5. Ann!Goes(c, q)
    BY <1>1, <1>7 DEF stored
  <2> HIDE DEF q
  <2>6. ReadFits(q, announcement[a], ~ overlapped[a])
    BY <1>4, <1>7, <2>2, <2>4 DEF ReadFits
  <2>7. ~ overlapped[a] => EntryFits(q, announcement[a], timeline[a])
    BY <1>5, <2>4 DEF EntryFits
  <2>8. RequestFits(q, announcement[a], timeline[a], ~ overlapped[a])
    BY <2>6, <2>7 DEF RequestFits
  <2>9. q \in AnnounceRequests /\ q.at <= now
    BY <1>3, <2>3, <2>4 DEF AnnounceRequests
  <2> HIDE DEF r, a
  <2> QED  BY <1>1, <1>3, <1>6, <2>4, <2>5, <2>8, <2>9, RequestGoes DEF r, a
<1>8. CASE r.kind = "publish"
  <2>1. r.body \in [phase: Phases]
    BY <1>2, <1>8 DEF AnnounceReading
  <2>2. found \in SUBSET Monitors
    BY <1>2, StoredRow DEF StoredInvariant, Ann!Stored, IsRow, AnnounceRow
  <2> HIDE DEF found
  <2> DEFINE stored == [r.row EXCEPT !.components = found]
  <2>3. /\ stored \in AnnounceRow /\ stored.started = r.row.started /\ stored.phase = r.row.phase
        /\ stored.resolved = r.row.resolved
    BY <1>2, <2>2 DEF AnnounceRow
  <2> HIDE DEF stored
  <2> DEFINE q == [step |-> "entry", kind |-> "publish", of |-> a, phase |-> r.body.phase,
                   at |-> now, row |-> stored]
  <2>4. q \in Publishing
    BY <1>2, <1>3, <2>1, <2>3 DEF Publishing
  <2>5. q.step = "entry" /\ q.kind = "publish" /\ q.of = a /\ q.at = now /\ q.row = stored
    OBVIOUS
  <2>6. Ann!Goes(c, q)
    BY <1>1, <1>8 DEF stored
  <2> HIDE DEF q
  <2>7. ReadFits(q, announcement[a], ~ overlapped[a])
    BY <1>4, <1>8, <2>3, <2>5 DEF ReadFits
  <2>8. ~ overlapped[a] => EntryFits(q, announcement[a], timeline[a])
    BY <1>5, <2>5 DEF EntryFits
  <2>9. RequestFits(q, announcement[a], timeline[a], ~ overlapped[a])
    BY <2>7, <2>8 DEF RequestFits
  <2>10. q \in AnnounceRequests /\ q.at <= now
    BY <1>3, <2>4, <2>5 DEF AnnounceRequests
  <2> HIDE DEF r, a
  <2> QED  BY <1>1, <1>3, <1>6, <2>5, <2>6, <2>9, <2>10, RequestGoes DEF r, a
<1> QED  BY <1>2, <1>7, <1>8

\* An entry is added after those there are, and is then the last.
LEMMA EntryFollows ==
    ASSUME NEW line \in Seq(Entry), NEW e \in Entry
    PROVE  /\ Append(line, e) \in Seq(Entry) /\ Append(line, e) # <<>> /\ Latest(Append(line, e)) = e.phase
           /\ (\A i \in DOMAIN line : line[i].at <= e.at) =>
                 \A i \in DOMAIN Append(line, e) : Append(line, e)[i].at <= e.at
           /\ \A time \in Nat :
                 EntriesInOrder(line, time) /\ (\A i \in DOMAIN line : line[i].at <= e.at) /\ e.at <= time
                    => EntriesInOrder(Append(line, e), time)
<1> DEFINE more == Append(line, e)
<1>1. /\ more \in Seq(Entry) /\ Len(more) = Len(line) + 1 /\ more[Len(line) + 1] = e
      /\ \A i \in 1..Len(line) : more[i] = line[i]
      /\ DOMAIN line = 1..Len(line) /\ DOMAIN more = 1..(Len(line) + 1) /\ Len(line) \in Nat
  OBVIOUS
<1> HIDE DEF more
<1>2. e.at \in Nat /\ \A i \in DOMAIN more : more[i] \in Entry
  <2>1. e.at \in Nat
    BY DEF Entry
  <2> QED  BY <1>1, <2>1
<1>3. \A i \in DOMAIN more : i = Len(line) + 1 \/ (i \in DOMAIN line /\ more[i] = line[i])
  BY <1>1
<1>4. more # <<>> /\ Latest(more) = e.phase
  BY <1>1 DEF Latest
<1>5. (\A i \in DOMAIN line : line[i].at <= e.at) => \A i \in DOMAIN more : more[i].at <= e.at
  BY <1>1, <1>2, <1>3
<1>6. ASSUME NEW time \in Nat, EntriesInOrder(line, time), \A i \in DOMAIN line : line[i].at <= e.at,
             e.at <= time
      PROVE  EntriesInOrder(more, time)
  <2>1. \A i \in DOMAIN more : more[i].at <= time
    BY <1>1, <1>3, <1>6 DEF EntriesInOrder
  <2>2. ASSUME NEW i \in DOMAIN more, NEW j \in DOMAIN more, i < j  PROVE more[i].at <= more[j].at
    <3>1. i \in DOMAIN line /\ more[i] = line[i]
      BY <1>1, <1>3, <2>2
    <3>2. CASE j = Len(line) + 1
      BY <1>1, <1>6, <3>1, <3>2
    <3>3. CASE j \in DOMAIN line /\ more[j] = line[j]
      BY <1>6, <2>2, <3>1, <3>3 DEF EntriesInOrder
    <3> QED  BY <1>3, <3>2, <3>3
  <2> QED  BY <2>1, <2>2 DEF EntriesInOrder
<1> QED  BY <1>1, <1>4, <1>5, <1>6 DEF more

\* An entry is added to what the announcement says, if it is there.
LEMMA EntryIsAdded ==
    ASSUME AnnouncementSorts, StoredInvariant, NEW c \in Clients, Ann!AddUpdate(c)
    PROVE  StoredInvariant'
<1> PICK a : a = request[c].of
  OBVIOUS
<1> DEFINE r == request[c]
           e == [phase |-> r.phase, at |-> r.at]
           line == timeline[a]
           q == IF r.kind = "publish" THEN [r EXCEPT !.step = "write"] ELSE Ann!Idle
<1>1. /\ r.step = "entry"
      /\ UNCHANGED <<now, announcement, published, view, closed, overlapped, silent>>
      /\ Ann!Stored(a) => Ann!Goes(c, q) /\ timeline' = [timeline EXCEPT ![a] = Append(@, e)]
      /\ ~ Ann!Stored(a) => Ann!Goes(c, Ann!Idle) /\ timeline' = timeline
  BY DEF Ann!AddUpdate
<1>2. /\ a \in Announcements /\ r \in AnnounceRequests
      /\ RequestFits(r, announcement[a], timeline[a], ~ overlapped[a])
      /\ RowFits(announcement[a], timeline[a], closed[a], ~ overlapped[a], NoneTold(a), now)
      /\ \A d \in Clients : d # c /\ d \in Ann!InCourse(a) => overlapped[a]
  BY <1>1, FitsNow
<1>3. /\ now \in Nat /\ silent \in [Announcements -> BOOLEAN] /\ line \in Seq(Entry)
      /\ request \in [Clients -> AnnounceRequests] /\ timeline \in [Announcements -> Seq(Entry)]
  BY <1>2 DEF StoredInvariant, AnnounceShapes
<1>4. Ann!Idle \in AnnounceRequests /\ Ann!Idle.step = "idle"
  BY DEF Ann!Idle, AnnounceRequests, AnnounceIdle
<1>5. CASE ~ Ann!Stored(a)
  <2>1. ~ Published(c, a)
    BY <1>1 DEF Published
  <2>2. RequestFits(Ann!Idle, announcement[a], timeline[a], ~ overlapped[a])
    BY <1>4 DEF RequestFits
  <2> HIDE DEF r
  <2> QED  BY <1>1, <1>3, <1>4, <1>5, <2>1, <2>2, RequestGoes DEF r
<1>6. CASE Ann!Stored(a)
  <2>1. e \in Entry /\ e.at = r.at /\ e.phase = r.phase /\ r.kind \in {"create", "publish"}
    BY <1>1, <1>2, AnnounceSteps DEF Entry
  <2>2. r.at <= now
    BY <1>1 DEF StoredInvariant, HoursPast
  <2>3. /\ ReadFits(r, announcement[a], ~ overlapped[a])
        /\ ~ overlapped[a] => EntryFits(r, announcement[a], line)
    BY <1>1, <1>2 DEF RequestFits
  <2>4. IsRow(announcement[a])
    BY <1>6 DEF Ann!Stored, IsRow
  <2> DEFINE more == Append(line, e)
  <2>5. /\ more \in Seq(Entry) /\ more # <<>> /\ Latest(more) = r.phase
        /\ ~ overlapped[a] => (\A i \in DOMAIN more : more[i].at <= r.at)
        /\ ~ overlapped[a] => EntriesInOrder(more, now)
    <3>1. ~ overlapped[a] => EntriesInOrder(line, now) /\ \A i \in DOMAIN line : line[i].at <= e.at
      BY <1>2, <2>1, <2>3 DEF EntryFits, RowFits
    <3> HIDE DEF e, line
    <3> QED  BY <1>3, <2>1, <2>2, <3>1, EntryFollows
  <2> HIDE DEF more
  <2>6. timeline'[a] = more /\ \A x \in Announcements : x # a => timeline'[x] = timeline[x]
    BY <1>1, <1>2, <1>3, <1>6 DEF more
  <2>7. /\ q \in AnnounceRequests /\ q.step \in {"idle", "write"}
        /\ q.step = "write" => /\ r.kind = "publish" /\ q.kind = "publish" /\ q.of = a /\ q.at = r.at
                               /\ q.phase = r.phase /\ q.row = r.row
        /\ r.kind = "publish" => q.step = "write" /\ q.kind = "publish" /\ q.of = a
    <3>1. CASE r.kind = "publish"
      <4>1. r \in Publishing
        BY <1>1, <1>2, <3>1, AnnounceSteps
      <4>2. /\ [r EXCEPT !.step = "write"] \in Publishing
            /\ [r EXCEPT !.step = "write"].step = "write"
            /\ \A f \in {"kind", "of", "at", "phase", "row"} : [r EXCEPT !.step = "write"][f] = r[f]
        BY <4>1 DEF Publishing
      <4> QED  BY <3>1, <4>2 DEF AnnounceRequests
    <3>2. CASE r.kind # "publish"
      BY <1>4, <3>2
    <3> QED  BY <3>1, <3>2
  <2> HIDE DEF q
  <2>8. request' = [request EXCEPT ![c] = q]
    BY <1>1, <1>6 DEF Ann!Goes
  <2>9. request'[c] = q /\ \A d \in Clients : d # c => request'[d] = request[d]
    BY <1>3, <2>8
  <2>10. AnnounceShapes'
    <3>1. timeline' \in [Announcements -> Seq(Entry)] /\ request' \in [Clients -> AnnounceRequests]
      <4>1. timeline' = [timeline EXCEPT ![a] = more]
        BY <1>1, <1>2, <1>3, <1>6 DEF more
      <4>2. more \in Seq(Entry)
        BY <2>5
      <4> HIDE DEF r, line
      <4> QED  BY <1>3, <2>7, <2>8, <4>1, <4>2
    <3>2. UNCHANGED <<now, announcement, published, view, closed, overlapped, silent>>
      BY <1>1
    <3> QED  BY <3>1, <3>2 DEF StoredInvariant, AnnounceShapes
  <2>11. IdsInOrder'
    BY <1>1, <1>3, IdsStay
  <2>12. RequestFits(q, announcement[a], more, ~ overlapped[a])
    <3>1. q.step = "write" => ReadFits(q, announcement[a], ~ overlapped[a])
      BY <2>3, <2>7 DEF ReadFits
    <3>2. q.step = "write" /\ ~ overlapped[a] => EntryFits(q, announcement[a], more)
      BY <2>5, <2>7 DEF EntryFits
    <3> QED  BY <2>7, <3>1, <3>2 DEF RequestFits
  <2>13. ASSUME NEW d \in Clients, d # c, d \in Ann!InCourse(a)
         PROVE  RequestFits(request[d], announcement[a], more, ~ overlapped[a])
    <3>1. overlapped[a]
      BY <1>2, <2>13
    <3>2. RequestFits(request[d], announcement[a], line, ~ overlapped[a])
      BY <2>13 DEF StoredInvariant, RequestsFit, Ann!InCourse
    <3> QED  BY <3>1, <3>2 DEF RequestFits
  <2>14. RowFits(announcement[a], more, closed[a], ~ overlapped[a], NoneTold(a)', now)
    <3>1. ~ overlapped[a] /\ NoneTold(a)' => announcement[a].phase = r.phase
      <4>1. r.kind = "publish" => Published(c, a)'
        BY <2>7, <2>9 DEF Published
      <4>2. NoneTold(a)' => r.kind = "create"
        BY <2>1, <4>1 DEF NoneTold
      <4> QED  BY <1>1, <2>3, <2>4, <4>2 DEF EntryFits
    <3>2. announcement[a] # None
      BY <2>4 DEF IsRow
    <3> QED  BY <1>2, <2>5, <3>1, <3>2 DEF RowFits
  <2>15. q.step \in {"entry", "write"} => q.at <= now
    BY <2>2, <2>7
  <2>16. \A d \in Clients : d # c /\ ~ overlapped[a] => d \notin Ann!InCourse(a)
    BY <1>2
  <2>17. request[c].of = a /\ (q.step # "idle" => q.of = a)
    BY <2>7
  <2> HIDE DEF r, line
  <2> QED  BY <1>1, <1>2, <1>6, <2>6, <2>9, <2>10, <2>11, <2>12, <2>13, <2>14, <2>15, <2>16, <2>17, StepsOfOne
<1> QED  BY <1>5, <1>6

\* The announcement is written as the request read it, with its phase and
\* hour, or the write is refused.
LEMMA RowIsWritten ==
    ASSUME AnnouncementSorts, StoredInvariant, NEW c \in Clients, Ann!Write(c)
    PROVE  StoredInvariant'
<1> PICK a : a = request[c].of
  OBVIOUS
<1> PICK r : r = request[c]
  OBVIOUS
<1> PICK hour : hour = Ann!Stamp(r.row.resolved, r.phase, r.at)
  OBVIOUS
<1> PICK stored : stored = [r.row EXCEPT !.phase = r.phase, !.resolved = hour]
  OBVIOUS
<1>1. /\ r.step = "write" /\ Ann!Goes(c, Ann!Idle) /\ a = r.of
      /\ UNCHANGED <<now, timeline, published, view, overlapped>>
      /\ Ann!Stored(a) /\ stored.components \subseteq monitors =>
           /\ announcement' = [announcement EXCEPT ![a] = stored]
           /\ Ann!Closes(a, r.phase, r.at)
           /\ silent' = [silent EXCEPT ![a] =
                 IF r.kind = "publish" THEN FALSE ELSE @ \/ r.phase # announcement[a].phase]
      /\ ~ (Ann!Stored(a) /\ stored.components \subseteq monitors) =>
           /\ silent' = [silent EXCEPT ![a] = @ \/ r.kind = "publish"]
           /\ UNCHANGED <<announcement, closed>>
  <2>1. stored = [r.row EXCEPT !.phase = r.phase, !.resolved = Ann!Stamp(@, r.phase, r.at)]
    OBVIOUS
  <2> QED  BY <2>1 DEF Ann!Write, Ann!Phase
<1>2. /\ a \in Announcements /\ r \in AnnounceRequests
      /\ RequestFits(r, announcement[a], timeline[a], ~ overlapped[a])
      /\ RowFits(announcement[a], timeline[a], closed[a], ~ overlapped[a], NoneTold(a), now)
      /\ \A d \in Clients : d # c /\ d \in Ann!InCourse(a) => overlapped[a]
  BY <1>1, FitsNow
<1>3. /\ now \in Nat /\ silent \in [Announcements -> BOOLEAN]
      /\ closed \in [Announcements -> Nat \cup {None}]
      /\ announcement \in [Announcements -> AnnounceRow \cup {None, Gone}]
      /\ request \in [Clients -> AnnounceRequests] /\ timeline \in [Announcements -> Seq(Entry)]
  BY DEF StoredInvariant, AnnounceShapes
<1>4. Ann!Idle \in AnnounceRequests /\ Ann!Idle.step = "idle"
  BY DEF Ann!Idle, AnnounceRequests, AnnounceIdle
<1>5. request' = [request EXCEPT ![c] = Ann!Idle]
  BY <1>1 DEF Ann!Goes
<1>6. request'[c] = Ann!Idle /\ \A d \in Clients : d # c => request'[d] = request[d]
  BY <1>3, <1>5
<1>7. \A h, x, y, z : RequestFits(Ann!Idle, x, y, z)
  BY <1>4 DEF RequestFits
<1>8. CASE ~ (Ann!Stored(a) /\ stored.components \subseteq monitors)
  <2>1. silent' = [silent EXCEPT ![a] = @ \/ r.kind = "publish"] /\ UNCHANGED <<announcement, closed>>
    BY <1>1, <1>8
  <2>2. /\ silent' \in [Announcements -> BOOLEAN]
        /\ \A x \in Announcements : x # a => silent'[x] = silent[x]
        /\ silent[a] => silent'[a]
        /\ Published(c, a) => silent'[a]
    BY <1>2, <1>3, <2>1 DEF Published
  <2> QED  BY <1>1, <1>4, <1>7, <2>1, <2>2, RequestGoes
<1>9. CASE Ann!Stored(a) /\ stored.components \subseteq monitors
  <2>1. /\ r.row \in AnnounceRow /\ r.kind \in {"edit", "publish"} /\ r.at \in Nat /\ r.phase \in Phases
        /\ r.at <= now
    BY <1>1, <1>2, AnnounceSteps DEF StoredInvariant, HoursPast
  <2>2. hour \in Nat \cup {None} /\ (r.phase = "resolved" <=> hour # None)
    BY <2>1, StampTyped DEF AnnounceRow
  <2>3. /\ stored \in AnnounceRow /\ stored.started = r.row.started /\ stored.phase = r.phase
        /\ stored.resolved = hour
    BY <2>1, <2>2 DEF AnnounceRow
  <2>4. IsRow(announcement[a]) /\ IsRow(stored) /\ Stamped(stored)
    BY <1>9, <2>2, <2>3 DEF Ann!Stored, IsRow, AnnouncementSorts, Stamped
  <2>5. /\ announcement'[a] = stored
        /\ \A x \in Announcements : x # a => announcement'[x] = announcement[x] /\ closed'[x] = closed[x]
                                             /\ silent'[x] = silent[x]
        /\ closed'[a] = IF r.phase # "resolved" THEN None
                        ELSE IF announcement[a].phase = "resolved" THEN closed[a] ELSE r.at
        /\ silent'[a] <=> r.kind # "publish" /\ (silent[a] \/ r.phase # announcement[a].phase)
    BY <1>1, <1>2, <1>3, <1>9, <2>1 DEF Ann!Closes, Ann!Resolved
  <2>6. AnnounceShapes'
    <3>1. announcement' \in [Announcements -> AnnounceRow \cup {None, Gone}]
      BY <1>1, <1>3, <1>9, <2>3
    <3>2. silent' \in [Announcements -> BOOLEAN]
      BY <1>1, <1>3, <1>9
    <3>3. closed' \in [Announcements -> Nat \cup {None}]
      BY <1>1, <1>2, <1>3, <1>9, <2>1 DEF Ann!Closes
    <3>4. request' \in [Clients -> AnnounceRequests]
      BY <1>3, <1>4, <1>5
    <3> QED  BY <1>1, <3>1, <3>2, <3>3, <3>4 DEF StoredInvariant, AnnounceShapes
  <2>7. /\ ReadFits(r, announcement[a], ~ overlapped[a])
        /\ ~ overlapped[a] => EntryFits(r, announcement[a], timeline[a])
    BY <1>1, <1>2 DEF RequestFits
  <2>8. /\ stored.started = announcement[a].started
        /\ ~ overlapped[a] => r.row.resolved = announcement[a].resolved
    BY <2>1, <2>3, <2>4, <2>7 DEF ReadFits
  <2>9. IdsInOrder'
    <3>1. \A x \in Announcements :
             /\ announcement[x] # None <=> announcement'[x] # None
             /\ IsRow(announcement'[x]) => /\ IsRow(announcement[x])
                                           /\ announcement'[x].started = announcement[x].started
      BY <2>4, <2>5, <2>8 DEF IsRow
    <3> QED  BY <1>1, <1>3, <3>1, IdsStay
  <2>10. ASSUME NEW d \in Clients, d # c, d \in Ann!InCourse(a)
         PROVE  RequestFits(request[d], stored, timeline[a], ~ overlapped[a])
    <3>1. overlapped[a]
      BY <1>2, <2>10
    <3>2. RequestFits(request[d], announcement[a], timeline[a], ~ overlapped[a])
      BY <2>10 DEF StoredInvariant, RequestsFit, Ann!InCourse
    <3>3. ReadFits(request[d], stored, ~ overlapped[a])
      BY <2>4, <2>8, <2>10, <3>1, <3>2 DEF RequestFits, ReadFits, IsRow, Ann!InCourse
    <3> QED  BY <3>1, <3>3 DEF RequestFits
  <2>11. ~ overlapped[a] => hour = closed'[a]
    <3> SUFFICES ASSUME ~ overlapped[a]  PROVE hour = closed'[a]
      OBVIOUS
    <3>1. /\ announcement[a].resolved = closed[a] /\ r.row.resolved = closed[a]
          /\ announcement[a].phase = "resolved" <=> announcement[a].resolved # None
      BY <1>2, <2>4, <2>8 DEF RowFits, Stamped
    <3> QED  BY <2>5, <3>1 DEF Ann!Stamp, Ann!Resolved
  <2>12. ~ overlapped[a] /\ NoneTold(a)' /\ timeline[a] # <<>> => r.phase = Latest(timeline[a])
    <3> SUFFICES ASSUME ~ overlapped[a], NoneTold(a)', timeline[a] # <<>>
                 PROVE  r.phase = Latest(timeline[a])
      OBVIOUS
    <3>1. CASE r.kind = "publish"
      BY <1>1, <2>4, <2>7, <3>1 DEF EntryFits
    <3>2. CASE r.kind = "edit"
      <4>1. ~ silent[a] /\ r.phase = announcement[a].phase
        BY <2>5, <3>2 DEF NoneTold
      <4>2. ASSUME NEW d \in Clients, Published(d, a)  PROVE FALSE
        <5>1. d # c
          BY <3>2, <4>2 DEF Published
        <5>2. Published(d, a)'
          BY <1>6, <4>2, <5>1 DEF Published
        <5> QED  BY <5>2 DEF NoneTold
      <4> QED  BY <1>2, <2>4, <4>1, <4>2 DEF RowFits, NoneTold
    <3> QED  BY <2>1, <3>1, <3>2
  <2>13. RowFits(stored, timeline[a], closed'[a], ~ overlapped[a], NoneTold(a)', now)
    BY <1>2, <2>3, <2>4, <2>11, <2>12 DEF RowFits, IsRow
  <2>14. \A d \in Clients : d # c /\ ~ overlapped[a] => d \notin Ann!InCourse(a)
    BY <1>2
  <2> QED  BY <1>1, <1>2, <1>4, <1>6, <1>7, <2>5, <2>6, <2>9, <2>10, <2>13, <2>14, StepsOfOne
<1> QED  BY <1>8, <1>9

\* An announcement is made, the next of them.
LEMMA AnnouncementIsMade ==
    ASSUME AnnouncementSorts, StoredInvariant, NEW c \in Clients, NEW b \in Bodies,
           NEW says \in BOOLEAN, Ann!Create(c, b, says)
    PROVE  StoredInvariant'
<1> DEFINE first(a) == [step |-> "entry", kind |-> "create", of |-> a, phase |-> b.phase,
                        at |-> now, row |-> None]
           made == [phase |-> b.phase, global |-> b.global, components |-> b.components,
                    started |-> now, resolved |-> Ann!Stamp(None, b.phase, now)]
<1>1. PICK a \in Announcements :
         /\ announcement[a] = None /\ \A x \in Announcements : x < a => announcement[x] # None
         /\ announcement' = [announcement EXCEPT ![a] = made]
         /\ Ann!Closes(a, b.phase, now)
         /\ Ann!Goes(c, IF says THEN first(a) ELSE Ann!Idle)
  BY DEF Ann!Create
<1>2. /\ request[c].step = "idle" /\ UNCHANGED <<now, timeline, published, view, overlapped, silent>>
  BY DEF Ann!Create, Ann!Request
<1>3. /\ now \in Nat /\ closed \in [Announcements -> Nat \cup {None}]
      /\ announcement \in [Announcements -> AnnounceRow \cup {None, Gone}]
      /\ request \in [Clients -> AnnounceRequests] /\ timeline \in [Announcements -> Seq(Entry)]
  BY DEF StoredInvariant, AnnounceShapes
<1>4. b \in AnnounceBody
  BY DEF AnnouncementSorts
<1>5. made \in AnnounceRow /\ made.phase = b.phase /\ made.started = now
      /\ made.resolved = (IF b.phase = "resolved" THEN now ELSE None) /\ Stamped(made)
  <2>1. /\ Ann!Stamp(None, b.phase, now) = (IF b.phase = "resolved" THEN now ELSE None)
        /\ Ann!Stamp(None, b.phase, now) \in Nat \cup {None}
    BY <1>3 DEF Ann!Stamp, Ann!Resolved
  <2> QED  BY <1>3, <1>4, <2>1 DEF AnnounceRow, AnnounceBody, Stamped, AnnouncementSorts
<1> HIDE DEF made
<1> DEFINE q == IF says THEN first(a) ELSE Ann!Idle
<1>6. /\ q \in AnnounceRequests
      /\ q.step # "idle" => /\ q.step = "entry" /\ q.kind = "create" /\ q.of = a /\ q.phase = b.phase
                            /\ q.at = now
  <2>1. first(a) \in FirstEntry
    BY <1>3, <1>4 DEF FirstEntry, AnnounceBody
  <2>2. Ann!Idle \in AnnounceRequests /\ Ann!Idle.step = "idle"
    BY DEF Ann!Idle, AnnounceRequests, AnnounceIdle
  <2> QED  BY <2>1, <2>2 DEF AnnounceRequests
<1>7. request' = [request EXCEPT ![c] = q]
  BY <1>1 DEF Ann!Goes
<1> HIDE DEF q
<1>8. request'[c] = q /\ \A d \in Clients : d # c => request'[d] = request[d]
  BY <1>3, <1>7
<1>9. /\ announcement'[a] = made
      /\ \A x \in Announcements : x # a => announcement'[x] = announcement[x] /\ closed'[x] = closed[x]
      /\ closed'[a] = (IF b.phase = "resolved" THEN now ELSE None)
      /\ closed' \in [Announcements -> Nat \cup {None}]
  BY <1>1, <1>3 DEF Ann!Closes, Ann!Stored, Ann!Resolved
<1>10. IsRow(made)
  BY <1>5 DEF IsRow, AnnouncementSorts
<1>11. \A d \in Clients : d \notin Ann!InCourse(a)
  <2> SUFFICES ASSUME NEW d \in Clients, d \in Ann!InCourse(a)  PROVE FALSE
    OBVIOUS
  <2>1. RequestFits(request[d], announcement[a], timeline[a], ~ overlapped[a])
    BY DEF StoredInvariant, RequestsFit, Ann!InCourse
  <2> QED  BY <1>1, <2>1 DEF RequestFits, ReadFits, Ann!InCourse
<1>12. timeline[a] = <<>> /\ DOMAIN timeline[a] = {}
  BY <1>1 DEF StoredInvariant, RowsFit, RowFits
<1>13. AnnounceShapes'
  <2>1. announcement' \in [Announcements -> AnnounceRow \cup {None, Gone}]
    BY <1>1, <1>3, <1>5
  <2>2. request' \in [Clients -> AnnounceRequests]
    BY <1>3, <1>6, <1>7
  <2> QED  BY <1>2, <1>9, <2>1, <2>2 DEF StoredInvariant, AnnounceShapes
<1>14. IdsInOrder'
  <2>1. \A x \in Announcements :
          /\ announcement'[x] # None <=> x = a \/ announcement[x] # None
          /\ Ann!Stored(x)' <=> x = a \/ Ann!Stored(x)
          /\ x # a => announcement'[x] = announcement[x]
    BY <1>1, <1>9, <1>10 DEF Ann!Stored, IsRow
  <2>2. \A x \in Announcements : x \in Nat
    BY DEF AnnouncementSorts
  <2>3. \A x \in Announcements : a < x => announcement[x] = None
    BY <1>1 DEF StoredInvariant, IdsInOrder
  <2>4. \A x, y \in Announcements : x < y /\ announcement'[y] # None => announcement'[x] # None
    <3> SUFFICES ASSUME NEW x \in Announcements, NEW y \in Announcements, x < y, announcement'[y] # None
                 PROVE  announcement'[x] # None
      OBVIOUS
    <3>1. CASE y = a
      BY <1>1, <2>1, <3>1
    <3>2. CASE y # a
      BY <2>1, <3>2 DEF StoredInvariant, IdsInOrder
    <3> QED  BY <3>1, <3>2
  <2>5. \A x \in Announcements : Ann!Stored(x)' => announcement'[x].started <= now
    <3>1. \A x \in Announcements : Ann!Stored(x) => announcement[x].started <= now
      BY DEF StoredInvariant, IdsInOrder
    <3>2. now' = now /\ announcement'[a].started <= now
      BY <1>2, <1>3, <1>5, <1>9
    <3> QED  BY <2>1, <3>1, <3>2
  <2>6. \A x, y \in Announcements : x < y /\ Ann!Stored(x)' /\ Ann!Stored(y)' =>
            announcement'[x].started <= announcement'[y].started
    <3> SUFFICES ASSUME NEW x \in Announcements, NEW y \in Announcements, x < y,
                        Ann!Stored(x)', Ann!Stored(y)'
                 PROVE  announcement'[x].started <= announcement'[y].started
      OBVIOUS
    <3>1. CASE y = a
      BY <1>5, <1>9, <2>5, <3>1
    <3>2. CASE x = a
      BY <2>1, <2>2, <2>3, <3>2 DEF Ann!Stored
    <3>3. CASE x # a /\ y # a
      BY <2>1, <3>3 DEF StoredInvariant, IdsInOrder
    <3> QED  BY <3>1, <3>2, <3>3
  <2> QED  BY <1>2, <2>4, <2>5, <2>6 DEF IdsInOrder
<1>15. RequestFits(q, made, timeline[a], ~ overlapped[a])
  BY <1>5, <1>6, <1>10, <1>12 DEF RequestFits, ReadFits, EntryFits, IsRow
<1>16. RowFits(made, timeline[a], closed'[a], ~ overlapped[a], NoneTold(a)', now)
  BY <1>5, <1>9, <1>10, <1>12 DEF RowFits, IsRow, EntriesInOrder
<1>17. q.step \in {"entry", "write"} => q.at <= now
  BY <1>3, <1>6
<1> QED  BY <1>2, <1>6, <1>8, <1>9, <1>11, <1>13, <1>14, <1>15, <1>16, <1>17, StepsOfOne

\* An announcement goes, and its entries.
LEMMA AnnouncementGoes ==
    ASSUME AnnouncementSorts, StoredInvariant, NEW a \in Announcements, Ann!Delete(a)
    PROVE  StoredInvariant'
<1>1. /\ announcement' = [announcement EXCEPT ![a] = Gone]
      /\ timeline' = [timeline EXCEPT ![a] = <<>>]
      /\ UNCHANGED <<now, published, request, view, closed, overlapped, silent>>
      /\ announcement[a] # None
  BY DEF Ann!Delete, Ann!Stored
<1>2. /\ now \in Nat /\ overlapped \in [Announcements -> BOOLEAN]
      /\ announcement \in [Announcements -> AnnounceRow \cup {None, Gone}]
      /\ timeline \in [Announcements -> Seq(Entry)]
  BY DEF StoredInvariant, AnnounceShapes
<1>3. /\ announcement'[a] = Gone /\ timeline'[a] = <<>> /\ DOMAIN timeline'[a] = {}
      /\ \A x \in Announcements : x # a => announcement'[x] = announcement[x] /\ timeline'[x] = timeline[x]
  BY <1>1, <1>2
<1>4. AnnounceShapes'
  <2>1. timeline' \in [Announcements -> Seq(Entry)]
    BY <1>1, <1>2
  <2>2. announcement' \in [Announcements -> AnnounceRow \cup {None, Gone}]
    BY <1>1, <1>2
  <2> QED  BY <1>1, <2>1, <2>2 DEF StoredInvariant, AnnounceShapes
<1>5. ~ IsRow(Gone) /\ Gone # None
  BY DEF IsRow, AnnouncementSorts
<1>6. IdsInOrder'
  <2>1. \A x \in Announcements :
           /\ announcement[x] # None <=> announcement'[x] # None
           /\ IsRow(announcement'[x]) => /\ IsRow(announcement[x])
                                         /\ announcement'[x].started = announcement[x].started
    BY <1>1, <1>3, <1>5
  <2> QED  BY <1>1, <1>2, <2>1, IdsStay
<1>7. \A d \in Clients, alone \in BOOLEAN : RequestFits(request[d], Gone, <<>>, alone)
  BY <1>5 DEF RequestFits, ReadFits, EntryFits
<1>8. \A hour, alone, heard, time : RowFits(Gone, <<>>, hour, alone, heard, time)
  BY <1>5 DEF RowFits, EntriesInOrder
<1>9. PICK c : c \notin Clients
  BY NoSetContainsEverything
<1>10. \A d \in Clients : RequestFits(request[d], announcement'[a], timeline'[a], ~ overlapped'[a])
  BY <1>1, <1>2, <1>3, <1>7
<1>11. RowFits(announcement'[a], timeline'[a], closed'[a], ~ overlapped'[a], NoneTold(a)', now')
  BY <1>3, <1>8
<1> QED  BY <1>1, <1>3, <1>4, <1>6, <1>9, <1>10, <1>11, StepsOfOne

\* A monitor goes, and is no longer a component of any.
LEMMA ComponentGoes ==
    ASSUME AnnouncementSorts, StoredInvariant, NEW m \in Monitors, Ann!DeleteMonitor(m)
    PROVE  StoredInvariant'
<1>1. /\ published' = published \ {m}
      /\ announcement' = [a \in Announcements |->
            IF Ann!Stored(a) THEN [announcement[a] EXCEPT !.components = @ \ {m}]
                             ELSE announcement[a]]
      /\ UNCHANGED <<now, timeline, request, view, closed, overlapped, silent>>
  BY DEF Ann!DeleteMonitor
<1>2. ASSUME NEW a \in Announcements
      PROVE  /\ announcement'[a] \in AnnounceRow \cup {None, Gone}
             /\ ~ IsRow(announcement[a]) => announcement'[a] = announcement[a]
             /\ IsRow(announcement[a]) =>
                   /\ IsRow(announcement'[a]) /\ announcement'[a].phase = announcement[a].phase
                   /\ announcement'[a].started = announcement[a].started
                   /\ announcement'[a].resolved = announcement[a].resolved
             /\ announcement'[a] = None <=> announcement[a] = None
  <2>1. CASE IsRow(announcement[a])
    <3>1. announcement[a] \in AnnounceRow
      BY <2>1, StoredRow DEF StoredInvariant
    <3>2. announcement'[a] = [announcement[a] EXCEPT !.components = @ \ {m}]
      BY <1>1, <2>1 DEF Ann!Stored, IsRow
    <3>3. /\ announcement'[a] \in AnnounceRow /\ announcement'[a].phase = announcement[a].phase
          /\ announcement'[a].started = announcement[a].started
          /\ announcement'[a].resolved = announcement[a].resolved
      BY <3>1, <3>2 DEF AnnounceRow
    <3> QED  BY <2>1, <3>3 DEF IsRow, AnnouncementSorts
  <2>2. CASE ~ IsRow(announcement[a])
    <3>1. announcement'[a] = announcement[a]
      BY <1>1, <2>2 DEF Ann!Stored, IsRow
    <3> QED  BY <2>2, <3>1 DEF StoredInvariant, AnnounceShapes
  <2> QED  BY <2>1, <2>2
<1>3. AnnounceShapes'
  <2>1. announcement' \in [Announcements -> AnnounceRow \cup {None, Gone}]
    <3>1. announcement' = [a \in Announcements |-> announcement'[a]]
      BY <1>1
    <3> QED  BY <1>2, <3>1
  <2> QED  BY <1>1, <2>1 DEF StoredInvariant, AnnounceShapes
<1>4. IdsInOrder'
  <2>1. now \in Nat
    BY DEF StoredInvariant, AnnounceShapes
  <2> QED  BY <1>1, <1>2, <2>1, IdsStay
<1>5. RequestsFit'
  <2> SUFFICES ASSUME NEW d \in Clients, request[d].step # "idle", NEW a, a = request[d].of
               PROVE  RequestFits(request[d], announcement'[a], timeline[a], ~ overlapped[a])
    BY <1>1 DEF RequestsFit
  <2>1. a \in Announcements /\ RequestFits(request[d], announcement[a], timeline[a], ~ overlapped[a])
    BY FitsNow
  <2> QED  BY <1>2, <2>1 DEF RequestFits, ReadFits, EntryFits
<1>6. HoursPast' /\ Alone'
  BY <1>1 DEF StoredInvariant, HoursPast, Alone, Ann!InCourse
<1>7. RowsFit'
  <2> SUFFICES ASSUME NEW a \in Announcements
               PROVE  RowFits(announcement'[a], timeline[a], closed[a], ~ overlapped[a], NoneTold(a), now)
    BY <1>1 DEF RowsFit, NoneTold, Published
  <2>1. RowFits(announcement[a], timeline[a], closed[a], ~ overlapped[a], NoneTold(a), now)
    BY DEF StoredInvariant, RowsFit
  <2> QED  BY <1>2, <2>1 DEF RowFits, Stamped
<1> QED  BY <1>3, <1>4, <1>5, <1>6, <1>7 DEF StoredInvariant

\* No announcement is forgotten, or begins at another hour.
RowsPersist ==
    \A a \in Announcements : announcement[a] # None =>
        /\ announcement'[a] # None
        /\ IsRow(announcement'[a]) => /\ IsRow(announcement[a])
                                      /\ announcement'[a].started = announcement[a].started

\* What writes: all but the steps of the page.
Others ==
    \/ \E c \in Clients, b \in Bodies, says \in BOOLEAN : Ann!Create(c, b, says)
    \/ \E c \in Clients, a \in Announcements, b \in Bodies, kind \in {"edit", "publish"} :
          Ann!ReadRow(c, a, kind, b)
    \/ \E c \in Clients : Ann!ReadComponents(c) \/ Ann!AddUpdate(c) \/ Ann!Write(c) \/ Ann!Fail(c)
    \/ \E a \in Announcements : Ann!Delete(a)
    \/ \E m \in Monitors : Ann!DeleteMonitor(m) \/ Ann!Publish(m)
    \/ Ann!Tick

LEMMA RowsOutlast ==
    ASSUME AnnouncementSorts, StoredInvariant, Others
    PROVE  RowsPersist /\ view' = view
<1>1. announcement \in [Announcements -> AnnounceRow \cup {None, Gone}]
  BY DEF StoredInvariant, AnnounceShapes
<1>2. ASSUME NEW c \in Clients, Ann!Write(c)  PROVE RowsPersist /\ view' = view
  <2> PICK r : r = request[c]
    OBVIOUS
  <2> PICK a : a = r.of
    OBVIOUS
  <2> PICK hour : hour = Ann!Stamp(r.row.resolved, r.phase, r.at)
    OBVIOUS
  <2> DEFINE stored == [r.row EXCEPT !.phase = r.phase, !.resolved = hour]
  <2>1. /\ r.step = "write" /\ view' = view
        /\ \/ Ann!Stored(a) /\ announcement' = [announcement EXCEPT ![a] = stored]
           \/ announcement' = announcement
    <3>1. stored = [r.row EXCEPT !.phase = r.phase, !.resolved = Ann!Stamp(@, r.phase, r.at)]
      OBVIOUS
    <3> QED  BY <1>2, <3>1 DEF Ann!Write, Ann!Phase
  <2>2. /\ a \in Announcements /\ r \in AnnounceRequests
        /\ RequestFits(r, announcement[a], timeline[a], ~ overlapped[a])
    BY <2>1, FitsNow
  <2>3. r.row \in AnnounceRow /\ r.kind # "create"
    BY <2>1, <2>2, AnnounceSteps
  <2>4. Ann!Stored(a) => stored.started = announcement[a].started /\ IsRow(announcement[a]) /\ stored # None
    <3> SUFFICES ASSUME Ann!Stored(a)
                 PROVE  stored.started = announcement[a].started /\ IsRow(announcement[a]) /\ stored # None
      OBVIOUS
    <3>1. IsRow(announcement[a])
      BY DEF Ann!Stored, IsRow
    <3>2. r.row.started = announcement[a].started
      BY <2>1, <2>2, <2>3, <3>1 DEF RequestFits, ReadFits
    <3>3. r.phase \in Phases /\ r.at \in Nat
      BY <2>1, <2>2, AnnounceSteps
    <3>4. hour \in Nat \cup {None}
      BY <2>3, <3>3, StampTyped DEF AnnounceRow
    <3>5. stored \in AnnounceRow /\ stored.started = r.row.started
      BY <2>3, <3>3, <3>4 DEF AnnounceRow
    <3> QED  BY <3>1, <3>2, <3>5 DEF AnnouncementSorts
  <2> HIDE DEF stored
  <2> QED  BY <1>1, <2>1, <2>2, <2>4 DEF RowsPersist, IsRow
<1>3. ASSUME NEW c \in Clients, NEW b \in Bodies, NEW says \in BOOLEAN, Ann!Create(c, b, says)
      PROVE  RowsPersist /\ view' = view
  <2>1. view' = view /\ \E a \in Announcements : /\ announcement[a] = None
                                                /\ \A x \in Announcements : x # a => announcement'[x] = announcement[x]
    BY <1>1, <1>3 DEF Ann!Create
  <2> QED  BY <2>1 DEF RowsPersist
<1>4. ASSUME NEW a \in Announcements, Ann!Delete(a)  PROVE RowsPersist /\ view' = view
  <2>1. view' = view /\ announcement' = [announcement EXCEPT ![a] = Gone]
    BY <1>4 DEF Ann!Delete
  <2> QED  BY <1>1, <2>1 DEF RowsPersist, IsRow, AnnouncementSorts
<1>5. ASSUME NEW m \in Monitors, Ann!DeleteMonitor(m)  PROVE RowsPersist /\ view' = view
  <2>1. view' = view
        /\ announcement' = [a \in Announcements |->
              IF Ann!Stored(a) THEN [announcement[a] EXCEPT !.components = @ \ {m}]
                               ELSE announcement[a]]
    BY <1>5 DEF Ann!DeleteMonitor
  <2>2. ASSUME NEW a \in Announcements, announcement[a] # None
        PROVE  /\ announcement'[a] # None
               /\ IsRow(announcement'[a]) => /\ IsRow(announcement[a])
                                             /\ announcement'[a].started = announcement[a].started
    <3>1. CASE IsRow(announcement[a])
      <4>1. announcement[a] \in AnnounceRow
        BY <3>1, StoredRow DEF StoredInvariant
      <4>2. announcement'[a] = [announcement[a] EXCEPT !.components = @ \ {m}]
        BY <2>1, <3>1 DEF Ann!Stored, IsRow
      <4>3. announcement'[a] \in AnnounceRow /\ announcement'[a].started = announcement[a].started
        BY <4>1, <4>2 DEF AnnounceRow
      <4> QED  BY <3>1, <4>3 DEF AnnouncementSorts
    <3>2. CASE ~ IsRow(announcement[a])
      BY <2>1, <2>2, <3>2 DEF Ann!Stored, IsRow
    <3> QED  BY <3>1, <3>2
  <2> QED  BY <2>1, <2>2 DEF RowsPersist
<1>6. ASSUME announcement' = announcement, view' = view  PROVE RowsPersist /\ view' = view
  BY <1>6 DEF RowsPersist
<1> QED
  BY <1>2, <1>3, <1>4, <1>5, <1>6
  DEF Others, Ann!ReadRow, Ann!ReadComponents, Ann!AddUpdate, Ann!Fail, Ann!Publish, Ann!Tick

\* What the others write keeps what is stored.
LEMMA OthersKeepStored ==
    ASSUME AnnouncementSorts, StoredInvariant, Others  PROVE StoredInvariant'
<1>1. ASSUME NEW m \in Monitors, Ann!Publish(m)  PROVE StoredInvariant'
  <2>1. /\ UNCHANGED <<now, announcement, timeline, request, view, closed, overlapped, silent>>
        /\ published' = IF m \in published THEN published \ {m} ELSE published \cup {m}
    BY <1>1 DEF Ann!Publish
  <2>2. AnnounceShapes' /\ now \in Nat
    BY <2>1 DEF StoredInvariant, AnnounceShapes
  <2> QED  BY <2>1, <2>2, StoredRests
<1>2. ASSUME Ann!Tick  PROVE StoredInvariant'
  <2>1. /\ UNCHANGED <<announcement, timeline, request, view, closed, overlapped, silent, published>>
        /\ now' = now + 1
    BY <1>2 DEF Ann!Tick
  <2>2. AnnounceShapes' /\ now' \in Nat /\ now <= now'
    BY <2>1 DEF StoredInvariant, AnnounceShapes
  <2> QED  BY <2>1, <2>2, StoredRests
<1> QED
  BY <1>1, <1>2, AnnouncementIsMade, RowIsRead, ComponentsAreRead, EntryIsAdded, RowIsWritten,
     RequestFails, AnnouncementGoes, ComponentGoes DEF Others

\* Those after an announcement are only more.
LEMMA LaterGrows ==
    ASSUME AnnouncementSorts, RowsPersist, NEW a \in Announcements, announcement[a] # None,
           view'.since = view.since, IsRow(announcement'[a]), LeftOut(a)
    PROVE  LeftOut(a)'
<1>1. LaterOnes(a) \subseteq LaterOnes(a)' /\ LaterOnes(a)' \subseteq Announcements
  BY DEF LaterOnes, RowsPersist
<1>2. IsFiniteSet(LaterOnes(a)')
  BY <1>1, FS_Subset DEF AnnouncementSorts
<1>3. IsFiniteSet(LaterOnes(a)) /\ Cardinality(LaterOnes(a)) <= Cardinality(LaterOnes(a)')
  BY <1>1, <1>2, FS_Subset
<1>4. Cardinality(LaterOnes(a)) \in Nat /\ Cardinality(LaterOnes(a)') \in Nat
  BY <1>2, <1>3, FS_CardinalityType
<1>5. announcement'[a].started = announcement[a].started
  BY DEF RowsPersist
<1> QED  BY <1>3, <1>4, <1>5 DEF LeftOut, AnnouncementSorts

\* While the others write, the page waits.
LEMMA ViewWaits ==
    ASSUME AnnouncementSorts, AnnounceInvariant, RowsPersist, view' = view, Ann!Watched
    PROVE  ViewKept'
<1> USE DEF AnnounceInvariant
<1>1. view.step \in {"idle", "list", "components", "updates", "done"}
  BY DEF StoredInvariant, AnnounceShapes, PageViews
<1>2. CASE view.step = "idle"
  <2>1. could' = {} /\ always' = {} /\ view'.step = "idle" /\ view'.rows = <<>> /\ view'.shown = {}
    BY <1>2 DEF Ann!Watched, ViewKept
  <2>2. DOMAIN view'.rows = {}
    BY <2>1
  <2> QED  BY <2>1, <2>2 DEF ViewKept, ReadingView
<1>3. CASE view.step = "done"
  <2>1. could' = could /\ always' = always
    BY <1>3 DEF Ann!Watched
  <2>2. view.rows = <<>> /\ DOMAIN view.rows = {}
    BY <1>3 DEF ViewKept
  <2>3. ASSUME NEW a \in always, IsRow(announcement'[a])
        PROVE  a \in {s.of : s \in view.shown} \/ LeftOut(a)'
    <3>1. a \in Announcements /\ announcement[a] # None /\ IsRow(announcement[a])
      BY <2>3 DEF ViewKept, RowsPersist
    <3>2. a \in {s.of : s \in view.shown} \/ LeftOut(a)
      BY <1>3, <2>2, <3>1 DEF ViewKept
    <3> QED  BY <2>3, <3>1, <3>2, LaterGrows
  <2>4. always' \subseteq {a \in Announcements : announcement'[a] # None}
    BY <2>1 DEF ViewKept, RowsPersist
  <2> QED  BY <1>3, <2>1, <2>2, <2>3, <2>4 DEF ViewKept, ReadingView
<1>4. CASE ReadingView
  <2>1. /\ could' = could \cup Ann!ForPage'
        /\ always' = {a \in always \cap Ann!ForPage' : announcement'[a] = announcement[a]}
    BY <1>4 DEF Ann!Watched, ReadingView
  <2>2. always' \subseteq always /\ always' \subseteq Ann!ForPage' /\ could \subseteq could'
    BY <2>1
  <2>3. always' \subseteq {a \in Announcements : announcement'[a] # None}
    BY <2>2 DEF ViewKept, RowsPersist
  <2>4. \A s \in view.shown : s.of \in could' /\ Stamped(s)
    BY <2>2 DEF ViewKept
  <2>5. \A i \in DOMAIN view.rows : WasForPage(view.rows[i], view.published, could')
    BY <2>2 DEF ViewKept, WasForPage
  <2>6. ASSUME view.step \in {"components", "updates"}, NEW a \in always', IsRow(announcement'[a])
        PROVE  \/ a \in {s.of : s \in view.shown}
               \/ LeftOut(a)'
               \/ \E i \in DOMAIN view.rows : Stands(view.rows[i], a, announcement'[a])
    <3>1. a \in always /\ announcement'[a] = announcement[a] /\ a \in Announcements
      BY <2>1 DEF ViewKept
    <3>2. \/ a \in {s.of : s \in view.shown}
          \/ LeftOut(a)
          \/ \E i \in DOMAIN view.rows : Stands(view.rows[i], a, announcement[a])
      BY <2>6, <3>1 DEF ViewKept
    <3>3. LeftOut(a) => LeftOut(a)'
      BY <2>6, <3>1, LaterGrows DEF ViewKept
    <3> QED  BY <3>1, <3>2, <3>3
  <2>7. view.step \in {"list", "components", "updates"}
    BY <1>4 DEF ReadingView
  <2>8. /\ view.step = "list" => view.rows = <<>>
        /\ view.step = "components" => \E i \in DOMAIN view.rows : ~ view.rows[i].read
        /\ view.step = "updates" => view.rows # <<>> /\ \A i \in DOMAIN view.rows : view.rows[i].read
    BY DEF ViewKept
  <2> QED  BY <2>2, <2>3, <2>4, <2>5, <2>6, <2>7, <2>8 DEF ViewKept, ReadingView
<1> QED  BY <1>1, <1>2, <1>3, <1>4 DEF ReadingView

\* A step of the page changes nothing of what is stored.
LEMMA ViewKeepsStored ==
    ASSUME AnnouncementSorts, StoredInvariant,
           UNCHANGED <<now, announcement, timeline, published, request, closed, overlapped, silent>>,
           view' \in PageViews
    PROVE  StoredInvariant'
<1>1. AnnounceShapes'
  BY DEF StoredInvariant, AnnounceShapes, PageViews
<1>2. now \in Nat
  BY DEF StoredInvariant, AnnounceShapes, PageViews
<1> QED  BY <1>1, <1>2, StoredRests

\* The page begins with its components and nothing else.
LEMMA PageBegins ==
    ASSUME AnnouncementSorts, AnnounceInvariant, Ann!StartView, Ann!Watched
    PROVE  AnnounceInvariant'
<1>1. /\ view.step \in {"idle", "done"}
      /\ view' = [step |-> "list", published |-> published, since |-> now - (WindowDays - 1),
                  rows |-> <<>>, shown |-> {}]
      /\ UNCHANGED <<now, announcement, timeline, published, request, closed, overlapped, silent>>
  BY DEF Ann!StartView, Ann!Blank
<1>2. now \in Nat /\ published \subseteq Monitors
  BY DEF AnnounceInvariant, StoredInvariant, AnnounceShapes
<1>3. StoredInvariant'
  BY <1>1, <1>2, ViewKeepsStored DEF AnnounceInvariant, AnnouncementSorts, PageViews
<1>4. view'.step = "list" /\ view'.rows = <<>> /\ view'.shown = {} /\ DOMAIN view'.rows = {}
  BY <1>1
<1>5. could' = Ann!ForPage' /\ always' = could'
  BY <1>1, <1>4 DEF Ann!Watched
<1>6. Ann!ForPage' \subseteq {a \in Announcements : announcement'[a] # None}
  BY DEF Ann!ForPage, Ann!Stored
<1> QED  BY <1>3, <1>4, <1>5, <1>6 DEF AnnounceInvariant, ViewKept, ReadingView

\* The newest first: each of them has its place after those that are newer.
LEMMA NewestOrders ==
    ASSUME AnnouncementSorts, AnnounceShapes, NEW ids \in SUBSET Announcements,
           \A a \in ids : IsRow(announcement[a])
    PROVE  /\ Cardinality(ids) \in Nat
           /\ Ann!Newest(ids) \in [1..Cardinality(ids) -> ids]
           /\ \A a \in ids : /\ Cardinality({b \in ids : Ann!Newer(b, a)}) + 1 \in 1..Cardinality(ids)
                             /\ Ann!Newest(ids)[Cardinality({b \in ids : Ann!Newer(b, a)}) + 1] = a
<1> DEFINE L == {p \in ids \X ids : Ann!Newer(p[1], p[2])}
<1>1. IsFiniteSet(ids)
  BY FS_Subset DEF AnnouncementSorts
<1>2. \A a \in ids : a \in Nat /\ announcement[a].started \in Nat
  BY StoredRow DEF AnnouncementSorts, AnnounceRow
<1>3. \A a, b \in ids : <<a, b>> \in L <=> Ann!Newer(a, b)
  OBVIOUS
<1> HIDE DEF L
<1>4. Orders(L, ids)
  BY <1>2, <1>3 DEF Orders, Ann!Newer
<1>5. \A a \in ids : Ahead(L, ids, a) = {b \in ids : Ann!Newer(b, a)}
  BY <1>3 DEF Ahead
<1> DEFINE before(a) == Cardinality({b \in ids : Ann!Newer(b, a)})
           n == Cardinality(ids)
<1>6. /\ n \in Nat
      /\ \A k \in 1..n : \E a \in ids : before(a) = k - 1
      /\ \A a \in ids : before(a) + 1 \in 1..n
      /\ \A a, b \in ids : before(a) = before(b) => a = b
  <2>1. \A a \in ids : before(a) = Cardinality(Ahead(L, ids, a))
    BY <1>5
  <2> HIDE DEF before
  <2> QED  BY <1>1, <1>4, <2>1, EachPlaceIsTaken
<1>7. Ann!Newest(ids) = [k \in 1..n |-> CHOOSE a \in ids : before(a) = k - 1]
  BY DEF Ann!Newest, Ann!Cardinality, Cardinality
<1> HIDE DEF before, n
<1>8. \A k \in 1..n : /\ Ann!Newest(ids)[k] \in ids
                      /\ before(Ann!Newest(ids)[k]) = k - 1
  BY <1>6, <1>7
<1>9. Ann!Newest(ids) \in [1..n -> ids]
  BY <1>7, <1>8
<1>10. ASSUME NEW a \in ids  PROVE Ann!Newest(ids)[before(a) + 1] = a
  <2>1. before(a) + 1 \in 1..n
    BY <1>6
  <2>2. before(Ann!Newest(ids)[before(a) + 1]) = (before(a) + 1) - 1
    BY <1>8, <2>1
  <2>3. \A b \in ids : before(b) + 1 \in 1..n
    BY <1>6
  <2>4. before(a) \in Int
    BY <1>1, FS_Subset, FS_CardinalityType DEF before
  <2>5. (before(a) + 1) - 1 = before(a)
    BY <2>4
  <2> QED  BY <1>6, <1>8, <2>1, <2>2, <2>5
<1> QED  BY <1>6, <1>9, <1>10 DEF before, n

\* The announcements of the page are those of its days, the newest of them.
LEMMA PageIsListed ==
    ASSUME AnnouncementSorts, AnnounceInvariant, Ann!List, Ann!Watched
    PROVE  AnnounceInvariant'
<1> DEFINE recent == {a \in Announcements : Ann!Stored(a) /\ announcement[a].started >= view.since}
           found == Ann!Newest(recent)
           n == Cardinality(recent)
           items == IF Len(found) > Limit THEN SubSeq(found, 1, Limit) ELSE found
           before(a) == Cardinality({b \in recent : Ann!Newer(b, a)})
<1> USE DEF AnnounceInvariant, StoredInvariant
<1>1. /\ view.step = "list"
      /\ view' = [view EXCEPT
           !.step = IF items = <<>> THEN "done" ELSE "components",
           !.rows = [i \in DOMAIN items |-> [of |-> items[i], row |-> announcement[items[i]],
                                             read |-> FALSE]]]
      /\ UNCHANGED <<now, announcement, timeline, published, request, closed, overlapped, silent>>
  BY DEF Ann!List
<1>2. /\ n \in Nat /\ found \in [1..n -> recent]
      /\ \A a \in recent : before(a) + 1 \in 1..n /\ found[before(a) + 1] = a
      /\ \A a \in recent : IsRow(announcement[a]) /\ a \in Announcements
  <2>1. recent \in SUBSET Announcements /\ \A a \in recent : IsRow(announcement[a])
    BY DEF Ann!Stored, IsRow
  <2> HIDE DEF recent
  <2> QED  BY <2>1, NewestOrders
<1>3. Limit \in Nat
  BY DEF AnnouncementSorts
<1> HIDE DEF found, before, n
<1>4. PICK size \in Nat : /\ items \in [1..size -> recent] /\ DOMAIN items = 1..size
                          /\ size = 0 <=> items = <<>>
                          /\ \A k \in 1..size : items[k] = found[k]
                          /\ size = n \/ (size = Limit /\ size < n)
  <2>1. found \in Seq(recent) /\ Len(found) = n
    BY <1>2
  <2>2. CASE n > Limit
    <3>1. items = SubSeq(found, 1, Limit)
      BY <2>1, <2>2
    <3>2. /\ items \in Seq(recent) /\ Len(items) = Limit
          /\ \A k \in 1..Limit : items[k] = found[k]
      BY <1>2, <1>3, <2>1, <2>2, <3>1
    <3> HIDE DEF items, recent
    <3>3. items \in [1..Limit -> recent] /\ DOMAIN items = 1..Limit
      BY <1>3, <3>2
    <3>4. Limit = 0 <=> items = <<>>
      BY <1>3, <3>2
    <3> QED  BY <1>3, <2>2, <3>2, <3>3, <3>4
  <2>3. CASE ~ (n > Limit)
    <3>1. items = found
      BY <2>1, <2>3
    <3>2. n = 0 <=> found = <<>>
      BY <1>2, <2>1
    <3> QED  BY <1>2, <3>1, <3>2
  <2> QED  BY <2>2, <2>3
<1>5. \A a \in recent : before(a) + 1 \in 1..size => \E k \in 1..size : items[k] = a
  BY <1>2, <1>4
<1> HIDE DEF items
<1> DEFINE rows == [i \in 1..size |-> [of |-> items[i], row |-> announcement[items[i]], read |-> FALSE]]
<1>6. view' = [view EXCEPT !.step = IF size = 0 THEN "done" ELSE "components", !.rows = rows]
  BY <1>1, <1>4
<1>7. \A i \in 1..size : /\ rows[i] \in ListedRow /\ rows[i].of = items[i]
                         /\ rows[i].row = announcement[items[i]] /\ rows[i].read = FALSE
                         /\ items[i] \in recent
  <2> SUFFICES ASSUME NEW i \in 1..size
               PROVE  /\ rows[i] \in ListedRow /\ rows[i].of = items[i]
                      /\ rows[i].row = announcement[items[i]] /\ rows[i].read = FALSE
                      /\ items[i] \in recent
    OBVIOUS
  <2>1. items[i] \in recent
    BY <1>4
  <2>2. items[i] \in Announcements /\ announcement[items[i]] \in AnnounceRow
    BY <1>2, <2>1, StoredRow
  <2> QED  BY <2>1, <2>2 DEF ListedRow
<1>8. rows \in Seq(ListedRow) /\ DOMAIN rows = 1..size /\ (size = 0 => rows = <<>>)
  BY <1>4, <1>7
<1> HIDE DEF rows
<1>9. /\ view'.step = (IF size = 0 THEN "done" ELSE "components") /\ view'.rows = rows
      /\ view'.published = view.published /\ view'.since = view.since /\ view'.shown = view.shown
      /\ view' \in PageViews
  BY <1>6, <1>8 DEF AnnounceShapes, PageViews
<1>10. StoredInvariant'
  BY <1>1, <1>9, ViewKeepsStored
<1>11. /\ always' \subseteq always /\ could \subseteq could'
       /\ size # 0 => always' \subseteq Ann!ForPage' /\ Ann!ForPage' \subseteq could'
  BY <1>1, <1>9 DEF Ann!Watched
<1>12. \A s \in view.shown : s.of \in could' /\ Stamped(s)
  BY <1>11 DEF ViewKept
<1>13. \A i \in 1..size : WasForPage(rows[i], view.published, could')
  <2> SUFFICES ASSUME NEW i \in 1..size  PROVE WasForPage(rows[i], view.published, could')
    OBVIOUS
  <2>1. items[i] \in recent /\ IsRow(announcement[items[i]]) /\ items[i] \in Announcements
    BY <1>2, <1>7
  <2>2. Stamped(announcement[items[i]])
    BY <2>1 DEF RowsFit, RowFits
  <2>3. announcement[items[i]].global => items[i] \in Ann!ForPage'
    BY <1>1, <2>1 DEF Ann!ForPage, Ann!Stored, IsRow
  <2>4. size # 0
    BY <1>4
  <2> QED  BY <1>7, <1>11, <2>2, <2>3, <2>4 DEF WasForPage
<1>14. ASSUME NEW a \in always', IsRow(announcement[a])
       PROVE  LeftOut(a)' \/ \E i \in 1..size : Stands(rows[i], a, announcement[a])
  <2>1. a \in Announcements /\ Ann!Stored(a) /\ announcement[a].started \in Nat
    BY <1>11, <1>14, StoredRow DEF ViewKept, AnnounceRow, Ann!Stored, IsRow
  <2>2. CASE announcement[a].started < view.since
    BY <1>1, <1>9, <2>2 DEF LeftOut
  <2>3. CASE ~ (announcement[a].started < view.since)
    <3>1. a \in recent
      BY <2>1, <2>3 DEF AnnounceShapes, PageViews
    <3>2. CASE before(a) + 1 \in 1..size
      <4>1. PICK k \in 1..size : items[k] = a
        BY <1>5, <3>1, <3>2
      <4>2. Stands(rows[k], a, announcement[a])
        BY <1>7, <4>1 DEF Stands
      <4> QED  BY <4>2
    <3>3. CASE ~ (before(a) + 1 \in 1..size)
      <4>1. before(a) + 1 \in 1..n
        BY <1>2, <3>1
      <4>2. size = Limit
        BY <1>4, <3>3, <4>1
      <4> DEFINE more == {b \in recent : Ann!Newer(b, a)}
      <4>3. more \subseteq LaterOnes(a)
        <5> SUFFICES ASSUME NEW b \in recent, Ann!Newer(b, a)  PROVE b \in LaterOnes(a)
          OBVIOUS
        <5>1. b \in Announcements /\ IsRow(announcement[b]) /\ announcement[b].started \in Nat
          BY <1>2, StoredRow DEF AnnounceRow
        <5>2. a \in Nat /\ b \in Nat
          BY <2>1, <5>1 DEF AnnouncementSorts
        <5>3. b < a => announcement[b].started <= announcement[a].started
          BY <2>1, <5>1 DEF IdsInOrder, Ann!Stored, IsRow
        <5>4. b > a
          BY <2>1, <5>1, <5>2, <5>3 DEF Ann!Newer
        <5> QED  BY <5>1, <5>4 DEF LaterOnes, IsRow
      <4>4. IsFiniteSet(LaterOnes(a))
        BY FS_Subset DEF LaterOnes, AnnouncementSorts
      <4>5. IsFiniteSet(more) /\ Cardinality(more) <= Cardinality(LaterOnes(a))
        BY <4>3, <4>4, FS_Subset
      <4>6. before(a) \in Nat /\ Cardinality(LaterOnes(a)) \in Nat /\ before(a) <= Cardinality(LaterOnes(a))
        BY <4>4, <4>5, FS_CardinalityType DEF before
      <4>7. Cardinality(LaterOnes(a)) >= Limit
        BY <1>3, <3>3, <4>2, <4>6
      <4>8. LaterOnes(a)' = LaterOnes(a)
        BY <1>1 DEF LaterOnes
      <4> QED  BY <4>7, <4>8 DEF LeftOut
    <3> QED  BY <3>2, <3>3
  <2> QED  BY <2>2, <2>3
<1>15. always' \subseteq {a \in Announcements : announcement'[a] # None}
  BY <1>1, <1>11 DEF ViewKept
<1>16. size # 0 => \E i \in 1..size : ~ rows[i].read
  <2> SUFFICES ASSUME size # 0  PROVE \E i \in 1..size : ~ rows[i].read
    OBVIOUS
  <2>1. 1 \in 1..size
    OBVIOUS
  <2> QED  BY <1>7, <2>1
<1>17. ViewKept'
  <2>1. DOMAIN view'.rows = 1..size
    BY <1>8, <1>9
  <2>2. /\ ReadingView' => size # 0 /\ view'.step = "components"
        /\ view'.step \in {"idle", "list", "done"} => size = 0 /\ view'.step = "done"
    BY <1>9 DEF ReadingView
  <2>3. size = 0 => view'.rows = <<>>
    BY <1>8, <1>9
  <2>4. \A a \in always' : IsRow(announcement'[a]) =>
            LeftOut(a)' \/ \E i \in DOMAIN view'.rows : Stands(view'.rows[i], a, announcement'[a])
    BY <1>1, <1>9, <1>14, <2>1
  <2>5. \A i \in DOMAIN view'.rows : WasForPage(view'.rows[i], view'.published, could')
    BY <1>9, <1>13, <2>1
  <2>6. view'.step = "components" => \E i \in DOMAIN view'.rows : ~ view'.rows[i].read
    BY <1>9, <1>16, <2>1
  <2>7. \A s \in view'.shown : s.of \in could' /\ Stamped(s)
    BY <1>9, <1>12
  <2>8. view'.step # "idle" /\ view'.step # "updates"
    BY <1>9
  <2> QED  BY <1>11, <1>15, <2>2, <2>3, <2>4, <2>5, <2>6, <2>7, <2>8 DEF ViewKept
<1> QED  BY <1>10, <1>17

\* The least of a set of numbers is one of them.
LEMMA LeastIndex ==
    ASSUME NEW S \in SUBSET Nat, S # {}
    PROVE  Ann!Min(S) \in S
<1> DEFINE L == OpToRel(<, Nat)
<1>1. IsWellFoundedOn(L, Nat)
  BY NatLessThanWellFounded
<1>2. L = {ss \in Nat \X Nat : ss[1] < ss[2]}
  BY Zenon DEF OpToRel
<1> HIDE DEF L
<1>3. PICK n \in S : \A k \in S : ~ (<<k, n>> \in L)
  BY <1>1, WFMin
<1>4. \A k \in S : ~ (k < n)
  BY <1>2, <1>3
<1>5. \A k \in S : n <= k
  BY <1>4
<1> QED  BY <1>5 DEF Ann!Min

\* A listed row, once its components are read, and its place in the page.
Reread(x, found) == [[x EXCEPT !.read = TRUE] EXCEPT !.row.components = found]

LEMMA RowReread ==
    ASSUME NEW x \in ListedRow, NEW found \in SUBSET Monitors
    PROVE  /\ Reread(x, found) \in ListedRow /\ Reread(x, found).of = x.of
           /\ Reread(x, found).read = TRUE
           /\ Reread(x, found).row.global = x.row.global
           /\ Reread(x, found).row.components = found
           /\ Reread(x, found).row.phase = x.row.phase
           /\ Reread(x, found).row.resolved = x.row.resolved
<1>1. x.of \in Announcements /\ x.row \in AnnounceRow /\ x.read \in BOOLEAN
  BY DEF ListedRow
<1> PICK y : y = [x EXCEPT !.read = TRUE]
  OBVIOUS
<1>2. y \in ListedRow /\ y.of = x.of /\ y.row = x.row /\ y.read = TRUE
  BY DEF ListedRow
<1> PICK stored : stored = [x.row EXCEPT !.components = found]
  OBVIOUS
<1>3. /\ stored \in AnnounceRow /\ stored.global = x.row.global /\ stored.components = found
      /\ stored.phase = x.row.phase /\ stored.resolved = x.row.resolved
  BY <1>1 DEF AnnounceRow
<1>4. Reread(x, found) = [y EXCEPT !.row = stored]
  BY <1>2, <1>3 DEF Reread
<1>5. /\ Reread(x, found) \in ListedRow /\ Reread(x, found).of = y.of /\ Reread(x, found).row = stored
      /\ Reread(x, found).read = y.read
  BY <1>2, <1>3, <1>4 DEF ListedRow
<1> QED  BY <1>2, <1>3, <1>5

PageReread(v, i, found, next) ==
    [v EXCEPT !.step = next, !.rows[i].read = TRUE, !.rows[i].row.components = found]

LEMMA IsSequence ==
    ASSUME NEW S, NEW n \in Nat, NEW s, s = [j \in 1..n |-> s[j]], \A j \in 1..n : s[j] \in S
    PROVE  s \in Seq(S)
<1>1. s \in [1..n -> S]
  OBVIOUS
<1> QED  BY <1>1

LEMMA PlaceReread ==
    ASSUME NEW v \in PageViews, NEW i \in DOMAIN v.rows, NEW found \in SUBSET Monitors,
           NEW next \in {"components", "updates"}
    PROVE  LET w == PageReread(v, i, found, next) IN
           /\ w \in PageViews /\ w.step = next /\ w.published = v.published /\ w.since = v.since
           /\ w.shown = v.shown
           /\ DOMAIN w.rows = DOMAIN v.rows
           /\ w.rows[i] = Reread(v.rows[i], found)
           /\ \A j \in DOMAIN v.rows : j # i => w.rows[j] = v.rows[j]
<1>a. PICK w : w = PageReread(v, i, found, next)
  OBVIOUS
<1>b. PICK rows : rows = v.rows
  OBVIOUS
<1>1. rows \in Seq(ListedRow) /\ DOMAIN rows = 1..Len(rows) /\ Len(rows) \in Nat
  BY <1>b DEF PageViews
<1>2. i \in DOMAIN rows /\ rows[i] \in ListedRow
  BY <1>b, <1>1
<1>3. Reread(rows[i], found) \in ListedRow
  BY <1>2, RowReread
<1>c. PICK s : s = [[rows EXCEPT ![i].read = TRUE] EXCEPT ![i].row.components = found]
  OBVIOUS
<1>4. w.rows = s
  BY <1>a, <1>b, <1>c DEF PageViews, PageReread
<1>5. /\ DOMAIN s = DOMAIN rows
      /\ s[i] = Reread(rows[i], found)
      /\ \A j \in DOMAIN rows : j # i => s[j] = rows[j]
      /\ s = [j \in DOMAIN rows |-> s[j]]
  BY <1>1, <1>2, <1>c DEF Reread
<1>6. \A j \in DOMAIN rows : s[j] \in ListedRow
  BY <1>1, <1>3, <1>5
<1>7. s \in Seq(ListedRow)
  <2> PICK n \in Nat : n = Len(rows) /\ DOMAIN rows = 1..n
    BY <1>1
  <2> QED  BY <1>5, <1>6, IsSequence
<1>8. w = [[v EXCEPT !.step = next] EXCEPT !.rows = s]
  BY <1>a, <1>b, <1>c, <1>4 DEF PageViews, PageReread
<1> QED  BY <1>a, <1>b, <1>4, <1>5, <1>7, <1>8 DEF PageViews

\* The components of one more announcement of the page are read.
LEMMA PageReadsComponents ==
    ASSUME AnnouncementSorts, AnnounceInvariant, Ann!ListComponents, Ann!Watched
    PROVE  AnnounceInvariant'
<1> USE DEF AnnounceInvariant
<1>a. PICK unread : unread = {j \in DOMAIN view.rows : ~ view.rows[j].read}
  OBVIOUS
<1>b. PICK i : i = Ann!Min(unread)
  OBVIOUS
<1>c. PICK old : old = view.rows[i]
  OBVIOUS
<1>d. PICK a : a = old.of
  OBVIOUS
<1>e. PICK found : found = IF Ann!Stored(a) THEN announcement[a].components ELSE {}
  OBVIOUS
<1>1. /\ view.step = "components"
      /\ view' = [view EXCEPT !.step = IF unread = {i} THEN "updates" ELSE @,
                              !.rows[i].read = TRUE, !.rows[i].row.components = found]
      /\ UNCHANGED <<now, announcement, timeline, published, request, closed, overlapped, silent>>
  BY <1>a, <1>b, <1>c, <1>d, <1>e DEF Ann!ListComponents
<1>2. view.rows \in Seq(ListedRow) /\ DOMAIN view.rows = 1..Len(view.rows)
  BY DEF StoredInvariant, AnnounceShapes, PageViews
<1>3. i \in unread
  <2>1. unread \in SUBSET Nat
    BY <1>a, <1>2
  <2>2. unread # {}
    BY <1>1, <1>a DEF ViewKept
  <2> QED  BY <1>b, <2>1, <2>2, LeastIndex
<1>4. i \in DOMAIN view.rows /\ old \in ListedRow
  <2>1. i \in DOMAIN view.rows
    BY <1>3, <1>a
  <2> QED  BY <1>2, <1>c, <2>1
<1>5. a \in Announcements
  BY <1>4, <1>d DEF ListedRow
<1>6. found \in SUBSET Monitors
  BY <1>5, <1>e, StoredRow DEF StoredInvariant, Ann!Stored, IsRow, AnnounceRow
<1>f. PICK l : l = Reread(old, found)
  OBVIOUS
<1>7. /\ l \in ListedRow /\ l.of = a /\ l.read = TRUE
      /\ l.row.global = old.row.global /\ l.row.components = found
      /\ l.row.phase = old.row.phase /\ l.row.resolved = old.row.resolved
  BY <1>4, <1>6, <1>d, <1>f, RowReread
<1>g. PICK rows : rows = view'.rows
  OBVIOUS
<1>11. /\ view'.step = (IF unread = {i} THEN "updates" ELSE "components") /\ view'.rows = rows
       /\ view'.published = view.published /\ view'.since = view.since /\ view'.shown = view.shown
       /\ view' \in PageViews
       /\ DOMAIN rows = DOMAIN view.rows /\ rows[i] = l
       /\ \A j \in DOMAIN view.rows : j # i => rows[j] = view.rows[j]
  <2>a. PICK next : next = IF unread = {i} THEN "updates" ELSE "components"
    OBVIOUS
  <2>1. view \in PageViews
    BY DEF StoredInvariant, AnnounceShapes, PageViews
  <2>2. view' = PageReread(view, i, found, next)
    BY <1>1, <2>a DEF PageReread
  <2>3. next \in {"components", "updates"}
    BY <2>a
  <2>4. /\ view' \in PageViews /\ view'.step = next /\ view'.published = view.published
        /\ view'.since = view.since /\ view'.shown = view.shown
        /\ DOMAIN view'.rows = DOMAIN view.rows
        /\ view'.rows[i] = Reread(view.rows[i], found)
        /\ \A j \in DOMAIN view.rows : j # i => view'.rows[j] = view.rows[j]
    BY <1>4, <1>6, <2>1, <2>2, <2>3, PlaceReread
  <2> QED  BY <1>c, <1>f, <1>g, <2>a, <2>4
<1>10. /\ rows \in Seq(ListedRow) /\ DOMAIN rows = DOMAIN view.rows /\ rows[i] = l
       /\ \A j \in DOMAIN view.rows : j # i => rows[j] = view.rows[j]
  BY <1>11 DEF PageViews
<1>12. StoredInvariant'
  BY <1>1, <1>11, ViewKeepsStored
<1>13. /\ always' \subseteq always /\ could \subseteq could' /\ always' \subseteq Ann!ForPage'
       /\ Ann!ForPage' \subseteq could' /\ Ann!ForPage' = Ann!ForPage
  <2>1. view'.step \in {"components", "updates"}
    BY <1>11
  <2>2. Ann!ForPage' = Ann!ForPage
    BY <1>1, <1>11 DEF Ann!ForPage, Ann!Stored
  <2> QED  BY <2>1, <2>2 DEF Ann!Watched
<1>14. WasForPage(l, view.published, could')
  <2>1. WasForPage(old, view.published, could)
    BY <1>4, <1>c DEF ViewKept
  <2>2. found \cap view.published # {} => a \in Ann!ForPage
    <3> SUFFICES ASSUME found \cap view.published # {}  PROVE a \in Ann!ForPage
      OBVIOUS
    <3>1. Ann!Stored(a) /\ announcement[a].components = found
      BY <1>e
    <3> QED  BY <1>5, <3>1 DEF Ann!ForPage
  <2>3. Stamped(l.row)
    BY <1>7, <2>1 DEF WasForPage, Stamped
  <2> QED  BY <1>7, <1>13, <1>d, <2>1, <2>2, <2>3 DEF WasForPage
<1>15. \A j \in DOMAIN rows : WasForPage(rows[j], view.published, could')
  BY <1>10, <1>13, <1>14 DEF ViewKept, WasForPage
<1>16. ASSUME NEW b \in always', IsRow(announcement[b])
       PROVE  \/ b \in {s.of : s \in view.shown}
              \/ LeftOut(b)'
              \/ \E j \in DOMAIN rows : Stands(rows[j], b, announcement[b])
  <2>1. \/ b \in {s.of : s \in view.shown}
        \/ LeftOut(b)
        \/ \E j \in DOMAIN view.rows : Stands(view.rows[j], b, announcement[b])
    BY <1>1, <1>13, <1>16 DEF ViewKept
  <2>2. LeftOut(b) => LeftOut(b)'
    BY <1>1, <1>11 DEF LeftOut, LaterOnes
  <2>3. ASSUME NEW j \in DOMAIN view.rows, Stands(view.rows[j], b, announcement[b])
        PROVE  Stands(rows[j], b, announcement[b])
    <3>1. CASE j # i
      BY <1>10, <2>3, <3>1
    <3>2. CASE j = i
      <4>1. a = b /\ found = announcement[b].components
        BY <1>16, <1>c, <1>d, <1>e, <2>3, <3>2 DEF Stands, Ann!Stored, IsRow
      <4> QED  BY <1>7, <1>c, <1>10, <2>3, <3>2, <4>1 DEF Stands
    <3> QED  BY <3>1, <3>2
  <2> QED  BY <1>10, <2>1, <2>2, <2>3
<1>17. unread = {i} => \A j \in DOMAIN rows : rows[j].read
  <2> SUFFICES ASSUME unread = {i}, NEW j \in DOMAIN rows  PROVE rows[j].read
    OBVIOUS
  <2>1. CASE j = i
    BY <1>7, <1>10, <2>1
  <2>2. CASE j # i
    BY <1>10, <1>a, <2>2
  <2> QED  BY <2>1, <2>2
<1>18. unread # {i} => \E j \in DOMAIN rows : ~ rows[j].read
  <2> SUFFICES ASSUME unread # {i}  PROVE \E j \in DOMAIN rows : ~ rows[j].read
    OBVIOUS
  <2>1. PICK j \in unread : j # i
    BY <1>3
  <2>2. j \in DOMAIN rows /\ ~ rows[j].read
    BY <1>10, <1>a, <2>1
  <2> QED  BY <2>2
<1>19. rows # <<>>
  BY <1>4, <1>10
<1>20. ViewKept'
  <2>1. always' \subseteq {x \in Announcements : announcement'[x] # None}
    BY <1>1, <1>13 DEF ViewKept
  <2>2. \A s \in view.shown : s.of \in could' /\ Stamped(s)
    BY <1>13 DEF ViewKept
  <2>3. view'.step \in {"components", "updates"}
    BY <1>11
  <2>4. \A b \in always' : IsRow(announcement'[b]) =>
              \/ b \in {s.of : s \in view'.shown}
              \/ LeftOut(b)'
              \/ \E j \in DOMAIN view'.rows : Stands(view'.rows[j], b, announcement'[b])
    BY <1>1, <1>11, <1>16
  <2> QED  BY <1>11, <1>13, <1>15, <1>17, <1>18, <1>19, <2>1, <2>2, <2>3, <2>4 DEF ViewKept
<1> QED  BY <1>12, <1>20

\* One more announcement is shown, if it is for the page.
LEMMA PageShows ==
    ASSUME AnnouncementSorts, AnnounceInvariant, Ann!Show, Ann!Watched
    PROVE  AnnounceInvariant'
<1> USE DEF AnnounceInvariant
<1> PICK first : first = Head(view.rows)
  OBVIOUS
<1> PICK s : s = [of |-> first.of, phase |-> first.row.phase, resolved |-> first.row.resolved,
                  entries |-> timeline[first.of]]
  OBVIOUS
<1> PICK rest : rest = Tail(view.rows)
  OBVIOUS
<1> DEFINE shows == Ann!ShowsOn(first.row, view.published)
<1>1. /\ view.step = "updates"
      /\ view' = [view EXCEPT !.step = IF rest = <<>> THEN "done" ELSE @, !.rows = rest,
                              !.shown = IF shows THEN @ \cup {s} ELSE @]
      /\ UNCHANGED <<now, announcement, timeline, published, request, closed, overlapped, silent>>
  <2>1. /\ view.step = "updates"
        /\ view' = [view EXCEPT
              !.step = IF Tail(view.rows) = <<>> THEN "done" ELSE @,
              !.rows = Tail(@),
              !.shown = IF shows THEN @ \cup {s} ELSE @]
        /\ UNCHANGED <<now, announcement, timeline, published, request, closed, overlapped, silent>>
    BY DEF Ann!Show
  <2> QED  BY <2>1 DEF StoredInvariant, AnnounceShapes, PageViews
<1>2. /\ view.rows \in Seq(ListedRow) /\ view.rows # <<>> /\ DOMAIN view.rows = 1..Len(view.rows)
      /\ \A i \in DOMAIN view.rows : view.rows[i].read
  BY <1>1 DEF ViewKept, StoredInvariant, AnnounceShapes, PageViews
<1>3. /\ rest \in Seq(ListedRow) /\ first = view.rows[1] /\ 1 \in DOMAIN view.rows
      /\ \A i \in DOMAIN rest : i + 1 \in DOMAIN view.rows /\ rest[i] = view.rows[i + 1]
      /\ \A i \in DOMAIN view.rows : i # 1 => i - 1 \in DOMAIN rest /\ rest[i - 1] = view.rows[i]
      /\ rest = <<>> => DOMAIN rest = {}
  BY <1>2
<1>4. first \in ListedRow
  BY <1>2, <1>3
<1>5. s \in ShownRow /\ s.of = first.of /\ s.phase = first.row.phase /\ s.resolved = first.row.resolved
  <2>1. first.of \in Announcements /\ first.row \in AnnounceRow
    BY <1>4 DEF ListedRow
  <2>2. timeline[first.of] \in Seq(Entry)
    BY <2>1 DEF StoredInvariant, AnnounceShapes, PageViews
  <2> QED  BY <2>1, <2>2 DEF ShownRow, AnnounceRow
<1>6. /\ view'.step = (IF rest = <<>> THEN "done" ELSE "updates") /\ view'.rows = rest
      /\ view'.published = view.published /\ view'.since = view.since
      /\ view'.shown = (IF shows THEN view.shown \cup {s} ELSE view.shown)
      /\ view' \in PageViews
  BY <1>1, <1>3, <1>5 DEF StoredInvariant, AnnounceShapes, PageViews
<1>7. StoredInvariant'
  BY <1>1, <1>6, ViewKeepsStored
<1>8. /\ always' \subseteq always /\ could \subseteq could'
      /\ rest # <<>> => always' \subseteq Ann!ForPage'
  BY <1>1, <1>6 DEF Ann!Watched
<1>9. /\ WasForPage(first, view.published, could) /\ first.read
      /\ shows => first.of \in could /\ Stamped(s)
  BY <1>2, <1>3, <1>5 DEF ViewKept, WasForPage, Ann!ShowsOn, Stamped
<1>10. \A t \in view'.shown : t.of \in could' /\ Stamped(t)
  BY <1>5, <1>6, <1>8, <1>9 DEF ViewKept
<1>11. \A i \in DOMAIN rest : WasForPage(rest[i], view.published, could') /\ rest[i].read
  BY <1>2, <1>3, <1>8 DEF ViewKept, WasForPage
<1>12. ASSUME NEW a \in always', IsRow(announcement[a])
       PROVE  \/ a \in {t.of : t \in view'.shown}
              \/ LeftOut(a)'
              \/ \E i \in DOMAIN rest : Stands(rest[i], a, announcement[a])
  <2>1. a \in always /\ a \in Ann!ForPage
    BY <1>1, <1>8 DEF ViewKept, ReadingView
  <2>2. \/ a \in {t.of : t \in view.shown}
        \/ LeftOut(a)
        \/ \E i \in DOMAIN view.rows : Stands(view.rows[i], a, announcement[a])
    BY <1>1, <1>12, <2>1 DEF ViewKept
  <2>3. LeftOut(a) => LeftOut(a)'
    BY <1>1, <1>6 DEF LeftOut, LaterOnes
  <2>4. ASSUME NEW i \in DOMAIN view.rows, Stands(view.rows[i], a, announcement[a])
        PROVE  a \in {t.of : t \in view'.shown} \/ \E j \in DOMAIN rest : Stands(rest[j], a, announcement[a])
    <3>1. CASE i # 1
      BY <1>3, <2>4, <3>1
    <3>2. CASE i = 1
      <4>1. /\ s.of = a /\ first.row.global = announcement[a].global
            /\ first.row.components = announcement[a].components
        BY <1>3, <1>5, <1>9, <2>4, <3>2 DEF Stands
      <4>2. shows
        BY <2>1, <4>1 DEF Ann!ForPage, Ann!ShowsOn
      <4> QED  BY <1>6, <4>1, <4>2
    <3> QED  BY <3>1, <3>2
  <2> QED  BY <1>6, <2>2, <2>3, <2>4
<1>13. ViewKept'
  <2>1. always' \subseteq {x \in Announcements : announcement'[x] # None}
    BY <1>1, <1>8 DEF ViewKept
  <2>2. view'.step = "done" \/ (view'.step = "updates" /\ rest # <<>>)
    BY <1>6
  <2>3. view'.step = "done" => rest = <<>>
    BY <1>6
  <2>4. \A a \in always' : IsRow(announcement'[a]) =>
              \/ a \in {t.of : t \in view'.shown}
              \/ LeftOut(a)'
              \/ \E j \in DOMAIN view'.rows : Stands(view'.rows[j], a, announcement'[a])
    BY <1>1, <1>6, <1>12
  <2> QED  BY <1>6, <1>8, <1>10, <1>11, <2>1, <2>2, <2>3, <2>4 DEF ViewKept, ReadingView
<1> QED  BY <1>7, <1>13

LEMMA AnnounceInitially ==
    ASSUME AnnouncementSorts, Ann!Init  PROVE AnnounceInvariant
<1> USE DEF Ann!Init
<1>1. AnnounceShapes
  <2>1. \A a : <<>> \in Seq(Entry)
    OBVIOUS
  <2>2. Ann!Idle \in AnnounceRequests
    BY DEF Ann!Idle, AnnounceRequests, AnnounceIdle
  <2>3. view = [step |-> "idle", published |-> {}, since |-> 0, rows |-> <<>>, shown |-> {}]
    BY DEF Ann!Blank
  <2>4. view \in PageViews
    BY <2>3 DEF PageViews
  <2> QED  BY <2>1, <2>2, <2>4 DEF AnnounceShapes, PageViews
<1>2. \A a \in Announcements : announcement[a] = None /\ ~ IsRow(announcement[a]) /\ ~ Ann!Stored(a)
                               /\ timeline[a] = <<>> /\ DOMAIN timeline[a] = {}
  BY DEF IsRow, Ann!Stored
<1>3. \A c \in Clients : request[c].step = "idle"
  BY DEF Ann!Idle
<1>4. IdsInOrder /\ RequestsFit /\ HoursPast /\ Alone
  BY <1>2, <1>3 DEF IdsInOrder, RequestsFit, HoursPast, Alone, Ann!InCourse
<1>5. RowsFit
  BY <1>2 DEF RowsFit, RowFits, EntriesInOrder
<1>6. view.step = "idle" /\ view.rows = <<>> /\ view.shown = {} /\ always = {} /\ DOMAIN view.rows = {}
  BY DEF Ann!Blank
<1> QED  BY <1>1, <1>4, <1>5, <1>6 DEF AnnounceInvariant, StoredInvariant, ViewKept, ReadingView

LEMMA AnnounceNext ==
    ASSUME AnnouncementSorts, AnnounceInvariant, [Ann!Next]_(Ann!vars)  PROVE AnnounceInvariant'
<1>1. CASE UNCHANGED Ann!vars
  <2>1. UNCHANGED <<now, announcement, timeline, published, request, closed, overlapped, silent,
                    view, could, always>>
    BY <1>1 DEF Ann!vars
  <2>2. view' \in PageViews
    BY <2>1 DEF AnnounceInvariant, StoredInvariant, AnnounceShapes
  <2>3. StoredInvariant'
    BY <2>1, <2>2, ViewKeepsStored DEF AnnounceInvariant
  <2>4. ViewKept'
    BY <2>1 DEF AnnounceInvariant, ViewKept, ReadingView, LeftOut, LaterOnes, Ann!Stored, Ann!ForPage
  <2> QED  BY <2>3, <2>4 DEF AnnounceInvariant
<1>2. CASE Others /\ Ann!Watched
  BY <1>2, RowsOutlast, OthersKeepStored, ViewWaits DEF AnnounceInvariant
<1>3. CASE (Ann!StartView \/ Ann!List \/ Ann!ListComponents \/ Ann!Show) /\ Ann!Watched
  BY <1>3, PageBegins, PageIsListed, PageReadsComponents, PageShows
<1>4. CASE Ann!Next
  BY <1>2, <1>3, <1>4 DEF Ann!Next, Others
<1> QED  BY <1>1, <1>4

\* What is stored and shown agrees with the requests that wrote it, and with
\* what was for the page.
THEOREM AnnouncementsKept ==
    ASSUME AnnouncementSorts  PROVE Ann!Spec => []AnnounceInvariant
<1>1. Ann!Init => AnnounceInvariant
  BY AnnounceInitially
<1>2. AnnounceInvariant /\ [Ann!Next]_(Ann!vars) => AnnounceInvariant'
  BY AnnounceNext
<1> QED  BY <1>1, <1>2, PTL DEF Ann!Spec

\* Of entries in order the last is the one inserted last.
LEMMA LastIsLatest ==
    ASSUME NEW line \in Seq(Entry), line # <<>>, NEW time, EntriesInOrder(line, time)
    PROVE  Ann!LastEntry(line).phase = Latest(line)
<1> DEFINE Last(i) == \A j \in DOMAIN line : \/ line[j].at < line[i].at
                                            \/ (line[j].at = line[i].at /\ j <= i)
<1>1. Len(line) \in DOMAIN line /\ DOMAIN line = 1..Len(line) /\ Len(line) \in Nat
  OBVIOUS
<1>2. \A i \in DOMAIN line : line[i].at \in Nat
  <2>1. \A i \in DOMAIN line : line[i] \in Entry
    OBVIOUS
  <2> QED  BY <2>1 DEF Entry
<1>3. Last(Len(line))
  BY <1>1, <1>2 DEF EntriesInOrder
<1>4. \A i \in DOMAIN line : Last(i) => i = Len(line)
  <2> SUFFICES ASSUME NEW i \in DOMAIN line, Last(i)  PROVE i = Len(line)
    OBVIOUS
  <2>1. line[Len(line)].at < line[i].at \/ Len(line) <= i
    BY <1>1
  <2>2. line[i].at < line[Len(line)].at \/ (line[i].at = line[Len(line)].at /\ i <= Len(line))
    BY <1>1, <1>3
  <2> QED  BY <1>1, <1>2, <2>1, <2>2
<1>5. (CHOOSE i \in DOMAIN line : Last(i)) = Len(line)
  <2> HIDE DEF Last
  <2> QED  BY <1>1, <1>3, <1>4
<1>6. Ann!LastEntry(line) = line[CHOOSE i \in DOMAIN line : Last(i)]
  BY Zenon DEF Ann!LastEntry
<1> QED  BY <1>5, <1>6 DEF Latest

\* The hour of resolution goes with the phase and is of the request that
\* resolved it, the phase is of the last entry, and the page shows what was for
\* it (api/statuspage_handlers.go, statuspage/statuspage.go, Builder.build).
THEOREM AnnouncementsAreSound ==
    ASSUME AnnouncementSorts  PROVE Ann!Spec => []Ann!AnnouncementsSound
<1>1. ASSUME AnnounceInvariant  PROVE Ann!AnnouncementsSound
  <2> USE <1>1 DEF AnnounceInvariant, StoredInvariant
  <2>1. \A a \in Announcements :
          RowFits(announcement[a], timeline[a], closed[a], ~ overlapped[a], NoneTold(a), now)
    BY DEF RowsFit
  <2>2. \A a \in Announcements : Ann!Stored(a) <=> IsRow(announcement[a])
    BY DEF Ann!Stored, IsRow
  <2>3. Ann!StampFollowsPhase
    BY <2>1, <2>2 DEF Ann!StampFollowsPhase, RowFits, Stamped, ViewKept, Ann!Resolved
  <2>4. Ann!StampKept
    BY <2>1, <2>2 DEF Ann!StampKept, RowFits
  <2>5. Ann!PhaseFollowsTimeline
    <3> SUFFICES ASSUME NEW a \in Announcements, Ann!Stored(a), ~ overlapped[a], ~ silent[a],
                        Ann!InCourse(a) = {}, timeline[a] # <<>>
                 PROVE  announcement[a].phase = Ann!LastEntry(timeline[a]).phase
      BY DEF Ann!PhaseFollowsTimeline
    <3>1. NoneTold(a)
      BY DEF NoneTold, Published, Ann!InCourse
    <3>2. /\ announcement[a].phase = Latest(timeline[a])
          /\ EntriesInOrder(timeline[a], now)
      BY <2>1, <2>2, <3>1 DEF RowFits
    <3>3. timeline[a] \in Seq(Entry)
      BY DEF AnnounceShapes, PageViews
    <3> QED  BY <3>2, <3>3, LastIsLatest
  <2>6. Ann!ShownIsForPage
    <3>1. \A s \in view.shown : s.of \in could
      BY DEF ViewKept
    <3>2. ASSUME view.step = "done", NEW a \in always, Ann!Stored(a)
          PROVE  \/ a \in {s.of : s \in view.shown}
                 \/ announcement[a].started < view.since
                 \/ Cardinality({x \in Announcements : x > a /\ announcement[x] # None}) >= Limit
      <4>1. a \in Announcements /\ view.rows = <<>> /\ DOMAIN view.rows = {}
        BY <3>2 DEF ViewKept
      <4> QED  BY <2>2, <3>2, <4>1 DEF ViewKept, LeftOut, LaterOnes
    <3> QED  BY <3>1, <3>2 DEF Ann!ShownIsForPage, Ann!Cardinality, Cardinality
  <2> QED  BY <2>3, <2>4, <2>5, <2>6 DEF Ann!AnnouncementsSound
<1> QED  BY <1>1, AnnouncementsKept, PTL

-----------------------------------------------------------------------------
(***************************************************************************)
(* The public pages, and the building of one.                              *)
(***************************************************************************)
Sta == INSTANCE StatusPage

PageRow == [slug: Slugs, enabled: BOOLEAN]
Section == Groups \cup {Loose}
PageStatus == {"up", "down", "degraded", "unknown"}

\* No page is a row or an absence, no group is a page's loose components, and
\* the tables begin with owners (migrations of status_page).
StatusPageSorts ==
    /\ None # Gone /\ {None, Gone} \cap PageRow = {} /\ None \notin Pages
    /\ None \notin Section /\ Loose \notin Groups /\ None \notin {"page", "not found"}
    /\ PageOf \in [Groups -> Pages] /\ StatusOf \in [Monitors -> PageStatus]
    /\ IsFiniteSet(Monitors)
    /\ \A start \in Starts :
         /\ start.page \in [Pages -> PageRow \cup {None, Gone}] /\ start.groups \subseteq Groups
         /\ start.component \in [Pages -> [Monitors -> Section \cup {None}]]
         /\ \A p \in Pages, m \in Monitors : start.component[p][m] # None =>
              start.page[p] \notin {None, Gone} /\ start.component[p][m] \in start.groups \cup {Loose}

PageComponent == [monitor: Monitors, group: Section]
Visits == [step: {"idle", "components", "groups", "monitors", "assemble", "done"},
           page: Pages \cup {None}, comps: Seq(PageComponent), groups: SUBSET Groups,
           status: Seq(PageStatus), rows: SUBSET Monitors, overall: PageStatus \cup {None},
           answer: {None, "page", "not found"}]

StatusPageShapes ==
    /\ page \in [Pages -> PageRow \cup {None, Gone}]
    /\ groups \subseteq Groups /\ monitors \subseteq Monitors
    /\ component \in [Pages -> [Monitors -> Section \cup {None}]]
    /\ view \in Visits
    /\ changed \in BOOLEAN /\ dropped \in BOOLEAN

DefaultIsThere == \A p \in default : p \in Pages /\ Sta!There(p)

\* What the visitor's request has read is of the page it found, as long as
\* nobody writes, and has a monitor each, as long as none is deleted.
InItsPlace(c, own, p) == c.group \in own \cup {Loose} \/ PageOf[c.group] # p
ReadSoFar ==
    /\ Sta!Building => view.page \in Pages /\ view.answer = None
    /\ view.step = "idle" => view.answer = None
    /\ view.step \in {"components", "groups"} => view.status = <<>>
    /\ view.step = "groups" /\ ~ changed =>
         \A i \in DOMAIN view.comps : view.comps[i].group \in groups \cup {Loose}
    /\ view.step \in {"monitors", "assemble"} /\ ~ changed =>
         \A i \in DOMAIN view.comps : InItsPlace(view.comps[i], view.groups, view.page)
    /\ view.step \in {"groups", "monitors"} /\ ~ dropped =>
         \A i \in DOMAIN view.comps : view.comps[i].monitor \in monitors
    /\ view.step \in {"monitors", "assemble"} =>
         /\ Len(view.status) <= Len(view.comps)
         /\ \A i \in DOMAIN view.status : view.status[i] = StatusOf[view.comps[i].monitor]
    /\ view.step = "monitors" => Len(view.status) < Len(view.comps)
    /\ view.step = "assemble" => Len(view.status) = Len(view.comps)

StatusPageInvariant ==
    /\ StatusPageShapes /\ DefaultIsThere /\ Sta!RowsHaveOwners /\ Sta!OneDefault /\ ReadSoFar
    /\ Sta!ShowsItsComponents /\ Sta!WholeCoversRows /\ Sta!FoundStaysFound

\* A set as a sequence of its members.
LEMMA InSequence ==
    ASSUME NEW S, IsFiniteSet(S)
    PROVE  Sta!SetToSeq(S) \in Seq(S) /\ \A i \in DOMAIN Sta!SetToSeq(S) : Sta!SetToSeq(S)[i] \in S
<1>1. Cardinality(S) \in Nat /\ ExistsBijection(1..Cardinality(S), S)
  BY FS_CardinalityType
<1>2. PICK f : f \in Bijection(1..Cardinality(S), S)
  BY <1>1 DEF ExistsBijection
<1>3. f \in [1..Cardinality(S) -> S] /\ \A a, b \in 1..Cardinality(S) : f[a] = f[b] => a = b
  BY <1>2 DEF Bijection, Injection, IsInjective
<1>4. Sta!Cardinality(S) = Cardinality(S)
  BY DEF Sta!Cardinality, Cardinality
<1>5. f \in [1..Sta!Cardinality(S) -> S] /\ Sta!IsInjective(f)
  BY <1>3, <1>4 DEF Sta!IsInjective
<1>6. Sta!SetToSeq(S) \in [1..Sta!Cardinality(S) -> S]
  BY <1>5 DEF Sta!SetToSeq
<1> QED  BY <1>1, <1>4, <1>6

\* The worst of a list is no better than any of it (domain.Worst).
LEMMA WorstCovers ==
    ASSUME NEW statuses \in Seq(PageStatus)
    PROVE  /\ Sta!Worst(statuses) \in PageStatus
           /\ \A i \in DOMAIN statuses : Sta!Severity(Sta!Worst(statuses)) >= Sta!Severity(statuses[i])
<1>1. \A i \in DOMAIN statuses : statuses[i] \in PageStatus
  OBVIOUS
<1>2. \A s \in PageStatus : Sta!Severity(s) \in {0, 1, 3, 4}
  BY DEF Sta!Severity, PageStatus
<1> DEFINE Covers(i) == \A j \in DOMAIN statuses : Sta!Severity(statuses[j]) <= Sta!Severity(statuses[i])
<1>3. CASE statuses = <<>>
  <2>1. Sta!Worst(statuses) = "unknown" /\ DOMAIN statuses = {}
    BY <1>3 DEF Sta!Worst
  <2> QED  BY <2>1 DEF PageStatus
<1>4. CASE statuses # <<>>
  <2>1. \E i \in DOMAIN statuses : Covers(i)
    <3>1. 1 \in DOMAIN statuses
      BY <1>4
    <3>2. \A i \in DOMAIN statuses : Sta!Severity(statuses[i]) \in {0, 1, 3, 4}
      BY <1>1, <1>2
    <3>3. CASE \E i \in DOMAIN statuses : Sta!Severity(statuses[i]) = 4
      BY <3>2, <3>3
    <3>4. CASE /\ \A i \in DOMAIN statuses : Sta!Severity(statuses[i]) # 4
               /\ \E i \in DOMAIN statuses : Sta!Severity(statuses[i]) = 3
      BY <3>2, <3>4
    <3>5. CASE /\ \A i \in DOMAIN statuses : Sta!Severity(statuses[i]) \notin {3, 4}
               /\ \E i \in DOMAIN statuses : Sta!Severity(statuses[i]) = 1
      BY <3>2, <3>5
    <3>6. CASE \A i \in DOMAIN statuses : Sta!Severity(statuses[i]) \notin {1, 3, 4}
      BY <3>1, <3>2, <3>6
    <3> HIDE DEF Covers
    <3> QED  BY <3>2, <3>3, <3>4, <3>5, <3>6
  <2>2. Sta!Worst(statuses) = statuses[CHOOSE i \in DOMAIN statuses : Covers(i)]
    BY <1>4, Zenon DEF Sta!Worst
  <2> DEFINE w == CHOOSE i \in DOMAIN statuses : Covers(i)
  <2>3. w \in DOMAIN statuses /\ Covers(w)
    <3> HIDE DEF Covers
    <3> QED  BY <2>1
  <2> HIDE DEF w
  <2>4. Sta!Worst(statuses) = statuses[w]
    BY <2>2 DEF w
  <2> QED  BY <1>1, <1>2, <2>3, <2>4
<1> QED  BY <1>3, <1>4

\* The tables are written and nobody's page is, but that it may be known to be.
LEMMA VisitWaits ==
    ASSUME StatusPageSorts, StatusPageInvariant, view' = view,
           changed' = (changed \/ Sta!Building),
           \/ monitors' = monitors /\ dropped' = dropped
           \/ dropped' = (dropped \/ Sta!Building)
    PROVE  /\ ReadSoFar' /\ Sta!ShowsItsComponents' /\ Sta!WholeCoversRows' /\ Sta!FoundStaysFound'
           /\ changed' \in BOOLEAN /\ dropped' \in BOOLEAN
<1> USE DEF StatusPageInvariant
<1>1. changed' \in BOOLEAN /\ dropped' \in BOOLEAN /\ view.step \in {"idle", "components", "groups", "monitors", "assemble", "done"}
  BY DEF StatusPageShapes, Visits
<1>2. Sta!Building' = Sta!Building
  BY DEF Sta!Building
<1>3. Sta!Building => changed'
  OBVIOUS
<1>4. ~ Sta!Building => changed' = changed
  BY DEF StatusPageShapes
<1>5. dropped => dropped'
  OBVIOUS
<1>6. ReadSoFar'
  <2>1. view.step \in {"groups", "monitors"} /\ ~ dropped' => ~ dropped /\ monitors' = monitors
    BY DEF Sta!Building
  <2>2. view.step \in {"groups", "monitors", "assemble"} => changed'
    BY <1>3 DEF Sta!Building
  <2> QED  BY <1>2, <2>1, <2>2 DEF ReadSoFar, InItsPlace
<1>7. Sta!ShowsItsComponents' /\ Sta!WholeCoversRows'
  <2>1. view.answer = "page" => ~ Sta!Building
    BY DEF ReadSoFar, StatusPageSorts
  <2> QED  BY <1>4, <2>1 DEF Sta!ShowsItsComponents, Sta!WholeCoversRows, Sta!Severity
<1>8. Sta!FoundStaysFound'
  BY <1>2, <1>3, <1>5 DEF Sta!FoundStaysFound
<1> QED  BY <1>1, <1>6, <1>7, <1>8

\* A page is made or written.
LEMMA PageIsWritten ==
    ASSUME StatusPageSorts, StatusPageInvariant, NEW p \in Pages, NEW slug \in Slugs,
           NEW on \in BOOLEAN, Sta!Create(p, slug, on) \/ Sta!Update(p, slug, on)
    PROVE  StatusPageInvariant'
<1> DEFINE made == [slug |-> slug, enabled |-> on]
<1>1. /\ page' = [page EXCEPT ![p] = made] /\ view' = view
      /\ changed' = (changed \/ Sta!Building)
      /\ UNCHANGED <<default, groups, component, monitors, promoted, dropped>>
  BY DEF Sta!Create, Sta!Update, Sta!Edit
<1>2. made \in PageRow /\ made \notin {None, Gone}
  <2>1. made \in PageRow
    BY DEF PageRow
  <2> QED  BY <2>1 DEF StatusPageSorts
<1> HIDE DEF made
<1>3. page \in [Pages -> PageRow \cup {None, Gone}]
  BY DEF StatusPageInvariant, StatusPageShapes
<1>4. page' \in [Pages -> PageRow \cup {None, Gone}]
  BY <1>1, <1>2, <1>3
<1>5. \A q \in Pages : Sta!There(q) => Sta!There(q)'
  BY <1>1, <1>2, <1>3 DEF Sta!There
<1>6. /\ ReadSoFar' /\ Sta!ShowsItsComponents' /\ Sta!WholeCoversRows' /\ Sta!FoundStaysFound'
      /\ changed' \in BOOLEAN /\ dropped' \in BOOLEAN
  BY <1>1, VisitWaits
<1>7. StatusPageShapes'
  BY <1>1, <1>4, <1>6 DEF StatusPageInvariant, StatusPageShapes
<1>8. DefaultIsThere' /\ Sta!RowsHaveOwners' /\ Sta!OneDefault'
  BY <1>1, <1>5 DEF StatusPageInvariant, DefaultIsThere, Sta!RowsHaveOwners, Sta!OneDefault
<1> QED  BY <1>6, <1>7, <1>8 DEF StatusPageInvariant

\* A page goes, its groups and its components; what was in one of its groups
\* is loose.
LEMMA PageGoes ==
    ASSUME StatusPageSorts, StatusPageInvariant, NEW p \in Pages, Sta!Delete(p)
    PROVE  StatusPageInvariant'
<1>1. /\ page' = [page EXCEPT ![p] = Gone] /\ default' = default \ {p}
      /\ groups' = {g \in groups : PageOf[g] # p}
      /\ component' = [q \in Pages |-> [m \in Monitors |->
            IF q = p THEN None
            ELSE IF component[q][m] \in groups \ groups' THEN Loose ELSE component[q][m]]]
      /\ promoted' = (IF promoted = p THEN None ELSE promoted)
      /\ UNCHANGED <<monitors, dropped>> /\ view' = view /\ changed' = (changed \/ Sta!Building)
  BY DEF Sta!Delete, Sta!Edit
<1>2. /\ page \in [Pages -> PageRow \cup {None, Gone}] /\ groups \subseteq Groups
      /\ component \in [Pages -> [Monitors -> Section \cup {None}]]
  BY DEF StatusPageInvariant, StatusPageShapes
<1>3. page' \in [Pages -> PageRow \cup {None, Gone}]
  BY <1>1, <1>2
<1>4. /\ \A q \in Pages : q # p => (Sta!There(q)' <=> Sta!There(q))
      /\ ~ Sta!There(p)'
  BY <1>1, <1>2 DEF Sta!There
<1>5. ASSUME NEW q \in Pages, NEW m \in Monitors
      PROVE  /\ component'[q][m] \in Section \cup {None}
             /\ component'[q][m] # None => /\ q # p /\ component[q][m] # None
                                           /\ component'[q][m] \in groups' \cup {Loose}
  <2>1. component'[q][m] = IF q = p THEN None
                           ELSE IF component[q][m] \in groups \ groups' THEN Loose ELSE component[q][m]
    BY <1>1
  <2>2. component[q][m] \in Section \cup {None}
    BY <1>2
  <2>3. component[q][m] # None => component[q][m] \in groups \cup {Loose}
    BY DEF StatusPageInvariant, Sta!RowsHaveOwners
  <2>4. Loose \in Section /\ None \notin groups
    BY <1>2 DEF Section, StatusPageSorts
  <2> QED  BY <2>1, <2>2, <2>3, <2>4
<1>6. component' \in [Pages -> [Monitors -> Section \cup {None}]]
  <2>1. component' = [q \in Pages |-> [m \in Monitors |-> component'[q][m]]]
    BY <1>1
  <2> QED  BY <1>5, <2>1
<1>7. /\ ReadSoFar' /\ Sta!ShowsItsComponents' /\ Sta!WholeCoversRows' /\ Sta!FoundStaysFound'
      /\ changed' \in BOOLEAN /\ dropped' \in BOOLEAN
  BY <1>1, VisitWaits
<1>8. StatusPageShapes'
  BY <1>1, <1>2, <1>3, <1>6, <1>7 DEF StatusPageInvariant, StatusPageShapes
<1>9. DefaultIsThere' /\ Sta!OneDefault'
  BY <1>1, <1>4 DEF StatusPageInvariant, DefaultIsThere, Sta!OneDefault
<1>10. Sta!RowsHaveOwners'
  <2>1. \A q \in Pages, m \in Monitors : component[q][m] # None => Sta!There(q) /\ m \in monitors
    BY DEF StatusPageInvariant, Sta!RowsHaveOwners
  <2> QED  BY <1>1, <1>4, <1>5, <2>1 DEF Sta!RowsHaveOwners
<1> QED  BY <1>7, <1>8, <1>9, <1>10 DEF StatusPageInvariant

\* One page is the default, or none was yet.
LEMMA DefaultIsSet ==
    ASSUME StatusPageSorts, StatusPageInvariant, NEW p \in Pages, Sta!SetDefault(p)
    PROVE  StatusPageInvariant'
<1>1. /\ default' = (IF Sta!There(p) THEN {p} ELSE default)
      /\ promoted' = (IF Sta!There(p) THEN p ELSE promoted)
      /\ UNCHANGED <<page, groups, component, monitors, dropped>> /\ view' = view
      /\ changed' = (changed \/ Sta!Building)
  BY DEF Sta!SetDefault, Sta!Edit, Sta!Promoted
<1>2. /\ ReadSoFar' /\ Sta!ShowsItsComponents' /\ Sta!WholeCoversRows' /\ Sta!FoundStaysFound'
      /\ changed' \in BOOLEAN /\ dropped' \in BOOLEAN
  BY <1>1, VisitWaits
<1>3. StatusPageShapes' /\ Sta!RowsHaveOwners'
  BY <1>1, <1>2 DEF StatusPageInvariant, StatusPageShapes, Sta!RowsHaveOwners, Sta!There
<1>4. DefaultIsThere' /\ Sta!OneDefault'
  BY <1>1 DEF StatusPageInvariant, DefaultIsThere, Sta!OneDefault, Sta!There, StatusPageSorts
<1> QED  BY <1>2, <1>3, <1>4 DEF StatusPageInvariant

\* Groups and components come and go with their owners.
LEMMA SectionsChange ==
    ASSUME StatusPageSorts, StatusPageInvariant,
           groups' \subseteq Groups, monitors' \subseteq monitors,
           component' \in [Pages -> [Monitors -> Section \cup {None}]],
           \A p \in Pages, m \in Monitors : component'[p][m] # None =>
               Sta!There(p) /\ m \in monitors' /\ component'[p][m] \in groups' \cup {Loose},
           UNCHANGED <<page, default, promoted>>, view' = view,
           changed' = (changed \/ Sta!Building),
           \/ monitors' = monitors /\ dropped' = dropped
           \/ dropped' = (dropped \/ Sta!Building)
    PROVE  StatusPageInvariant'
<1>1. /\ ReadSoFar' /\ Sta!ShowsItsComponents' /\ Sta!WholeCoversRows' /\ Sta!FoundStaysFound'
      /\ changed' \in BOOLEAN /\ dropped' \in BOOLEAN
  BY VisitWaits
<1>2. StatusPageShapes'
  BY <1>1 DEF StatusPageInvariant, StatusPageShapes
<1>3. DefaultIsThere' /\ Sta!OneDefault' /\ Sta!RowsHaveOwners'
  BY DEF StatusPageInvariant, DefaultIsThere, Sta!OneDefault, Sta!RowsHaveOwners, Sta!There
<1> QED  BY <1>1, <1>2, <1>3 DEF StatusPageInvariant

LEMMA SectionsAreWritten ==
    ASSUME StatusPageSorts, StatusPageInvariant,
           \/ \E g \in Groups : Sta!CreateGroup(g) \/ Sta!DeleteGroup(g)
           \/ \E p \in Pages, m \in Monitors, g \in Groups \cup {Loose} : Sta!SetComponent(p, m, g)
           \/ \E p \in Pages, m \in Monitors : Sta!RemoveComponent(p, m)
           \/ \E m \in Monitors : Sta!DeleteMonitor(m)
    PROVE  StatusPageInvariant'
<1> DEFINE Sections == [Pages -> [Monitors -> Section \cup {None}]]
<1>1. /\ groups \subseteq Groups /\ monitors \subseteq Monitors /\ component \in Sections
      /\ \A p \in Pages, m \in Monitors : component[p][m] # None =>
            Sta!There(p) /\ m \in monitors /\ component[p][m] \in groups \cup {Loose}
      /\ changed \in BOOLEAN /\ dropped \in BOOLEAN
  BY DEF StatusPageInvariant, StatusPageShapes, Sta!RowsHaveOwners
<1>2. Loose \in Section /\ Groups \subseteq Section /\ None \notin Section
  BY DEF Section, StatusPageSorts
<1>3. ASSUME NEW g \in Groups, Sta!CreateGroup(g)  PROVE StatusPageInvariant'
  <2>1. /\ groups' = groups \cup {g} /\ view' = view /\ changed' = (changed \/ Sta!Building)
        /\ UNCHANGED <<page, default, component, monitors, promoted, dropped>>
    BY <1>3 DEF Sta!CreateGroup, Sta!Edit
  <2> QED  BY <1>1, <2>1, SectionsChange
<1>4. ASSUME NEW g \in Groups, Sta!DeleteGroup(g)  PROVE StatusPageInvariant'
  <2>1. /\ groups' = groups \ {g} /\ view' = view /\ changed' = (changed \/ Sta!Building)
        /\ component' = [p \in Pages |-> [m \in Monitors |->
              IF component[p][m] = g THEN Loose ELSE component[p][m]]]
        /\ UNCHANGED <<page, default, monitors, promoted, dropped>>
    BY <1>4 DEF Sta!DeleteGroup, Sta!Edit
  <2>2. component' \in Sections
    BY <1>1, <1>2, <2>1
  <2>3. ASSUME NEW p \in Pages, NEW m \in Monitors, component'[p][m] # None
        PROVE  Sta!There(p) /\ m \in monitors' /\ component'[p][m] \in groups' \cup {Loose}
    <3>1. component'[p][m] = IF component[p][m] = g THEN Loose ELSE component[p][m]
      BY <2>1
    <3> QED  BY <1>1, <1>2, <2>1, <2>3, <3>1
  <2> QED  BY <1>1, <2>1, <2>2, <2>3, SectionsChange
<1>5. ASSUME NEW p \in Pages, NEW m \in Monitors, NEW g \in Groups \cup {Loose}, Sta!SetComponent(p, m, g)
      PROVE  StatusPageInvariant'
  <2>1. /\ Sta!There(p) /\ m \in monitors /\ g \in groups \cup {Loose}
        /\ component' = [component EXCEPT ![p][m] = g]
        /\ view' = view /\ changed' = (changed \/ Sta!Building)
        /\ UNCHANGED <<page, default, groups, monitors, promoted, dropped>>
    BY <1>5 DEF Sta!SetComponent, Sta!Edit
  <2>2. component' \in Sections
    BY <1>1, <1>2, <2>1
  <2>3. ASSUME NEW q \in Pages, NEW n \in Monitors, component'[q][n] # None
        PROVE  Sta!There(q) /\ n \in monitors' /\ component'[q][n] \in groups' \cup {Loose}
    <3>1. component'[q][n] = IF q = p /\ n = m THEN g ELSE component[q][n]
      BY <1>1, <2>1
    <3> QED  BY <1>1, <2>1, <2>3, <3>1
  <2> QED  BY <1>1, <2>1, <2>2, <2>3, SectionsChange
<1>6. ASSUME NEW p \in Pages, NEW m \in Monitors, Sta!RemoveComponent(p, m)  PROVE StatusPageInvariant'
  <2>1. /\ component' = [component EXCEPT ![p][m] = None]
        /\ view' = view /\ changed' = (changed \/ Sta!Building)
        /\ UNCHANGED <<page, default, groups, monitors, promoted, dropped>>
    BY <1>6 DEF Sta!RemoveComponent, Sta!Edit
  <2>2. component' \in Sections
    BY <1>1, <1>2, <2>1
  <2>3. ASSUME NEW q \in Pages, NEW n \in Monitors, component'[q][n] # None
        PROVE  Sta!There(q) /\ n \in monitors' /\ component'[q][n] \in groups' \cup {Loose}
    <3>1. component'[q][n] = IF q = p /\ n = m THEN None ELSE component[q][n]
      BY <1>1, <2>1
    <3> QED  BY <1>1, <2>1, <2>3, <3>1
  <2> QED  BY <1>1, <2>1, <2>2, <2>3, SectionsChange
<1>7. ASSUME NEW m \in Monitors, Sta!DeleteMonitor(m)  PROVE StatusPageInvariant'
  <2>1. /\ monitors' = monitors \ {m} /\ dropped' = (dropped \/ Sta!Building)
        /\ component' = [p \in Pages |-> [component[p] EXCEPT ![m] = None]]
        /\ view' = view /\ changed' = (changed \/ Sta!Building)
        /\ UNCHANGED <<page, default, groups, promoted>>
    BY <1>7 DEF Sta!DeleteMonitor, Sta!Edit
  <2>2. component' \in Sections
    BY <1>1, <1>2, <2>1
  <2>3. ASSUME NEW q \in Pages, NEW n \in Monitors, component'[q][n] # None
        PROVE  Sta!There(q) /\ n \in monitors' /\ component'[q][n] \in groups' \cup {Loose}
    <3>1. component'[q][n] = IF n = m THEN None ELSE component[q][n]
      BY <1>1, <2>1
    <3> QED  BY <1>1, <2>1, <2>3, <3>1
  <2> QED  BY <1>1, <2>1, <2>2, <2>3, SectionsChange
<1> QED  BY <1>3, <1>4, <1>5, <1>6, <1>7

\* What is read for a visitor writes nothing.
LEMMA ReadingWrites ==
    ASSUME StatusPageSorts, StatusPageInvariant, Sta!Builds, view' \in Visits,
           changed' \in BOOLEAN, dropped' \in BOOLEAN,
           ReadSoFar', Sta!ShowsItsComponents', Sta!WholeCoversRows', Sta!FoundStaysFound'
    PROVE  StatusPageInvariant'
BY DEF Sta!Builds, StatusPageInvariant, StatusPageShapes, DefaultIsThere, Sta!RowsHaveOwners,
       Sta!OneDefault, Sta!There

\* The page of an address, if there is one and it is on.
LEMMA VisitOpens ==
    ASSUME StatusPageSorts, StatusPageInvariant, NEW address \in Slugs \cup {"default"},
           Sta!Open(address)
    PROVE  StatusPageInvariant'
<1> DEFINE found == IF address = "default" THEN default
                    ELSE {p \in Pages : Sta!There(p) /\ page[p].slug = address}
           first == CHOOSE p \in found : TRUE
           refused == found = {} \/ ~ Sta!Serves(first)
<1>1. /\ view' = IF refused THEN Sta!NotFound
                 ELSE [Sta!Blank EXCEPT !.step = "components", !.page = first]
      /\ changed' = FALSE /\ dropped' = FALSE /\ Sta!Builds
  BY DEF Sta!Open
<1>2. found \subseteq Pages
  BY DEF StatusPageInvariant, DefaultIsThere
<1>3. ~ refused => first \in Pages /\ Sta!Serves(first)
  BY <1>2
<1> PICK p : p = first
  OBVIOUS
<1>4. CASE refused
  <2>1. view' = [step |-> "done", page |-> None, comps |-> <<>>, groups |-> {}, status |-> <<>>,
                 rows |-> {}, overall |-> None, answer |-> "not found"]
    BY <1>1, <1>4 DEF Sta!NotFound, Sta!Blank
  <2> HIDE DEF refused, found, first
  <2>2. view' \in Visits
    <3>1. <<>> \in Seq(PageComponent) /\ <<>> \in Seq(PageStatus)
      OBVIOUS
    <3> QED  BY <2>1, <3>1 DEF Visits
  <2>3. view'.step = "done" /\ view'.page = None /\ view'.answer = "not found"
    BY <2>1
  <2>4. ReadSoFar' /\ Sta!ShowsItsComponents' /\ Sta!WholeCoversRows' /\ Sta!FoundStaysFound'
    BY <2>3 DEF ReadSoFar, Sta!Building, Sta!ShowsItsComponents, Sta!WholeCoversRows, Sta!FoundStaysFound
  <2> QED  BY <1>1, <2>2, <2>4, ReadingWrites
<1>5. CASE ~ refused
  <2>1. /\ view' = [step |-> "components", page |-> p, comps |-> <<>>, groups |-> {}, status |-> <<>>,
                    rows |-> {}, overall |-> None, answer |-> None]
        /\ p \in Pages /\ Sta!Serves(p)
    BY <1>1, <1>3, <1>5 DEF Sta!Blank
  <2> HIDE DEF refused
  <2>2. view' \in Visits
    BY <2>1 DEF Visits
  <2>3. Sta!There(p)' /\ page'[p].enabled
    BY <1>1, <2>1 DEF Sta!Builds, Sta!Serves, Sta!There
  <2>4. /\ view'.step = "components" /\ view'.answer = None /\ view'.page = p /\ view'.status = <<>>
    BY <2>1
  <2>5. ReadSoFar' /\ Sta!ShowsItsComponents' /\ Sta!WholeCoversRows' /\ Sta!FoundStaysFound'
    BY <2>1, <2>3, <2>4 DEF ReadSoFar, Sta!Building, Sta!ShowsItsComponents, Sta!WholeCoversRows,
       Sta!FoundStaysFound, StatusPageSorts
  <2> QED  BY <1>1, <2>2, <2>5, ReadingWrites
<1> QED  BY <1>4, <1>5

\* A step of the building that is not the last keeps the page it is of.
LEMMA VisitGoesOn ==
    ASSUME StatusPageSorts, StatusPageInvariant, Sta!Building, Sta!Builds,
           view'.page = view.page, view'.answer = None,
           UNCHANGED <<changed, dropped>>
    PROVE  Sta!FoundStaysFound' /\ Sta!ShowsItsComponents' /\ Sta!WholeCoversRows'
<1>1. Sta!FoundStaysFound'
  BY DEF StatusPageInvariant, Sta!FoundStaysFound, Sta!Builds, Sta!There, StatusPageSorts
<1> QED  BY <1>1 DEF Sta!ShowsItsComponents, Sta!WholeCoversRows, StatusPageSorts

\* The components of the page are read.
LEMMA VisitReadsComponents ==
    ASSUME StatusPageSorts, StatusPageInvariant, Sta!ReadComponents
    PROVE  StatusPageInvariant'
<1> PICK p : p = view.page
  OBVIOUS
<1> DEFINE S == {[monitor |-> m, group |-> component[p][m]] : m \in {x \in Monitors : component[p][x] # None}}
<1> PICK comps : comps = Sta!SetToSeq(S)
  OBVIOUS
<1>1. /\ view.step = "components" /\ view' = [view EXCEPT !.step = "groups", !.comps = comps]
      /\ UNCHANGED <<changed, dropped>> /\ Sta!Builds
  BY DEF Sta!ReadComponents
<1>2. p \in Pages /\ view.answer = None /\ view.status = <<>> /\ Sta!Building
  BY <1>1 DEF StatusPageInvariant, ReadSoFar, Sta!Building
<1>3. \A m \in Monitors : component[p][m] \in Section \cup {None}
  BY <1>2 DEF StatusPageInvariant, StatusPageShapes
<1>4. \A c \in S : /\ c \in PageComponent /\ c.monitor \in monitors /\ c.group \in groups \cup {Loose}
  BY <1>2, <1>3 DEF PageComponent, StatusPageInvariant, Sta!RowsHaveOwners
<1>5. IsFiniteSet(S)
  <2>1. IsFiniteSet({x \in Monitors : component[p][x] # None})
    BY FS_Subset DEF StatusPageSorts
  <2> DEFINE T == {x \in Monitors : component[p][x] # None}
             f == [x \in T |-> [monitor |-> x, group |-> component[p][x]]]
  <2>2. f \in Surjection(T, S)
    BY DEF Surjection
  <2> HIDE DEF f, S
  <2> QED  BY <2>1, <2>2, FS_Surjection
<1> HIDE DEF S
<1>6. comps \in Seq(S) /\ \A i \in DOMAIN comps : comps[i] \in S
  BY <1>5, InSequence
<1>7. comps \in Seq(PageComponent)
  BY <1>4, <1>6
<1>8. /\ view' \in Visits /\ view'.step = "groups" /\ view'.comps = comps /\ view'.page = p
      /\ view'.status = <<>> /\ view'.answer = None
  BY <1>1, <1>2, <1>7 DEF StatusPageInvariant, StatusPageShapes, Visits
<1>9. ReadSoFar'
  <2>1. \A i \in DOMAIN comps : comps[i].monitor \in monitors /\ comps[i].group \in groups \cup {Loose}
    BY <1>4, <1>6
  <2> QED  BY <1>1, <1>2, <1>8, <2>1 DEF ReadSoFar, Sta!Builds
<1> QED  BY <1>1, <1>2, <1>8, <1>9, VisitGoesOn, ReadingWrites DEF StatusPageInvariant, StatusPageShapes

\* The groups of the page are read.
LEMMA VisitReadsGroups ==
    ASSUME StatusPageSorts, StatusPageInvariant, Sta!ReadGroups
    PROVE  StatusPageInvariant'
<1> PICK own : own = {g \in groups : PageOf[g] = view.page}
  OBVIOUS
<1> PICK next : next = IF view.comps = <<>> THEN "assemble" ELSE "monitors"
  OBVIOUS
<1>1. /\ view.step = "groups" /\ view' = [view EXCEPT !.step = next, !.groups = own]
      /\ UNCHANGED <<changed, dropped>> /\ Sta!Builds
  BY DEF Sta!ReadGroups
<1>2. /\ view.page \in Pages /\ view.answer = None /\ view.status = <<>> /\ Sta!Building
      /\ groups \subseteq Groups /\ view \in Visits
  BY <1>1 DEF StatusPageInvariant, StatusPageShapes, ReadSoFar, Sta!Building
<1>3. /\ view' \in Visits /\ view'.step = next /\ view'.comps = view.comps /\ view'.page = view.page
      /\ view'.status = <<>> /\ view'.answer = None /\ view'.groups = own
  BY <1>1, <1>2 DEF Visits
<1>4. view.comps \in Seq(PageComponent) /\ (view.comps = <<>> <=> Len(view.comps) = 0)
  <2>1. view.comps \in Seq(PageComponent)
    BY <1>2 DEF Visits
  <2> QED  BY <2>1
<1>5. ~ changed => \A i \in DOMAIN view.comps : InItsPlace(view.comps[i], own, view.page)
  <2> SUFFICES ASSUME ~ changed, NEW i \in DOMAIN view.comps
               PROVE  InItsPlace(view.comps[i], own, view.page)
    OBVIOUS
  <2>1. view.comps[i].group \in groups \cup {Loose}
    BY <1>1 DEF StatusPageInvariant, ReadSoFar
  <2> QED  BY <2>1 DEF InItsPlace
<1>6. ReadSoFar'
  <2>1. ~ dropped => \A i \in DOMAIN view.comps : view.comps[i].monitor \in monitors
    BY <1>1 DEF StatusPageInvariant, ReadSoFar
  <2>2. DOMAIN view'.status = {} /\ Len(view'.status) = 0 /\ Len(view.comps) \in Nat
    BY <1>3, <1>4
  <2>3. next = "assemble" => Len(view.comps) = 0
    BY <1>4
  <2>4. next = "monitors" => 0 < Len(view.comps)
    BY <1>4, <2>2
  <2>5. \A i \in DOMAIN view'.comps : ~ changed => InItsPlace(view'.comps[i], view'.groups, view'.page)
    BY <1>3, <1>5
  <2>6. next \in {"assemble", "monitors"}
    OBVIOUS
  <2>7. changed' = changed /\ dropped' = dropped /\ monitors' = monitors
    BY <1>1 DEF Sta!Builds
  <2>8. (Sta!Building => view.page \in Pages /\ view.answer = None)'
    BY <1>2, <1>3
  <2>9. /\ view'.step # "idle" /\ view'.step \notin {"components", "groups"}
    BY <1>3, <2>6
  <2>10. /\ ~ changed' => \A i \in DOMAIN view'.comps : InItsPlace(view'.comps[i], view'.groups, view'.page)
         /\ ~ dropped' => \A i \in DOMAIN view'.comps : view'.comps[i].monitor \in monitors'
    BY <1>3, <2>1, <2>5, <2>7
  <2>11. Len(view'.status) <= Len(view'.comps)
    BY <1>3, <2>2
  <2>12. /\ view'.step = "monitors" => Len(view'.status) < Len(view'.comps)
         /\ view'.step = "assemble" => Len(view'.status) = Len(view'.comps)
    BY <1>3, <2>2, <2>3, <2>4
  <2> QED  BY <2>2, <2>8, <2>9, <2>10, <2>11, <2>12 DEF ReadSoFar
<1> QED  BY <1>1, <1>2, <1>3, <1>6, VisitGoesOn, ReadingWrites DEF StatusPageInvariant, StatusPageShapes

\* One more monitor is read, or found to be gone.
LEMMA VisitReadsMonitor ==
    ASSUME StatusPageSorts, StatusPageInvariant, Sta!ReadMonitor
    PROVE  StatusPageInvariant'
<1> PICK k : k = Len(view.status) + 1
  OBVIOUS
<1> PICK m : m = view.comps[k].monitor
  OBVIOUS
<1>1. /\ view.step = "monitors" /\ UNCHANGED <<changed, dropped>> /\ Sta!Builds
      /\ m \notin monitors => view' = [view EXCEPT !.step = "done", !.answer = "not found"]
      /\ m \in monitors =>
            view' = [view EXCEPT !.status = Append(@, StatusOf[m]),
                        !.step = IF k = Len(view.comps) THEN "assemble" ELSE @]
  BY DEF Sta!ReadMonitor
<1>2. /\ view.page \in Pages /\ view.answer = None /\ Sta!Building
      /\ view \in Visits /\ Len(view.status) < Len(view.comps)
      /\ \A i \in DOMAIN view.status : view.status[i] = StatusOf[view.comps[i].monitor]
      /\ ~ changed => \A i \in DOMAIN view.comps : InItsPlace(view.comps[i], view.groups, view.page)
      /\ ~ dropped => \A i \in DOMAIN view.comps : view.comps[i].monitor \in monitors
      /\ changed \in BOOLEAN /\ dropped \in BOOLEAN
  BY <1>1 DEF StatusPageInvariant, StatusPageShapes, ReadSoFar, Sta!Building
<1>3. /\ view.status \in Seq(PageStatus) /\ view.comps \in Seq(PageComponent)
      /\ k \in DOMAIN view.comps /\ k \in Nat /\ k <= Len(view.comps)
  <2>1. view.status \in Seq(PageStatus) /\ view.comps \in Seq(PageComponent)
    BY <1>2 DEF Visits
  <2>2. Len(view.status) \in Nat /\ Len(view.comps) \in Nat /\ DOMAIN view.comps = 1..Len(view.comps)
    BY <2>1
  <2> QED  BY <1>2, <2>1, <2>2
<1>4. m \in Monitors
  <2>1. view.comps[k] \in PageComponent
    BY <1>3
  <2> QED  BY <2>1 DEF PageComponent
<1>5. CASE m \notin monitors
  <2>1. /\ view' \in Visits /\ view'.step = "done" /\ view'.answer = "not found"
    BY <1>1, <1>2, <1>5 DEF Visits
  <2>2. dropped
    BY <1>2, <1>3, <1>5
  <2>3. ReadSoFar' /\ Sta!ShowsItsComponents' /\ Sta!WholeCoversRows' /\ Sta!FoundStaysFound'
    BY <1>1, <2>1, <2>2 DEF ReadSoFar, Sta!Building, Sta!ShowsItsComponents, Sta!WholeCoversRows, Sta!FoundStaysFound
  <2> QED  BY <1>1, <1>2, <2>1, <2>3, ReadingWrites
<1>6. CASE m \in monitors
  <2> PICK more : more = Append(view.status, StatusOf[m])
    OBVIOUS
  <2> PICK next : next = IF k = Len(view.comps) THEN "assemble" ELSE "monitors"
    OBVIOUS
  <2>1. StatusOf[m] \in PageStatus
    BY <1>4 DEF StatusPageSorts
  <2>2. /\ more \in Seq(PageStatus) /\ Len(more) = k /\ DOMAIN more = 1..k
        /\ more[k] = StatusOf[m] /\ \A i \in 1..k : i # k => i \in DOMAIN view.status /\ more[i] = view.status[i]
    BY <1>3, <2>1
  <2>3. view' = [view EXCEPT !.step = next, !.status = more]
    BY <1>1, <1>2, <1>6 DEF Visits
  <2>4. /\ view' \in Visits /\ view'.step = next /\ view'.status = more /\ view'.comps = view.comps
        /\ view'.page = view.page /\ view'.answer = None /\ view'.groups = view.groups
        /\ view'.rows = view.rows
    BY <1>2, <2>2, <2>3 DEF Visits
  <2>5. \A i \in DOMAIN more : more[i] = StatusOf[view.comps[i].monitor]
    BY <1>2, <2>2
  <2>7. next = "monitors" => k < Len(view.comps)
    BY <1>3
  <2>8. \A i \in DOMAIN view'.comps : ~ changed => InItsPlace(view'.comps[i], view'.groups, view'.page)
    BY <1>2, <2>4
  <2>9. ReadSoFar'
    <3>1. changed' = changed /\ dropped' = dropped /\ monitors' = monitors
      BY <1>1 DEF Sta!Builds
    <3>2. next \in {"assemble", "monitors"} /\ (next = "assemble" => k = Len(view.comps))
      OBVIOUS
    <3> QED  BY <1>2, <1>3, <2>2, <2>4, <2>5, <2>7, <2>8, <3>1, <3>2 DEF ReadSoFar
  <2> QED  BY <1>1, <1>2, <2>4, <2>9, VisitGoesOn, ReadingWrites
<1> QED  BY <1>5, <1>6

\* The page is put together.
LEMMA VisitAssembles ==
    ASSUME StatusPageSorts, StatusPageInvariant, Sta!Assemble
    PROVE  StatusPageInvariant'
<1> PICK rows : rows = {view.comps[i].monitor : i \in
                          {j \in DOMAIN view.comps : view.comps[j].group \in view.groups \cup {Loose}}}
  OBVIOUS
<1> PICK whole : whole = Sta!Worst(view.status)
  OBVIOUS
<1>1. /\ view.step = "assemble" /\ UNCHANGED <<changed, dropped>> /\ Sta!Builds
      /\ view' = [view EXCEPT !.step = "done", !.answer = "page", !.rows = rows, !.overall = whole]
  BY DEF Sta!Assemble
<1>2. /\ view.page \in Pages /\ view \in Visits /\ Len(view.status) = Len(view.comps)
      /\ \A i \in DOMAIN view.status : view.status[i] = StatusOf[view.comps[i].monitor]
      /\ ~ changed => \A i \in DOMAIN view.comps : InItsPlace(view.comps[i], view.groups, view.page)
      /\ changed \in BOOLEAN /\ dropped \in BOOLEAN
  BY <1>1 DEF StatusPageInvariant, StatusPageShapes, ReadSoFar, Sta!Building
<1>3. /\ view.status \in Seq(PageStatus) /\ view.comps \in Seq(PageComponent)
      /\ DOMAIN view.status = DOMAIN view.comps
  <2>1. view.status \in Seq(PageStatus) /\ view.comps \in Seq(PageComponent)
    BY <1>2 DEF Visits
  <2> QED  BY <1>2, <2>1
<1>4. \A i \in DOMAIN view.comps : view.comps[i] \in PageComponent
  BY <1>3
<1>5. rows \subseteq Monitors
  BY <1>4 DEF PageComponent
<1>6. /\ whole \in PageStatus
      /\ \A i \in DOMAIN view.status : Sta!Severity(whole) >= Sta!Severity(view.status[i])
  BY <1>3, WorstCovers
<1>7. /\ view' \in Visits /\ view'.step = "done" /\ view'.answer = "page" /\ view'.rows = rows
      /\ view'.overall = whole /\ view'.comps = view.comps /\ view'.page = view.page
      /\ view'.groups = view.groups
  BY <1>1, <1>2, <1>5, <1>6 DEF Visits
<1>8. ReadSoFar' /\ Sta!FoundStaysFound'
  BY <1>7 DEF ReadSoFar, Sta!Building, Sta!FoundStaysFound
<1>9. Sta!ShowsItsComponents'
  <2>1. \A i \in DOMAIN view.comps : ~ changed =>
            \/ view.comps[i].monitor \in rows
            \/ view.comps[i].group # Loose /\ PageOf[view.comps[i].group] # view.page
    BY <1>2 DEF InItsPlace
  <2> QED  BY <1>1, <1>7, <2>1 DEF Sta!ShowsItsComponents
<1>10. Sta!WholeCoversRows'
  <2>1. \A m \in rows : /\ \E i \in DOMAIN view.comps : view.comps[i].monitor = m
                        /\ Sta!Severity(whole) >= Sta!Severity(StatusOf[m])
    BY <1>2, <1>3, <1>6
  <2>2. /\ \A m \in view'.rows :
              /\ \E i \in DOMAIN view'.comps : view'.comps[i].monitor = m
              /\ Sta!Severity(view'.overall) >= Sta!Severity(StatusOf[m])
    BY <1>7, <2>1
  <2> QED  BY <2>2 DEF Sta!WholeCoversRows, Sta!Severity
<1> QED  BY <1>1, <1>2, <1>7, <1>8, <1>9, <1>10, ReadingWrites

LEMMA StatusPageInitially ==
    ASSUME StatusPageSorts, Sta!Init  PROVE StatusPageInvariant
<1>1. PICK start \in Starts :
         /\ page = start.page /\ groups = start.groups /\ component = start.component
         /\ default \in {{}} \cup {{p} : p \in {q \in Pages : Sta!There(q)}}
  BY DEF Sta!Init
<1>2. /\ monitors = Monitors /\ changed = FALSE /\ dropped = FALSE
      /\ promoted = (IF default = {} THEN None ELSE CHOOSE p \in default : TRUE)
      /\ view = [step |-> "idle", page |-> None, comps |-> <<>>, groups |-> {}, status |-> <<>>,
                 rows |-> {}, overall |-> None, answer |-> None]
  BY DEF Sta!Init, Sta!Blank
<1>3. StatusPageShapes
  <2>1. view \in Visits
    BY <1>2 DEF Visits
  <2> QED  BY <1>1, <1>2, <2>1 DEF StatusPageShapes, StatusPageSorts
<1>4. DefaultIsThere /\ Sta!OneDefault
  <2>1. CASE default = {}
    BY <1>2, <2>1 DEF DefaultIsThere, Sta!OneDefault
  <2>2. CASE default # {}
    <3>1. PICK p \in Pages : default = {p} /\ Sta!There(p)
      BY <1>1, <2>2
    <3>2. promoted = p
      BY <1>2, <3>1
    <3> QED  BY <3>1, <3>2 DEF DefaultIsThere, Sta!OneDefault, StatusPageSorts
  <2> QED  BY <2>1, <2>2
<1>5. Sta!RowsHaveOwners
  BY <1>1, <1>2 DEF Sta!RowsHaveOwners, Sta!There, StatusPageSorts
<1>6. ReadSoFar /\ Sta!ShowsItsComponents /\ Sta!WholeCoversRows /\ Sta!FoundStaysFound
  BY <1>2 DEF ReadSoFar, Sta!Building, Sta!ShowsItsComponents, Sta!WholeCoversRows,
     Sta!FoundStaysFound, StatusPageSorts
<1> QED  BY <1>3, <1>4, <1>5, <1>6 DEF StatusPageInvariant

LEMMA StatusPageNext ==
    ASSUME StatusPageSorts, StatusPageInvariant, [Sta!Next]_(Sta!vars)  PROVE StatusPageInvariant'
<1>1. CASE UNCHANGED Sta!vars
  BY <1>1 DEF Sta!vars, StatusPageInvariant, StatusPageShapes, DefaultIsThere, Sta!RowsHaveOwners,
     Sta!OneDefault, ReadSoFar, InItsPlace, Sta!ShowsItsComponents, Sta!WholeCoversRows,
     Sta!FoundStaysFound, Sta!There, Sta!Building, Sta!Severity
<1>2. CASE Sta!Next
  BY <1>2, PageIsWritten, PageGoes, DefaultIsSet, SectionsAreWritten, VisitOpens,
     VisitReadsComponents, VisitReadsGroups, VisitReadsMonitor, VisitAssembles DEF Sta!Next
<1> QED  BY <1>1, <1>2

\* The rows of the tables have their owners, and what is read for a visitor is
\* of the page found.
THEOREM StatusPageKept ==
    ASSUME StatusPageSorts  PROVE Sta!Spec => []StatusPageInvariant
<1>1. Sta!Init => StatusPageInvariant
  BY StatusPageInitially
<1>2. StatusPageInvariant /\ [Sta!Next]_(Sta!vars) => StatusPageInvariant'
  BY StatusPageNext
<1> QED  BY <1>1, <1>2, PTL DEF Sta!Spec

\* One page at most is the default, a page shows its components, its whole is
\* no better than its rows, and it is lost only if a monitor of it went.
THEOREM StatusPageIsSound ==
    ASSUME StatusPageSorts  PROVE Sta!Spec => []Sta!StatusPageSound
<1>1. StatusPageInvariant => Sta!StatusPageSound
  BY DEF StatusPageInvariant, Sta!StatusPageSound
<1> QED  BY <1>1, StatusPageKept, PTL
=============================================================================
