-------------------------------- MODULE Scopes --------------------------------
(***************************************************************************)
(* What an account that does not reach everything may do to groups,        *)
(* monitors and accounts (internal/api/access.go and its handlers,         *)
(* domain/scope.go, domain/group.go, sqlstore/auth.go, sqlstore/group.go). *)
(* A request authenticates, resolves the scope against the groups there    *)
(* are, looks at what its path names, decides on what its body asks and    *)
(* writes, each on what it read by then.  Whoever reaches everything       *)
(* changes the same rows between any two of these steps.                   *)
(***************************************************************************)
EXTENDS Naturals

CONSTANTS
    Groups, Monitors, Accounts, Names, Clients,
    None,           \* no group, no name, no target
    Absent, Gone,   \* not there yet; deleted: an id is not given twice
    Known,          \* the groups, monitors and accounts there are at the start
    Named,          \* the names the groups have, or get, at the start
    Asked,          \* bound: the scopes that are asked for and given
    MaxRequests, MaxDecrees     \* bounds

VARIABLES
    group, name,    \* table monitor_group: parent and name
    place,          \* table monitor: the group
    account,        \* tables app_user and user_group
    request, requests, decrees,
    owned,          \* ghost: what the restricted accounts were ever entitled to
    law,            \* ghost: the tables as those who reach everything left them
    told            \* ghost: the groups whose names refused a request

vars == <<group, name, place, account, request, requests, decrees, owned, law, told>>

Here(row) == row \notin {Absent, Gone}
Full(row) == Here(row) /\ row.all
FullAdmins(table) == {u \in Accounts : Full(table[u]) /\ table[u].role = "admin"}
Idle == [step |-> "idle"]
Given(role, s) == [role |-> role, all |-> s.all, groups |-> s.groups]
Row == [role: {"admin", "viewer"}, all: BOOLEAN, groups: SUBSET Groups]
-----------------------------------------------------------------------------
(***************************************************************************)
(* The decisions.                                                          *)
(***************************************************************************)
\* NewAccess: the groups granted that exist, and those under them.
Reach(scope, tree) ==
    {g \in Groups : Here(tree[g]) /\ \E s \in scope : Here(tree[s]) /\ (g = s \/ tree[g] = s)}

\* Mutant of Grants: the account that is asked for is never looked at.
GrantsAny(reach, give) == TRUE

\* Access.Grants, of an account that does not reach everything.
Grants(reach, give) == ~ give.all /\ give.groups \subseteq reach

\* Mutant of Guarded: only the groups are guarded.
GuardedGroups(reach, kind, id) ==
    CASE kind = "group" -> id \in reach
      [] kind = "monitor" -> Here(place[id])
      [] OTHER -> Here(account[id]) /\ Grants(reach, account[id])

\* guardMonitor, guardGroup and guardUser.
Guarded(reach, kind, id) ==
    CASE kind = "group" -> id \in reach
      [] kind = "monitor" -> Here(place[id]) /\ place[id] \in reach
      [] OTHER -> Here(account[id]) /\ Grants(reach, account[id])

\* GroupTree.IsLeaf.
IsLeaf(tree, g) == Here(tree[g]) /\ \A x \in Groups : tree[x] # g

\* Mutant of MayPlace: in no group, where nobody restricted reaches it.
MayPlaceOut(r, up) == up # None => up \in r.reach /\ IsLeaf(r.tree, up)

\* checkMonitorPlacement.
MayPlace(r, up) == up # None /\ up \in r.reach /\ IsLeaf(r.tree, up)

\* Mutant of SeesSiblings: whoever reaches a group may rename it.
SeesEvery(r, up) == TRUE

\* seesSiblingsUnder: not those of the top.
SeesSiblings(r, up) == up # None /\ up \in r.reach

\* Mutant of MayNest: any group of the top is a parent.
MayNestAnywhere(r, up, n) == up # None /\ r.tree[up] = None /\ up # r.id

\* checkGroupPlacement, and CheckPlacement after it.
MayNest(r, up, n) ==
    /\ r.id # None /\ n # r.names[r.id] => SeesSiblings(r, r.tree[r.id])
    /\ IF up = None THEN r.id # None /\ r.tree[r.id] = None
       ELSE /\ up \in r.reach /\ up # r.id /\ r.tree[up] = None
            /\ r.id # None => \A x \in Groups : r.tree[x] # r.id

\* placeGroup: a parent that is new to the group has no monitors of its own.
Room(r, up) ==
    up # None /\ (r.id # None => r.tree[r.id] # up) => \A m \in Monitors : place[m] # up
-----------------------------------------------------------------------------
TypeOK ==
    /\ group \in [Groups -> Groups \cup {None, Absent, Gone}]
    /\ name \in [Groups -> Names]
    /\ place \in [Monitors -> Groups \cup {None, Absent, Gone}]
    /\ account \in [Accounts -> Row \cup {Absent, Gone}]
    /\ \A c \in Clients : request[c].step \in {"idle", "resolve", "guard", "decide", "write"}
    /\ requests \in 0..MaxRequests /\ decrees \in 0..MaxDecrees
    /\ owned \subseteq Groups \cup Monitors

\* Two levels, whoever asks (parentIsTopLevel).
TwoLevels == \A g \in Groups : group[g] \in Groups => group[group[g]] = None

Restricted == {u \in Accounts : Here(account[u]) /\ ~ account[u].all}
ReachOf(u) == Reach(account[u].groups, group)
In(gs) == gs \cup {m \in Monitors : place[m] \in gs}

Init ==
    /\ group \in {t \in [Groups -> Groups \cup {None, Absent}] : \A g \in Groups :
         /\ (t[g] = Absent) = (g \notin Known)
         /\ t[g] \in Groups => t[g] # g /\ t[t[g]] = None
         /\ \A h \in Groups \ {g} : Here(t[h]) /\ t[h] = t[g] => Named[h] # Named[g]}
    /\ name = Named
    /\ place \in {p \in [Monitors -> Groups \cup {None, Absent}] : \A m \in Monitors :
         /\ (p[m] = Absent) = (m \notin Known)
         /\ p[m] \in Groups => IsLeaf(group, p[m])}
    /\ account \in {a \in [Accounts -> {Given("admin", s) : s \in Asked} \cup {Absent}] :
         \A u \in Accounts : /\ (a[u] = Absent) = (u \notin Known)
                             /\ a[u] # Absent => \A g \in a[u].groups : Here(group[g])}
    /\ FullAdmins(account) # {}
    /\ request = [c \in Clients |-> Idle] /\ requests = 0 /\ decrees = 0
    /\ owned = In(UNION {ReachOf(u) : u \in Restricted})
    /\ law = [group |-> group, place |-> place, account |-> account] /\ told = {}

Goes(c, r) == request' = [request EXCEPT ![c] = r]
Reads == UNCHANGED <<group, name, place, account, decrees, owned, law, told>>
-----------------------------------------------------------------------------
(***************************************************************************)
(* The requests of restricted administrators.                              *)
(***************************************************************************)
\* authenticate: the account with what it was granted; requireAdmin.
Authenticate(c, u) ==
    /\ request[c].step = "idle" /\ requests < MaxRequests /\ requests' = requests + 1
    /\ u \in Restricted /\ account[u].role = "admin"
    /\ Goes(c, [step |-> "resolve", scope |-> account[u].groups, since |-> decrees])
    /\ Reads

\* withViewer: resolveViewer.
Resolve(c) ==
    /\ request[c].step = "resolve"
    /\ Goes(c, [step |-> "guard", reach |-> Reach(request[c].scope, group), tree |-> group,
                names |-> name, since |-> request[c].since])
    /\ UNCHANGED requests /\ Reads

\* scopeGuard, on a path that names something; one that creates names nothing.
Guard(c, kind, id) ==
    LET r == request[c] IN
    /\ r.step = "guard"
    /\ id # None => Guarded(r.reach, kind, id)
    /\ Goes(c, [step |-> "decide", kind |-> kind, id |-> id, reach |-> r.reach,
                tree |-> r.tree, names |-> r.names, since |-> r.since])
    /\ UNCHANGED requests /\ Reads

Write(c, op, up, n, give) ==
    /\ Goes(c, [step |-> "write", kind |-> request[c].kind, op |-> op, id |-> request[c].id,
                up |-> up, name |-> n, give |-> give, since |-> request[c].since])
    /\ UNCHANGED requests /\ Reads

\* The handlers, up to what they ask the store.
DecideMonitor(c, up) ==
    /\ request[c].step = "decide" /\ request[c].kind = "monitor" /\ MayPlace(request[c], up)
    /\ Write(c, "put", up, None, None)

DecideGroup(c, up, n) ==
    /\ request[c].step = "decide" /\ request[c].kind = "group"
    /\ MayNest(request[c], up, n) /\ Room(request[c], up)
    /\ Write(c, "put", up, n, None)

\* Without a scope the account keeps its own; a new one gets everything.
DecideUser(c, role, give) ==
    LET asked == IF give = None /\ request[c].id = None THEN [all |-> TRUE, groups |-> {}] ELSE give
    IN /\ request[c].step = "decide" /\ request[c].kind = "user"
       /\ asked # None => Grants(request[c].reach, asked)
       /\ Write(c, "put", None, role, asked)

DecideDelete(c) ==
    /\ request[c].step = "decide" /\ request[c].id # None
    /\ Write(c, "delete", None, None, None)

\* Where a request writes: the row it named, or one that is new.
Target(r, x, table) == IF r.id = None THEN table[x] = Absent ELSE x = r.id /\ Here(table[x])

\* The group may be gone by then: the statement finds it, or writes nothing.
WriteMonitor(c, m) ==
    LET r == request[c] IN
    /\ r.step = "write" /\ r.kind = "monitor" /\ Target(r, m, place)
    /\ r.up # None => Here(group[r.up])
    /\ place' = [place EXCEPT ![m] = IF r.op = "put" THEN r.up ELSE Gone]
    /\ owned' = IF r.id = None /\ r.up \in owned THEN owned \cup {m} ELSE owned
    /\ Goes(c, Idle)
    /\ UNCHANGED <<group, name, account, requests, decrees, law, told>>

\* The other groups under a parent, with a name that is taken.
Namesakes(g, up, n) ==
    {x \in Groups \ {g} : Here(group[x]) /\ group[x] = up /\ name[x] = n}

\* parentIsTopLevel, and no groups under a group that gets a parent.
Fits(g, up) ==
    up # None => group[up] = None /\ up # g /\ \A x \in Groups : group[x] # g

\* Create and Update.
WriteGroup(c, g) ==
    LET r == request[c] IN
    /\ r.step = "write" /\ r.kind = "group" /\ r.op = "put" /\ Target(r, g, group)
    /\ Fits(g, r.up) /\ Namesakes(g, r.up, r.name) = {}
    /\ group' = [group EXCEPT ![g] = r.up] /\ name' = [name EXCEPT ![g] = r.name]
    /\ owned' = IF r.id = None /\ r.up \in owned THEN owned \cup {g} ELSE owned
    /\ Goes(c, Idle)
    /\ UNCHANGED <<place, account, requests, decrees, law, told>>

\* The unique index: the answer tells that the name is taken.
NameTaken(c, g) ==
    LET r == request[c] IN
    /\ r.step = "write" /\ r.kind = "group" /\ r.op = "put" /\ Target(r, g, group)
    /\ Fits(g, r.up) /\ Namesakes(g, r.up, r.name) # {}
    /\ told' = IF r.since = decrees THEN told \cup Namesakes(g, r.up, r.name) ELSE told
    /\ Goes(c, Idle)
    /\ UNCHANGED <<group, name, place, account, requests, decrees, owned, law>>

\* Delete: only an empty group, with the rows of user_group that name it.
Empty(g) == (\A m \in Monitors : place[m] # g) /\ \A x \in Groups : group[x] # g
Without(table, g) ==
    [u \in Accounts |-> IF Here(table[u]) THEN [table[u] EXCEPT !.groups = @ \ {g}] ELSE table[u]]

DeleteGroup(c, g) ==
    LET r == request[c] IN
    /\ r.step = "write" /\ r.kind = "group" /\ r.op = "delete" /\ Target(r, g, group) /\ Empty(g)
    /\ group' = [group EXCEPT ![g] = Gone] /\ account' = Without(account, g)
    /\ Goes(c, Idle)
    /\ UNCHANGED <<name, place, requests, decrees, owned, law, told>>

\* Create, SetAccess and Delete; the groups of a scope are there.
RowAfter(r, row) ==
    CASE r.op = "delete" -> Gone
      [] r.op = "put" /\ r.give = None -> [row EXCEPT !.role = r.name]
      [] OTHER -> Given(r.name, r.give)

WriteUser(c, u) ==
    LET r == request[c] IN
    /\ r.step = "write" /\ r.kind = "user" /\ Target(r, u, account)
    /\ r.op = "put" /\ r.give # None => \A g \in r.give.groups : Here(group[g])
    /\ account' = [account EXCEPT ![u] = RowAfter(r, @)]
    /\ r.id # None /\ FullAdmins(account) # {} => FullAdmins(account') # {}
    /\ Goes(c, Idle)
    /\ UNCHANGED <<group, name, place, requests, decrees, owned, law, told>>

\* What the store refuses, and any other refusal, at any step.
Refused(c) ==
    /\ request[c].step \notin {"idle", "resolve"} /\ Goes(c, Idle)
    /\ UNCHANGED requests /\ Reads
-----------------------------------------------------------------------------
(***************************************************************************)
(* Whoever reaches everything, as far as the rows are concerned.           *)
(***************************************************************************)
\* A decree entitles to what it puts under what is owned.
Decree(tree, places, accounts, entitled) ==
    /\ decrees < MaxDecrees /\ decrees' = decrees + 1
    /\ group' = tree /\ place' = places /\ account' = accounts
    /\ owned' = LET gs == entitled \cup {g \in Groups : tree[g] \in entitled}
                IN gs \cup {m \in Monitors : places[m] \in gs}
    /\ UNCHANGED <<name, request, requests, told>>

MoveGroup(g, up) ==
    /\ Here(group[g]) /\ Fits(g, up) /\ Namesakes(g, up, name[g]) = {}
    /\ up # None => \A m \in Monitors : place[m] # up
    /\ Decree([group EXCEPT ![g] = up], place, account, owned)
    /\ law' = [law EXCEPT !.group[g] = up]

MoveMonitor(m, up) ==
    /\ Here(place[m])
    /\ up # None => IsLeaf(group, up)
    /\ Decree(group, [place EXCEPT ![m] = up], account, owned)
    /\ law' = [law EXCEPT !.place[m] = up]

\* A request that has looked at the account and not written it yet.
AtIt(u) ==
    \E c \in Clients : /\ request[c].step \in {"decide", "write"}
                       /\ request[c].kind = "user" /\ request[c].id = u

Appoint(u, row) ==
    /\ Here(account[u]) /\ \A g \in row.groups : Here(group[g])
    /\ FullAdmins(account) # {} => FullAdmins([account EXCEPT ![u] = row]) # {}
    /\ Decree(group, place, [account EXCEPT ![u] = row], owned \cup row.groups)
    /\ law' = [law EXCEPT !.account[u] = IF AtIt(u) THEN Gone ELSE row]

Next ==
    \/ \E c \in Clients :
         \/ \E u \in Accounts : Authenticate(c, u) \/ WriteUser(c, u)
         \/ Resolve(c) \/ Refused(c) \/ DecideDelete(c)
         \/ \E m \in Monitors : Guard(c, "monitor", m) \/ WriteMonitor(c, m)
         \/ \E g \in Groups :
              Guard(c, "group", g) \/ WriteGroup(c, g) \/ NameTaken(c, g) \/ DeleteGroup(c, g)
         \/ \E u \in Accounts : Guard(c, "user", u)
         \/ \E kind \in {"monitor", "group", "user"} : Guard(c, kind, None)
         \/ \E up \in Groups \cup {None} :
              DecideMonitor(c, up) \/ \E n \in Names : DecideGroup(c, up, n)
         \/ \E role \in {"admin", "viewer"} :
            \E give \in Asked \cup {None} : DecideUser(c, role, give)
    \/ \E up \in Groups \cup {None} :
         (\E g \in Groups : MoveGroup(g, up)) \/ \E m \in Monitors : MoveMonitor(m, up)
    \/ \E u \in Accounts, role \in {"admin", "viewer"}, s \in Asked : Appoint(u, Given(role, s))

Spec == Init /\ [][Next]_vars
-----------------------------------------------------------------------------
\* Nobody reaches what restricted accounts were never entitled to, whoever
\* creates, moves or appoints whom meanwhile (access.go, checkGrant).
NobodyReachesMore ==
    \A u \in Restricted :
        /\ ReachOf(u) \subseteq owned
        /\ \A m \in Monitors : place[m] \in ReachOf(u) => m \in owned

\* What they were not entitled to is as it was left (access.go, scopeGuard).
OutsideUntouched ==
    /\ \A g \in Groups \ owned : group[g] = law.group[g]
    /\ \A m \in Monitors \ owned : place[m] = law.place[m]

\* An account that reaches everything changes by the hand of another that
\* does, unless it was raised while a request was at it (guardUser).
FullUntouched ==
    \A u \in Accounts :
        Full(account[u]) \/ Full(law.account[u]) => law.account[u] \in {account[u], Gone}

\* A name that is taken tells of no group outside (checkGroupPlacement).
TellsNothing == told \subseteq owned

ScopesSound ==
    /\ TwoLevels /\ NobodyReachesMore /\ OutsideUntouched /\ FullUntouched /\ TellsNothing
=============================================================================
