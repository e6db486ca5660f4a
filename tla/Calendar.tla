----------------------------- MODULE Calendar -----------------------------
(***************************************************************************)
(* Maintenance windows: when a window takes place                          *)
(* (internal/domain/maintenance.go), who is under it, and the cache of     *)
(* windows and groups that the incident engine asks                        *)
(* (internal/maintenance/calendar.go), filled by the periodic reload and   *)
(* by each request that writes a window (internal/api/                     *)
(* maintenance_handlers.go).  A reload reads the rows, their targets and   *)
(* the groups in three queries, and others may write, or reload, between.  *)
(***************************************************************************)
EXTENDS Integers, FiniteSets

CONSTANTS
    None, Absent,
    Monitors, Groups, Windows,
    Clients,        \* the requests that may be in course at once
    Parent,         \* the monitor each monitor depends on
    GroupOf,        \* the group each monitor is in
    Zones,          \* the offsets a zone of the instance has: by instant
    Bodies,         \* [start, ends, every, target] of the requests
    Trees,          \* the places the groups may have: group |-> group above
    Day,            \* ticks of a day
    MaxDuration,    \* maxMaintenanceDuration
    Refresh,        \* refreshInterval
    MaxDelay,       \* bound: ticks a reload may last
    MaxTime, MaxEdits, MaxFailures

VARIABLES
    zone, now,
    window,         \* the table of windows: the row, without targets
    target,         \* the tables of targets
    above,          \* the table of groups: the group over each
    calendar,       \* what Calendar keeps in memory
    reload,         \* each caller of Reload: how far it is, what it read
    due,            \* ticks to the next tick of Run's timer
    age,            \* ghost: ticks since the last write of each table
    overlapped,     \* ghost: two reloads, or a write and a reload, overlapped
    ends,           \* ghost: the instants at which each window was ended
    edits, failures

vars == <<zone, now, window, target, above, calendar, reload, due, age, overlapped,
          ends, edits, failures>>

Ticker == "ticker"
Callers == Clients \cup {Ticker}
Resting == [at |-> "idle", window |-> None, target |-> None, above |-> None, since |-> 0]
\* A table not written for so long is in the cache, whatever failed before.
Lag == (1 + MaxFailures) * (Refresh + MaxDelay) + MaxDelay
-----------------------------------------------------------------------------
\* Instants and wall clock of the window's zone.  FromWall is the search of
\* time.Date for an instant that has the wall clock asked for.
Offset(t) == zone[IF t > MaxTime THEN MaxTime ELSE IF t < 0 THEN 0 ELSE t]
Wall(t) == t + Offset(t)
FromWall(w) == IF Offset(w) = 0 THEN w ELSE w - Offset(w - Offset(w))

\* The row of a window: every is the period of its recurrence in days, 0 for
\* one that takes place once.
Valid(b) ==
    /\ b.ends > b.start
    /\ IF b.every > 0 THEN b.ends - b.start < b.every * Day
                      ELSE b.ends - b.start <= MaxDuration
    /\ b.target # {}

Row(b, ended) == [start |-> b.start, ends |-> b.ends, every |-> b.every, ended |-> ended]

\* Mutant: days of a fixed length instead of the wall clock.
StartOfDays(w, k) == w.start + k * w.every * Day

\* The k-th occurrence as written, and cut by the end of the window.
StartOf(w, k) == IF k = 0 THEN w.start ELSE FromWall(Wall(w.start) + k * w.every * Day)
Occurrence(w, k) ==
    LET from == StartOf(w, k)
        to == from + (w.ends - w.start)
    IN IF w.ended = None THEN [from |-> from, to |-> to]
       ELSE IF from >= w.ended THEN None
       ELSE [from |-> from, to |-> IF to > w.ended THEN w.ended ELSE to]

\* Mutant: the nominal period without its neighbours.
CandidatesNominal(w, t) ==
    IF w.every = 0 THEN {0} ELSE {(t - w.start) \div (w.every * Day)}

\* The occurrences near t: the nominal period errs by a change of offset.
Candidates(w, t) ==
    IF w.every = 0 THEN {0}
    ELSE LET k == (t - w.start) \div (w.every * Day)
         IN {i \in k - 1 .. k + 2 : i >= 0}

Within(o, t) == o # None /\ o.from <= t /\ t < o.to
ActiveAt(w, t) ==
    t >= w.start /\ \E k \in Candidates(w, t) : Within(Occurrence(w, k), t)

\* The occurrence in course, or the next: the first candidate that is not
\* over, unless the window ended before one of those that come first.
NextOccurrence(w, t) ==
    IF t < w.start THEN Occurrence(w, 0)
    ELSE LET open == {k \in Candidates(w, t) :
                        LET o == Occurrence(w, k) IN o = None \/ o.to > t}
         IN IF open = {} THEN None
            ELSE Occurrence(w, CHOOSE k \in open : \A i \in open : k <= i)

StateAt(w, t) ==
    IF ActiveAt(w, t) THEN "active"
    ELSE IF NextOccurrence(w, t) # None THEN "scheduled" ELSE "finished"

\* A window aims at a monitor by itself, its group or the group above, and
\* covers it if it aims at it or at one it depends on.
AimsAt(tgt, tree, m) ==
    \/ m \in tgt
    \/ /\ GroupOf[m] # None
       /\ GroupOf[m] \in tgt \/ tree[GroupOf[m]] \in tgt
Covers(tgt, tree, m) ==
    LET climb[n \in 0..Cardinality(Monitors)] ==
          IF n = 0 THEN {m}
          ELSE climb[n - 1] \cup {Parent[x] : x \in climb[n - 1] \ {None}}
    IN \E x \in climb[Cardinality(Monitors)] \ {None} : AimsAt(tgt, tree, x)

\* Calendar.Covering, over the tables or over the cache.
Covering(from, m, t) ==
    \E w \in Windows :
        /\ from.window[w] # Absent
        /\ ActiveAt(from.window[w], t)
        /\ Covers(from.target[w], from.above, m)
-----------------------------------------------------------------------------
Tables == [window |-> window, target |-> target, above |-> above]

\* The process has read the calendar once before anything asks.
Init ==
    /\ zone \in Zones
    /\ now = 0
    /\ \E found \in [Windows -> {b \in Bodies : Valid(b)} \cup {Absent}] :
          /\ window = [w \in Windows |->
                IF found[w] = Absent THEN Absent ELSE Row(found[w], None)]
          /\ target = [w \in Windows |->
                IF found[w] = Absent THEN {} ELSE found[w].target]
    /\ above \in Trees
    /\ calendar = [window |-> window, target |-> target, above |-> above]
    /\ reload = [c \in Callers |-> Resting]
    /\ due = Refresh
    /\ age = [window |-> 0, target |-> 0, above |-> 0]
    /\ overlapped = FALSE
    /\ ends = [w \in Windows |-> {}]
    /\ edits = 0 /\ failures = 0

Reloading == {c \in Callers : reload[c].at # "idle"}

\* Reload begins: after a write for a request, at its tick for Run.
Begin(c) == [reload EXCEPT ![c] = [Resting EXCEPT !.at = "windows"]]
Overlaps(c) == overlapped \/ Reloading \ {c} # {}

Written(tables) == [t \in DOMAIN age |-> IF t \in tables THEN 0 ELSE age[t]]

\* A request: the write, one transaction, then the reload.
Write(c, w, row, tgt) ==
    /\ reload[c].at = "idle" /\ edits < MaxEdits
    /\ window' = [window EXCEPT ![w] = row]
    /\ target' = [target EXCEPT ![w] = tgt]
    /\ age' = Written({"window", "target"})
    /\ reload' = Begin(c)
    /\ overlapped' = Overlaps(c)
    /\ edits' = edits + 1
    /\ UNCHANGED <<zone, now, above, calendar, due, failures>>

Create(c, w, b) ==
    /\ window[w] = Absent /\ Valid(b)
    /\ ends' = [ends EXCEPT ![w] = {}]
    /\ Write(c, w, Row(b, None), b.target)

\* Mutant: an edit opens the window again.
EndedNever(row) == None

\* An edit does not touch the end of the window.
Ended(row) == row.ended
Update(c, w, b) ==
    /\ window[w] # Absent /\ Valid(b)
    /\ Write(c, w, Row(b, Ended(window[w])), b.target)
    /\ UNCHANGED ends

\* Mutant: the last request to end a window wins.
EarlierNever(row, at) == TRUE

\* The earlier of two ends stays; the instant is that of the request, which
\* may reach the table after a later one.
Earlier(row, at) == row.ended = None \/ row.ended > at
End(c, w, at) ==
    /\ window[w] # Absent /\ at <= now
    /\ ends' = [ends EXCEPT ![w] = @ \cup {at}]
    /\ Write(c, w, IF Earlier(window[w], at) THEN [window[w] EXCEPT !.ended = at]
                                             ELSE window[w], target[w])

Delete(c, w) ==
    /\ window[w] # Absent
    /\ ends' = [ends EXCEPT ![w] = {}]
    /\ Write(c, w, Absent, {})

\* The group handlers move a group and do not reload the calendar.
MoveGroup(tree) ==
    /\ tree # above /\ edits < MaxEdits
    /\ above' = tree
    /\ age' = Written({"above"})
    /\ overlapped' = (overlapped \/ Reloading # {})
    /\ edits' = edits + 1
    /\ UNCHANGED <<zone, now, window, target, calendar, reload, due, ends, failures>>

\* The tick of Run's timer; one that finds Run in its reload waits for it.
TickerDue == due = 0 /\ reload[Ticker].at = "idle"
StartTick ==
    /\ TickerDue
    /\ reload' = Begin(Ticker)
    /\ due' = Refresh
    /\ overlapped' = Overlaps(Ticker)
    /\ UNCHANGED <<zone, now, window, target, above, calendar, age, ends, edits, failures>>

\* maintenanceRepo.List reads the rows, then the targets of all of them.
ReadRows(c) ==
    /\ reload[c].at = "windows"
    /\ reload' = [reload EXCEPT ![c].at = "targets", ![c].window = window]
    /\ UNCHANGED <<zone, now, window, target, above, calendar, due, age, overlapped,
                   ends, edits, failures>>

\* Targets of rows that were not read are of no use.
ReadTargets(c) ==
    /\ reload[c].at = "targets"
    /\ reload' = [reload EXCEPT ![c].at = "groups",
                    ![c].target = [w \in Windows |->
                        IF reload[c].window[w] = Absent THEN {} ELSE target[w]]]
    /\ UNCHANGED <<zone, now, window, target, above, calendar, due, age, overlapped,
                   ends, edits, failures>>

ReadGroups(c) ==
    /\ reload[c].at = "groups"
    /\ reload' = [reload EXCEPT ![c].at = "install", ![c].above = above]
    /\ UNCHANGED <<zone, now, window, target, above, calendar, due, age, overlapped,
                   ends, edits, failures>>

\* Mutant: the groups are read once, when the process starts.
CachedWindows(c) ==
    [window |-> reload[c].window, target |-> reload[c].target, above |-> calendar.above]

Cached(c) ==
    [window |-> reload[c].window, target |-> reload[c].target, above |-> reload[c].above]
Install(c) ==
    /\ reload[c].at = "install"
    /\ calendar' = Cached(c)
    /\ reload' = [reload EXCEPT ![c] = Resting]
    /\ UNCHANGED <<zone, now, window, target, above, due, age, overlapped, ends, edits,
                   failures>>

\* A query fails: the calendar stays as it was.
Fail(c) ==
    /\ reload[c].at \notin {"idle", "install"} /\ failures < MaxFailures
    /\ reload' = [reload EXCEPT ![c] = Resting]
    /\ failures' = failures + 1
    /\ UNCHANGED <<zone, now, window, target, above, calendar, due, age, overlapped,
                   ends, edits>>

\* A tick due starts before the next instant, and no reload lasts longer than
\* MaxDelay.
Tick ==
    /\ now < MaxTime
    /\ ~TickerDue
    /\ \A c \in Callers : reload[c].at = "idle" \/ reload[c].since < MaxDelay
    /\ now' = now + 1
    /\ due' = IF due > 0 THEN due - 1 ELSE 0
    /\ age' = [t \in DOMAIN age |-> IF age[t] > Lag THEN age[t] ELSE age[t] + 1]
    /\ reload' = [c \in Callers |->
                    IF reload[c].at = "idle" THEN reload[c]
                    ELSE [reload[c] EXCEPT !.since = @ + 1]]
    /\ UNCHANGED <<zone, window, target, above, calendar, overlapped, ends, edits,
                   failures>>

Next ==
    \/ \E c \in Clients, w \in Windows, b \in Bodies : Create(c, w, b) \/ Update(c, w, b)
    \/ \E c \in Clients, w \in Windows, at \in {now, now - 1} :
          at >= 0 /\ End(c, w, at)
    \/ \E c \in Clients, w \in Windows : Delete(c, w)
    \/ \E tree \in Trees : MoveGroup(tree)
    \/ StartTick
    \/ \E c \in Callers : ReadRows(c) \/ ReadTargets(c) \/ ReadGroups(c) \/ Install(c) \/ Fail(c)
    \/ Tick

Spec == Init /\ [][Next]_vars
-----------------------------------------------------------------------------
TypeOK ==
    /\ zone \in Zones /\ now \in 0..MaxTime /\ due \in 0..Refresh
    /\ \A w \in Windows :
          /\ window[w] # Absent =>
                /\ window[w].start < window[w].ends
                /\ window[w].ended \in 0..MaxTime \cup {None}
          /\ target[w] \in SUBSET (Monitors \cup Groups)
    /\ above \in Trees /\ calendar.above \in Trees
    /\ \A c \in Callers :
          /\ reload[c].at \in {"idle", "windows", "targets", "groups", "install"}
          /\ reload[c].since \in 0..MaxDelay
    /\ overlapped \in BOOLEAN
    /\ edits \in 0..MaxEdits /\ failures \in 0..MaxFailures

\* A window is active exactly during its occurrences, and the next one is the
\* first that is not over: what the nominal period finds among its neighbours
\* is what all the occurrences give, changes of offset included
\* (domain/maintenance.go, candidates).
Horizon == 0 .. MaxTime + 2
OccurrencesAreFound ==
    \A w \in Windows : window[w] # Absent =>
        LET all == IF window[w].every = 0 THEN {0} ELSE Horizon
            open == {k \in all : LET o == Occurrence(window[w], k)
                                 IN o # None /\ o.to > now}
            next == NextOccurrence(window[w], now)
        IN /\ ActiveAt(window[w], now)
                <=> \E k \in all : Within(Occurrence(window[w], k), now)
           /\ (next = None) <=> (open = {})
           /\ next # None =>
                \E k \in open : /\ next = Occurrence(window[w], k)
                                /\ \A i \in open : k <= i

\* Each occurrence starts at the wall clock of the first, unless the clock
\* skips it that day (occurrence).
SameWallClock ==
    \A w \in Windows : window[w] # Absent /\ window[w].every > 0 =>
        \A k \in 1..3 :
            LET wall == Wall(window[w].start) + k * window[w].every * Day
            IN \/ Wall(StartOf(window[w], k)) = wall
               \/ \A t \in wall - 2 .. wall + 2 : Wall(t) # wall

\* A window ended by a request covers nothing from the earliest of the
\* instants asked for, edits and later requests notwithstanding
\* (sqlstore/maintenance.go, End).
EndIsFinal ==
    \A w \in Windows : window[w] # Absent /\ ends[w] # {} =>
        \A at \in ends[w] :
            /\ window[w].ended # None /\ window[w].ended <= at
            /\ now >= at => StateAt(window[w], now) = "finished"

\* A write is in the calendar when the request that made it has reloaded, and
\* no other reload overlapped one (calendar.go, Reload); a group that moved
\* waits for the timer.
SeenAtOnce ==
    ~overlapped /\ Reloading = {} /\ failures = 0 =>
        calendar.window = window /\ calendar.target = target

\* Whatever overlaps or fails, nothing stale stays in the calendar past the
\* next reload that works.
CalendarCatchesUp ==
    /\ age["window"] > Lag => calendar.window = window
    /\ age["target"] > Lag => calendar.target = target
    /\ age["above"] > Lag => calendar.above = above

\* A monitor is put in maintenance, or not, as the tables say.
AskedAsStored ==
    \/ \E t \in DOMAIN age : age[t] <= Lag
    \/ \A m \in Monitors : Covering(calendar, m, now) = Covering(Tables, m, now)

CalendarSound ==
    /\ OccurrencesAreFound /\ SameWallClock /\ EndIsFinal
    /\ SeenAtOnce /\ CalendarCatchesUp /\ AskedAsStored
=============================================================================
