---------------------------- MODULE Announcements ----------------------------
(***************************************************************************)
(* The accounts people give of outages, and the page that shows them       *)
(* (internal/api/statuspage_handlers.go, domain/announcement.go,           *)
(* sqlstore/statuspage.go, statuspage/statuspage.go).  A request reads an  *)
(* announcement, may add to its timeline and writes it back; the page is   *)
(* read in one query after another.                                        *)
(***************************************************************************)
EXTENDS Integers, Sequences, FiniteSets, SequencesExt

CONSTANTS
    None, Gone,
    Announcements,  \* naturals: the ids, of which the greater is the newer
    Monitors,
    Clients,        \* requests in course at once
    Phases,         \* the phases of an announcement, "resolved" among them
    Bodies,         \* [phase, global, components] of the requests
    WindowDays,     \* how far back the page reads
    Limit,          \* DefaultPageSize
    MaxTime, MaxRequests, MaxEdits, MaxFailures, MaxViews

VARIABLES
    now,
    monitors,       \* table monitor
    announcement,   \* tables announcement and announcement_component
    timeline,       \* table announcement_update, in order of insertion
    published,      \* table status_page_component: the monitors of the page
    request,
    view,           \* Builder.build: what it has read, what it has put together
    requests, edits, failures, views,
    closed,         \* ghost: when each announcement was last resolved
    overlapped,     \* ghost: two requests about it were in course at once
    silent,         \* ghost: its phase was changed without an entry, or an
                    \* entry was made without its phase
    could, always   \* ghosts: what was for the page at some instant of its
                    \* reading, and what was throughout and was not written

vars == <<now, monitors, announcement, timeline, published, request, view, requests,
          edits, failures, views, closed, overlapped, silent, could, always>>

Resolved == "resolved"
Idle == [step |-> "idle"]
Blank == [step |-> "idle", published |-> {}, since |-> 0, rows |-> <<>>, shown |-> {}]
Stored(a) == announcement[a] \notin {None, Gone}
InCourse(a) == {c \in Clients : request[c].step # "idle" /\ request[c].of = a}
-----------------------------------------------------------------------------
\* Announcement.Validate.
Valid(b) == b.phase \in Phases /\ (b.global \/ b.components # {})

\* Mutant: the hour of the last request about it.
StampNow(before, phase, at) == IF phase = Resolved THEN at ELSE None

\* Mutant: an announcement that opens again keeps its hour.
StampForEver(before, phase, at) ==
    IF before # None THEN before ELSE IF phase = Resolved THEN at ELSE None

\* resolvedStamp: none for what is open, the first for what is not.
Stamp(before, phase, at) ==
    IF phase # Resolved THEN None ELSE IF before # None THEN before ELSE at

\* Mutant: without components it is everywhere.
ShowsOnAll(row, page) == row.global \/ row.components = {} \/ row.components \cap page # {}

\* Announcement.ShowsOn.
ShowsOn(row, page) == row.global \/ row.components \cap page # {}

\* Updates, by the hour published, then by id.
LastEntry(entries) ==
    entries[CHOOSE i \in DOMAIN entries : \A j \in DOMAIN entries :
                \/ entries[j].at < entries[i].at
                \/ entries[j].at = entries[i].at /\ j <= i]
-----------------------------------------------------------------------------
Init ==
    /\ now = 0 /\ monitors = Monitors
    /\ announcement = [a \in Announcements |-> None]
    /\ timeline = [a \in Announcements |-> <<>>]
    /\ published \in SUBSET Monitors
    /\ request = [c \in Clients |-> Idle] /\ view = Blank
    /\ requests = 0 /\ edits = 0 /\ failures = 0 /\ views = 0
    /\ closed = [a \in Announcements |-> None]
    /\ overlapped = [a \in Announcements |-> FALSE]
    /\ silent = [a \in Announcements |-> FALSE]
    /\ could = {} /\ always = {}

Goes(c, r) == request' = [request EXCEPT ![c] = r]
Request(c) == request[c].step = "idle" /\ requests < MaxRequests /\ requests' = requests + 1

\* Of the announcement a request is about, what the ghosts keep.
Closes(a, phase, at) ==
    closed' = [closed EXCEPT ![a] =
        IF phase # Resolved THEN None
        ELSE IF Stored(a) /\ announcement[a].phase = Resolved THEN @ ELSE at]

\* handleCreateAnnouncement: a transaction, refused if a monitor is not
\* there; then the first entry, if the request has one.
Create(c, b, says) ==
    /\ Request(c) /\ Valid(b) /\ b.components \subseteq monitors
    /\ \E a \in Announcements :
         /\ announcement[a] = None /\ \A x \in Announcements : x < a => announcement[x] # None
         /\ announcement' = [announcement EXCEPT ![a] =
               [phase |-> b.phase, global |-> b.global, components |-> b.components,
                started |-> now, resolved |-> Stamp(None, b.phase, now)]]
         /\ Closes(a, b.phase, now)
         /\ Goes(c, IF says THEN [step |-> "entry", kind |-> "create", of |-> a,
                                  phase |-> b.phase, at |-> now, row |-> None]
                            ELSE Idle)
    /\ UNCHANGED <<now, monitors, timeline, published, view, edits, failures, views,
                   overlapped, silent>>

\* handleUpdateAnnouncement and handlePublishUpdate: Get reads the row ...
ReadRow(c, a, kind, b) ==
    /\ Request(c) /\ Stored(a)
    /\ kind = "edit" => Valid(b)
    /\ Goes(c, [step |-> "components", kind |-> kind, of |-> a,
                body |-> IF kind = "edit" THEN b ELSE [phase |-> b.phase],
                row |-> announcement[a]])
    /\ overlapped' = [overlapped EXCEPT ![a] = @ \/ InCourse(a) # {}]
    /\ UNCHANGED <<now, monitors, announcement, timeline, published, view, edits, failures,
                   views, closed, silent>>

\* ... and the components; then the handler reads the clock.
ReadComponents(c) ==
    LET r == request[c]
        found == IF Stored(r.of) THEN announcement[r.of].components ELSE {}
    IN
    /\ r.step = "components"
    /\ IF r.kind = "edit"
         THEN Goes(c, [step |-> "write", kind |-> "edit", of |-> r.of, phase |-> r.body.phase,
                       at |-> now,
                       row |-> [r.row EXCEPT !.global = r.body.global,
                                             !.components = r.body.components]])
         ELSE Goes(c, [step |-> "entry", kind |-> "publish", of |-> r.of,
                       phase |-> r.body.phase, at |-> now,
                       row |-> [r.row EXCEPT !.components = found]])
    /\ UNCHANGED <<now, monitors, announcement, timeline, published, view, requests, edits,
                   failures, views, closed, overlapped, silent>>

\* AddUpdate, refused if the announcement is gone.
AddUpdate(c) ==
    LET r == request[c] IN
    /\ r.step = "entry"
    /\ IF Stored(r.of)
         THEN /\ timeline' = [timeline EXCEPT ![r.of] =
                                Append(@, [phase |-> r.phase, at |-> r.at])]
              /\ Goes(c, IF r.kind = "publish" THEN [r EXCEPT !.step = "write"] ELSE Idle)
         ELSE Goes(c, Idle) /\ UNCHANGED timeline
    /\ UNCHANGED <<now, monitors, announcement, published, view, requests, edits, failures,
                   views, closed, overlapped, silent>>

\* Mutant: the phase of an entry stays with the entry.
PhaseOf(r) == r.row.phase

\* Update: the whole announcement as the request read it, with its phase and
\* its hour; refused if the announcement, or a monitor of it, is gone.
Phase(r) == r.phase
Write(c) ==
    LET r == request[c]
        row == [r.row EXCEPT !.phase = Phase(r), !.resolved = Stamp(@, Phase(r), r.at)]
    IN
    /\ r.step = "write" /\ Goes(c, Idle)
    /\ IF Stored(r.of) /\ row.components \subseteq monitors
         THEN /\ announcement' = [announcement EXCEPT ![r.of] = row]
              /\ Closes(r.of, Phase(r), r.at)
              /\ silent' = [silent EXCEPT ![r.of] =
                    IF r.kind = "publish" THEN FALSE
                    ELSE @ \/ Phase(r) # announcement[r.of].phase]
         ELSE /\ silent' = [silent EXCEPT ![r.of] = @ \/ r.kind = "publish"]
              /\ UNCHANGED <<announcement, closed>>
    /\ UNCHANGED <<now, monitors, timeline, published, view, requests, edits, failures,
                   views, overlapped>>

\* The database fails a request where it is; an entry may be without text.
Fail(c) ==
    LET r == request[c] IN
    /\ r.step # "idle" /\ failures < MaxFailures
    /\ Goes(c, Idle) /\ failures' = failures + 1
    /\ silent' = [silent EXCEPT ![r.of] =
          @ \/ (r.kind = "publish" /\ r.step = "write")]
    /\ UNCHANGED <<now, monitors, announcement, timeline, published, view, requests, edits,
                   views, closed, overlapped>>

Edit == edits < MaxEdits /\ edits' = edits + 1

Delete(a) ==
    /\ Edit /\ Stored(a)
    /\ announcement' = [announcement EXCEPT ![a] = Gone]
    /\ timeline' = [timeline EXCEPT ![a] = <<>>]
    /\ UNCHANGED <<now, monitors, published, request, view, requests, failures, views,
                   closed, overlapped, silent>>

\* A monitor goes, and the rows that name it.
DeleteMonitor(m) ==
    /\ Edit /\ m \in monitors
    /\ monitors' = monitors \ {m} /\ published' = published \ {m}
    /\ announcement' = [a \in Announcements |->
          IF Stored(a) THEN [announcement[a] EXCEPT !.components = @ \ {m}]
                       ELSE announcement[a]]
    /\ UNCHANGED <<now, timeline, request, view, requests, failures, views, closed,
                   overlapped, silent>>

\* SetComponent and RemoveComponent.
Publish(m) ==
    /\ Edit /\ m \in monitors
    /\ published' = IF m \in published THEN published \ {m} ELSE published \cup {m}
    /\ UNCHANGED <<now, monitors, announcement, timeline, request, view, requests, failures,
                   views, closed, overlapped, silent>>

Tick ==
    /\ now < MaxTime /\ now' = now + 1
    /\ UNCHANGED <<monitors, announcement, timeline, published, request, view, requests,
                   edits, failures, views, closed, overlapped, silent>>
-----------------------------------------------------------------------------
\* The page: its components, then the announcements of the days it shows ...
StartView ==
    /\ view.step \in {"idle", "done"} /\ views < MaxViews /\ views' = views + 1
    /\ view' = [Blank EXCEPT !.step = "list", !.published = published,
                             !.since = now - (WindowDays - 1)]
    /\ UNCHANGED <<now, monitors, announcement, timeline, published, request, requests,
                   edits, failures, closed, overlapped, silent>>

\* ... from the newest, no more than a page of them ...
Newer(a, b) ==
    \/ announcement[a].started > announcement[b].started
    \/ announcement[a].started = announcement[b].started /\ a > b
Newest(ids) ==
    [k \in 1..Cardinality(ids) |->
        CHOOSE a \in ids : Cardinality({b \in ids : Newer(b, a)}) = k - 1]
List ==
    /\ view.step = "list"
    /\ LET found == Newest({a \in Announcements :
                        Stored(a) /\ announcement[a].started >= view.since})
           items == IF Len(found) > Limit THEN SubSeq(found, 1, Limit) ELSE found
       IN view' = [view EXCEPT
             !.step = IF items = <<>> THEN "done" ELSE "components",
             !.rows = [i \in DOMAIN items |-> [of |-> items[i], row |-> announcement[items[i]],
                                               read |-> FALSE]]]
    /\ UNCHANGED <<now, monitors, announcement, timeline, published, request, requests,
                   edits, failures, views, closed, overlapped, silent>>

\* ... then the components of each ...
ListComponents ==
    LET unread == {i \in DOMAIN view.rows : ~view.rows[i].read}
        i == Min(unread)
        a == view.rows[i].of
    IN
    /\ view.step = "components"
    /\ view' = [view EXCEPT
          !.step = IF unread = {i} THEN "updates" ELSE @,
          !.rows[i].read = TRUE,
          !.rows[i].row.components = IF Stored(a) THEN announcement[a].components ELSE {}]
    /\ UNCHANGED <<now, monitors, announcement, timeline, published, request, requests,
                   edits, failures, views, closed, overlapped, silent>>

\* ... and the entries of each that is for this page.
Show ==
    LET first == Head(view.rows) IN
    /\ view.step = "updates"
    /\ view' = [view EXCEPT
          !.step = IF Tail(view.rows) = <<>> THEN "done" ELSE @,
          !.rows = Tail(@),
          !.shown = IF ShowsOn(first.row, view.published)
                      THEN @ \cup {[of |-> first.of, phase |-> first.row.phase,
                                    resolved |-> first.row.resolved,
                                    entries |-> timeline[first.of]]}
                      ELSE @]
    /\ UNCHANGED <<now, monitors, announcement, timeline, published, request, requests,
                   edits, failures, views, closed, overlapped, silent>>

\* What is for the page being read, with the monitors it publishes as they
\* were read.
ForPage ==
    {a \in Announcements : Stored(a) /\
        (announcement[a].global \/ \E m \in announcement[a].components : m \in view.published)}

Watched ==
    IF view'.step = "idle" THEN could' = {} /\ always' = {}
    ELSE IF view'.step = "list" /\ view.step # "list" THEN could' = ForPage' /\ always' = could'
    ELSE IF view'.step = "done" THEN UNCHANGED <<could, always>>
    ELSE /\ could' = could \cup ForPage'
         /\ always' = {a \in always \cap ForPage' : announcement'[a] = announcement[a]}

Next ==
    /\ \/ \E c \in Clients, b \in Bodies, says \in BOOLEAN : Create(c, b, says)
       \/ \E c \in Clients, a \in Announcements, b \in Bodies, kind \in {"edit", "publish"} :
             ReadRow(c, a, kind, b)
       \/ \E c \in Clients : ReadComponents(c) \/ AddUpdate(c) \/ Write(c) \/ Fail(c)
       \/ \E a \in Announcements : Delete(a)
       \/ \E m \in Monitors : DeleteMonitor(m) \/ Publish(m)
       \/ Tick
       \/ StartView \/ List \/ ListComponents \/ Show
    /\ Watched

Spec == Init /\ [][Next]_vars
-----------------------------------------------------------------------------
TypeOK ==
    /\ now \in 0..MaxTime /\ published \subseteq monitors /\ monitors \subseteq Monitors
    /\ \A a \in Announcements : Stored(a) =>
          /\ announcement[a].phase \in Phases /\ announcement[a].global \in BOOLEAN
          /\ announcement[a].components \subseteq monitors
          /\ announcement[a].started \in 0..MaxTime
          /\ announcement[a].resolved \in 0..MaxTime \cup {None}
    /\ \A c \in Clients : request[c].step \in {"idle", "components", "entry", "write"}
    /\ view.step \in {"idle", "list", "components", "updates", "done"}
    /\ requests \in 0..MaxRequests /\ edits \in 0..MaxEdits /\ views \in 0..MaxViews

\* What is stored, and what is shown, has an hour of resolution exactly when
\* it is resolved (statuspage_handlers.go, resolvedStamp).
StampFollowsPhase ==
    /\ \A a \in Announcements : Stored(a) =>
          (announcement[a].phase = Resolved <=> announcement[a].resolved # None)
    /\ \A s \in view.shown : s.phase = Resolved <=> s.resolved # None

\* The hour is of the request that resolved it, until one that opens it again,
\* if no two requests about it overlapped.
StampKept ==
    \A a \in Announcements :
        Stored(a) /\ ~overlapped[a] => announcement[a].resolved = closed[a]

\* The phase is that of the last entry, if no two requests overlapped, none
\* failed half way and no edit changed it (handlePublishUpdate).
PhaseFollowsTimeline ==
    \A a \in Announcements :
        Stored(a) /\ ~overlapped[a] /\ ~silent[a] /\ InCourse(a) = {} /\ timeline[a] # <<>> =>
            announcement[a].phase = LastEntry(timeline[a]).phase

\* A page shows what was for it at some instant of its reading, and all that
\* was for it throughout, was not written and is not too old or after a page
\* of others (domain/announcement.go, ShowsOn; an announcement whose monitors are all
\* deleted is nowhere).
ShownIsForPage ==
    /\ \A s \in view.shown : s.of \in could
    /\ view.step = "done" =>
          \A a \in {x \in always : Stored(x)} :
              \/ a \in {s.of : s \in view.shown}
              \/ announcement[a].started < view.since
              \/ Cardinality({x \in Announcements : x > a /\ announcement[x] # None}) >= Limit

AnnouncementsSound ==
    /\ StampFollowsPhase /\ StampKept /\ PhaseFollowsTimeline /\ ShownIsForPage
=============================================================================
