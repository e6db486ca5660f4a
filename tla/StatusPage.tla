----------------------------- MODULE StatusPage -----------------------------
(***************************************************************************)
(* The public pages: the requests that write them                          *)
(* (internal/api/statuspage_handlers.go, sqlstore/statuspage.go) and the   *)
(* building of one for a visitor (internal/statuspage, internal/api/       *)
(* public_handlers.go), a query at a time while the others write.  What a  *)
(* page says of a monitor by itself is in Summary, of announcements in     *)
(* Announcements, of maintenance in Calendar.                              *)
(***************************************************************************)
EXTENDS Integers, Sequences, FiniteSets, SequencesExt

CONSTANTS
    None, Gone,
    Loose,          \* a component that is in no group
    Pages, Groups, Monitors, Slugs,
    PageOf,         \* the page each group is created in
    StatusOf,       \* what the buckets say of each monitor
    Starts,         \* pages, groups and components to begin with
    MaxEdits, MaxViews

VARIABLES
    page,           \* table status_page: slug and enabled
    default,        \* the pages with is_default = 1
    groups,         \* table status_page_group
    component,      \* table status_page_component: the group of each
    monitors,       \* table monitor
    view,           \* Builder.build, for the visitor of an address
    edits, views,
    promoted,       \* ghost: the page last promoted, while it is there
    changed,        \* ghost: the page was written while it was built
    dropped         \* ghost: a monitor was deleted while it was built

vars == <<page, default, groups, component, monitors, view, edits, views, promoted, changed,
          dropped>>

There(p) == page[p] \notin {None, Gone}
Blank == [step |-> "idle", page |-> None, comps |-> <<>>, groups |-> {}, status |-> <<>>,
          rows |-> {}, overall |-> None, answer |-> None]

Severity(s) == CASE s = "down" -> 4 [] s = "degraded" -> 3 [] s = "up" -> 1 [] OTHER -> 0

\* Worst: two that are as bad are the same; of none there is nothing to say.
Worst(statuses) ==
    IF statuses = <<>> THEN "unknown"
    ELSE statuses[CHOOSE i \in DOMAIN statuses : \A j \in DOMAIN statuses :
                     Severity(statuses[j]) <= Severity(statuses[i])]
-----------------------------------------------------------------------------
Init ==
    /\ \E start \in Starts :
         /\ page = start.page /\ groups = start.groups /\ component = start.component
         /\ default \in {{}} \cup {{p} : p \in {q \in Pages : There(q)}}
    /\ monitors = Monitors
    /\ view = Blank /\ edits = 0 /\ views = 0
    /\ promoted = (IF default = {} THEN None ELSE CHOOSE p \in default : TRUE)
    /\ changed = FALSE /\ dropped = FALSE

Building == view.step \notin {"idle", "done"}
Edit ==
    /\ edits < MaxEdits /\ edits' = edits + 1
    /\ changed' = (changed \/ Building)
    /\ UNCHANGED <<view, views>>

\* The index of slugs refuses a second page at an address.
Free(slug, p) == \A q \in Pages \ {p} : There(q) => page[q].slug # slug

Create(p, slug, enabled) ==
    /\ Edit /\ page[p] = None /\ Free(slug, p)
    /\ page' = [page EXCEPT ![p] = [slug |-> slug, enabled |-> enabled]]
    /\ UNCHANGED <<default, groups, component, monitors, promoted, dropped>>

\* handleUpdateStatusPage does not touch the default.
Update(p, slug, enabled) ==
    /\ Edit /\ There(p) /\ Free(slug, p)
    /\ page' = [page EXCEPT ![p] = [slug |-> slug, enabled |-> enabled]]
    /\ UNCHANGED <<default, groups, component, monitors, promoted, dropped>>

\* With its groups and its components; a group that another page's component
\* is in leaves it loose.
Delete(p) ==
    /\ Edit /\ There(p)
    /\ page' = [page EXCEPT ![p] = Gone]
    /\ default' = default \ {p}
    /\ groups' = {g \in groups : PageOf[g] # p}
    /\ component' = [q \in Pages |-> [m \in Monitors |->
          IF q = p THEN None
          ELSE IF component[q][m] \in groups \ groups' THEN Loose ELSE component[q][m]]]
    /\ promoted' = IF promoted = p THEN None ELSE promoted
    /\ UNCHANGED <<monitors, dropped>>

\* Mutant: what the first statement did stays when the second fails.
PromotedHalf(p) == IF There(p) THEN {p} ELSE {}

\* Mutant: the one before is not demoted.
PromotedToo(p) == IF There(p) THEN default \cup {p} ELSE default

\* SetDefault, a transaction: demote, then promote, and nothing if the page is
\* not there.
Promoted(p) == IF There(p) THEN {p} ELSE default
SetDefault(p) ==
    /\ Edit
    /\ default' = Promoted(p)
    /\ promoted' = IF There(p) THEN p ELSE promoted
    /\ UNCHANGED <<page, groups, component, monitors, dropped>>

CreateGroup(g) ==
    /\ Edit /\ g \notin groups /\ There(PageOf[g])
    /\ groups' = groups \cup {g}
    /\ UNCHANGED <<page, default, component, monitors, promoted, dropped>>

\* DeleteGroup: they stay, loose.
DeleteGroup(g) ==
    /\ Edit /\ g \in groups
    /\ groups' = groups \ {g}
    /\ component' = [p \in Pages |-> [m \in Monitors |->
          IF component[p][m] = g THEN Loose ELSE component[p][m]]]
    /\ UNCHANGED <<page, default, monitors, promoted, dropped>>

\* handleSetComponent: the group has to exist, of whatever page.
SetComponent(p, m, g) ==
    /\ Edit /\ There(p) /\ m \in monitors /\ g \in groups \cup {Loose}
    /\ component' = [component EXCEPT ![p][m] = g]
    /\ UNCHANGED <<page, default, groups, monitors, promoted, dropped>>

RemoveComponent(p, m) ==
    /\ Edit /\ component[p][m] # None
    /\ component' = [component EXCEPT ![p][m] = None]
    /\ UNCHANGED <<page, default, groups, monitors, promoted, dropped>>

DeleteMonitor(m) ==
    /\ Edit /\ m \in monitors
    /\ monitors' = monitors \ {m}
    /\ component' = [p \in Pages |-> [component[p] EXCEPT ![m] = None]]
    /\ dropped' = (dropped \/ Building)
    /\ UNCHANGED <<page, default, groups, promoted>>
-----------------------------------------------------------------------------
Builds == UNCHANGED <<page, default, groups, component, monitors, edits, promoted>>
NotFound == [Blank EXCEPT !.step = "done", !.answer = "not found"]

\* Mutant: a page that is off is built.
ServesAny(p) == There(p)

\* No page, one that is off and no default answer alike.
Serves(p) == There(p) /\ page[p].enabled

\* publicView: the page by its address, or the default; a page that is off is
\* as none.
Open(address) ==
    /\ ~Building /\ views < MaxViews /\ views' = views + 1
    /\ LET found == IF address = "default" THEN default
                    ELSE {p \in Pages : There(p) /\ page[p].slug = address}
       IN view' = IF found = {} \/ ~Serves(CHOOSE p \in found : TRUE) THEN NotFound
                  ELSE [Blank EXCEPT !.step = "components", !.page = CHOOSE p \in found : TRUE]
    /\ changed' = FALSE /\ dropped' = FALSE
    /\ Builds

ReadComponents ==
    /\ view.step = "components"
    /\ LET of == component[view.page]
       IN view' = [view EXCEPT !.step = "groups",
             !.comps = SetToSeq({[monitor |-> m, group |-> of[m]] :
                                   m \in {x \in Monitors : of[x] # None}})]
    /\ UNCHANGED <<views, changed, dropped>> /\ Builds

ReadGroups ==
    /\ view.step = "groups"
    /\ view' = [view EXCEPT !.step = IF view.comps = <<>> THEN "assemble" ELSE "monitors",
                            !.groups = {g \in groups : PageOf[g] = view.page}]
    /\ UNCHANGED <<views, changed, dropped>> /\ Builds

\* Each component in turn: the monitor, which may be gone, and its buckets.
ReadMonitor ==
    LET m == view.comps[Len(view.status) + 1].monitor IN
    /\ view.step = "monitors"
    /\ view' = IF m \notin monitors
                 THEN [view EXCEPT !.step = "done", !.answer = "not found"]
               ELSE [view EXCEPT !.status = Append(@, StatusOf[m]),
                        !.step = IF Len(view.status) + 1 = Len(view.comps)
                                   THEN "assemble" ELSE @]
    /\ UNCHANGED <<views, changed, dropped>> /\ Builds

\* assemble and OverallStatus: a row for each component that is loose or in a
\* group of the page; the whole is the worst of all of them.
Assemble ==
    /\ view.step = "assemble"
    /\ view' = [view EXCEPT !.step = "done", !.answer = "page",
          !.rows = {view.comps[i].monitor : i \in
                      {j \in DOMAIN view.comps : view.comps[j].group \in view.groups \cup {Loose}}},
          !.overall = Worst(view.status)]
    /\ UNCHANGED <<views, changed, dropped>> /\ Builds

Next ==
    \/ \E p \in Pages, slug \in Slugs, on \in BOOLEAN : Create(p, slug, on) \/ Update(p, slug, on)
    \/ \E p \in Pages : Delete(p) \/ SetDefault(p)
    \/ \E g \in Groups : CreateGroup(g) \/ DeleteGroup(g)
    \/ \E p \in Pages, m \in Monitors, g \in Groups \cup {Loose} : SetComponent(p, m, g)
    \/ \E p \in Pages, m \in Monitors : RemoveComponent(p, m)
    \/ \E m \in Monitors : DeleteMonitor(m)
    \/ \E address \in Slugs \cup {"default"} : Open(address)
    \/ ReadComponents \/ ReadGroups \/ ReadMonitor \/ Assemble

Spec == Init /\ [][Next]_vars
-----------------------------------------------------------------------------
TypeOK ==
    /\ default \subseteq {p \in Pages : There(p)} /\ groups \subseteq Groups
    /\ \A p \in Pages : There(p) => page[p] \in [slug : Slugs, enabled : BOOLEAN]
    /\ \A p \in Pages, m \in Monitors : component[p][m] \in Groups \cup {None, Loose}
    /\ view.step \in {"idle", "components", "groups", "monitors", "assemble", "done"}
    /\ edits \in 0..MaxEdits /\ views \in 0..MaxViews

\* No request leaves a row that names what is not there.
RowsHaveOwners ==
    \A p \in Pages, m \in Monitors : component[p][m] # None =>
        There(p) /\ m \in monitors /\ component[p][m] \in groups \cup {Loose}

\* At most one page answers at /status: the last promoted, until it is deleted
\* (sqlstore/statuspage.go, SetDefault).
OneDefault == default = IF promoted = None THEN {} ELSE {promoted}

\* A page that is built while nobody writes shows each of its components, but
\* for one that was put in another page's group (statuspage.go, assemble).
ShowsItsComponents ==
    view.answer = "page" /\ ~changed =>
        \A i \in DOMAIN view.comps :
            \/ view.comps[i].monitor \in view.rows
            \/ view.comps[i].group # Loose /\ PageOf[view.comps[i].group] # view.page

\* Whatever is written meanwhile, a row is of a component of the page, and the
\* whole is no better than any of its rows (statuspage.go, build).
WholeCoversRows ==
    view.answer = "page" =>
        \A m \in view.rows :
            /\ \E i \in DOMAIN view.comps : view.comps[i].monitor = m
            /\ Severity(view.overall) >= Severity(StatusOf[m])

\* Only a page that is on is built, and once found it is lost to the visitor
\* only if a monitor of it went meanwhile (public_handlers.go, publicView).
FoundStaysFound ==
    /\ Building /\ ~changed => There(view.page) /\ page[view.page].enabled
    /\ view.answer = "not found" /\ view.page # None => dropped

StatusPageSound ==
    /\ RowsHaveOwners /\ OneDefault /\ ShowsItsComponents /\ WholeCoversRows
    /\ FoundStaysFound
=============================================================================
