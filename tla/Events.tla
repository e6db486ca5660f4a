------------------------------- MODULE Events -------------------------------
(***************************************************************************)
(* The stream of events of the interface (internal/api/events.go): the hub *)
(* that drops rather than blocks, and the handler of one stream, which     *)
(* cuts each event to what the account reaches, with a scope read a while  *)
(* ago.  Monitors move between groups, the account loses and gains groups, *)
(* its session ends, the database fails.  Ages stop growing at Horizon.    *)
(***************************************************************************)
EXTENDS Naturals, Sequences

CONSTANTS
    Monitors, Groups,
    Gone,           \* the place of a deleted monitor
    EventBuffer,    \* eventBuffer
    ScopeTTL,       \* scopeCacheTTL
    Recheck,        \* eventsRecheckInterval
    MaxDelay,       \* bound: how late the handler is to what is due
    MaxEvents       \* bound: the number of changes of the monitors

VARIABLES
    place,      \* the group of each monitor
    granted,    \* the groups of the account's scope
    lost,       \* how long ago each group was last granted
    session,    \* the credential: good, ended, or its account deleted
    ended,      \* how long ago it ended
    stream,     \* handleEvents: its step, scope, stamps, channel
    screen,     \* the monitors the client shows
    missed,     \* ghost: the client lost an event, or its scope changed
    late,       \* ghost: an event of a group lost too long ago went out
    blind,      \* ghost: the recheck failed after the session ended
    changes

vars == <<place, granted, lost, session, ended, stream, screen, missed, late, blind, changes>>
world == <<place, granted, lost, session, ended, changes>>

Horizon == ScopeTTL + Recheck + 2 * MaxDelay + 1
Ages == 0..Horizon
Event == [monitor: Monitors, now: Groups \cup {Gone}, was: Groups \cup {Gone}]
Closed == [step |-> "closed", scope |-> {}, resolved |-> 0, rechecked |-> 0, waits |-> 0,
           channel |-> <<>>]

TypeOK ==
    /\ place \in [Monitors -> Groups \cup {Gone}]
    /\ granted \subseteq Groups /\ lost \in [Groups -> Ages]
    /\ session \in {"good", "ended", "deleted"} /\ ended \in Ages
    /\ stream.step \in {"closed", "subscribe", "run", "resolve"}
    /\ stream.scope \subseteq Groups
    /\ {stream.resolved, stream.rechecked, stream.waits} \subseteq Ages
    /\ stream.channel \in Seq(Event) /\ Len(stream.channel) <= EventBuffer
    /\ screen \subseteq Monitors
    /\ {missed, late, blind} \subseteq BOOLEAN

Init ==
    /\ place = [m \in Monitors |-> CHOOSE g \in Groups : TRUE]
    /\ granted = {CHOOSE g \in Groups : TRUE}
    /\ lost = [g \in Groups |-> IF g \in granted THEN 0 ELSE Horizon]
    /\ session = "good" /\ ended = 0
    /\ stream = Closed /\ screen = {}
    /\ missed = FALSE /\ late = FALSE /\ blind = FALSE
    /\ changes = 0

-----------------------------------------------------------------------------
(***************************************************************************)
(* What changes around the stream.                                         *)
(***************************************************************************)
Older(age) == IF age < Horizon THEN age + 1 ELSE age

\* The handler reads, and answers a timer, within MaxDelay.
Tick ==
    /\ stream.step \in {"subscribe", "resolve"} => stream.waits < MaxDelay
    /\ stream.step # "closed" => stream.rechecked < Recheck + MaxDelay
    /\ lost' = [g \in Groups |-> IF g \in granted THEN 0 ELSE Older(lost[g])]
    /\ ended' = IF session = "good" THEN 0 ELSE Older(ended)
    /\ stream' = IF stream.step = "closed" THEN stream
                 ELSE [stream EXCEPT !.resolved = Older(@), !.rechecked = Older(@),
                                     !.waits = IF stream.step = "run" THEN 0 ELSE Older(@)]
    /\ UNCHANGED <<place, granted, session, screen, missed, late, blind, changes>>

Grant(groups) ==
    /\ groups # granted /\ changes < MaxEvents
    /\ granted' = groups /\ changes' = changes + 1
    /\ lost' = [g \in Groups |-> IF g \in groups \/ g \in granted THEN 0 ELSE lost[g]]
    /\ missed' = TRUE
    /\ UNCHANGED <<place, session, ended, stream, screen, late, blind>>

EndSession(how) ==
    /\ session = "good" /\ session' = how
    /\ UNCHANGED <<place, granted, lost, ended, stream, screen, missed, late, blind, changes>>

\* publish: the event goes into the channel, or is lost if that is full.
\* A new monitor has no past, a deleted one no present.
Publish(m, to) ==
    /\ changes < MaxEvents /\ to # place[m]
    /\ place' = [place EXCEPT ![m] = to] /\ changes' = changes + 1
    /\ IF stream.step \in {"run", "resolve"} /\ Len(stream.channel) < EventBuffer
         THEN /\ stream' = [stream EXCEPT !.channel =
                              Append(@, [monitor |-> m, now |-> to, was |-> place[m]])]
              /\ UNCHANGED missed
         ELSE missed' = TRUE /\ UNCHANGED stream
    /\ UNCHANGED <<granted, lost, session, ended, screen, late, blind>>

-----------------------------------------------------------------------------
(***************************************************************************)
(* The handler.                                                            *)
(***************************************************************************)
\* The middleware reads the account and its scope ...
Connect ==
    /\ stream.step = "closed" /\ session = "good"
    /\ stream' = [Closed EXCEPT !.step = "subscribe", !.scope = granted]
    /\ screen' = {m \in Monitors : place[m] \in granted}
    /\ missed' = FALSE
    /\ UNCHANGED <<world, late, blind>>

\* ... and the handler subscribes and stamps it with its own start.  The
\* client loads its lists once the stream is open.
Subscribe ==
    /\ stream.step = "subscribe"
    /\ stream' = [stream EXCEPT !.step = "run", !.resolved = 0, !.rechecked = 0, !.waits = 0]
    /\ screen' = {m \in Monitors : place[m] \in granted}
    /\ missed' = (granted # stream.scope)
    /\ UNCHANGED <<world, late, blind>>

\* The timer of the recheck.  A failing database closes nothing.
RecheckDue(fails) ==
    /\ stream.step = "run" /\ stream.rechecked >= Recheck
    /\ stream' = IF fails THEN [stream EXCEPT !.rechecked = 0]
                 ELSE IF session # "good" THEN Closed
                 ELSE [stream EXCEPT !.rechecked = 0, !.resolved = 0, !.scope = granted]
    /\ blind' = (blind \/ (fails /\ session # "good"))
    /\ UNCHANGED <<world, screen, missed, late>>

\* Mutant of Stale: the scope read at the start serves the whole stream.
StaleNever == FALSE

Stale == stream.resolved >= ScopeTTL

\* An event is waiting and the scope is old: it is read again, and a deleted
\* account ends the stream ...
Resolve ==
    /\ stream.step = "run" /\ stream.channel # <<>> /\ Stale
    /\ stream' = IF session = "deleted" THEN Closed
                 ELSE [stream EXCEPT !.step = "resolve", !.scope = granted, !.waits = 0]
    /\ UNCHANGED <<world, screen, missed, late, blind>>

\* Mutant of VisibleTo: who loses sight of a monitor is not told.
VisibleByPlace(e, scope) == IF e.now \in scope THEN "shown" ELSE "nothing"

\* What the account receives of an event.
VisibleTo(e, scope) ==
    IF e.now \in scope THEN "shown" ELSE IF e.was \in scope THEN "deleted" ELSE "nothing"

Deliver(e, scope) ==
    /\ screen' = CASE VisibleTo(e, scope) = "shown"   -> screen \cup {e.monitor}
                   [] VisibleTo(e, scope) = "deleted" -> screen \ {e.monitor}
                   [] OTHER                           -> screen
    /\ late' = (late \/ (VisibleTo(e, scope) = "shown" /\ lost[e.now] > ScopeTTL + MaxDelay))

\* ... and stamped when the answer is there.
DeliverResolved ==
    /\ stream.step = "resolve"
    /\ Deliver(Head(stream.channel), stream.scope)
    /\ stream' = [stream EXCEPT !.step = "run", !.resolved = 0, !.waits = 0, !.channel = Tail(@)]
    /\ UNCHANGED <<world, missed, blind>>

DeliverNow ==
    /\ stream.step = "run" /\ stream.channel # <<>> /\ ~ Stale
    /\ Deliver(Head(stream.channel), stream.scope)
    /\ stream' = [stream EXCEPT !.channel = Tail(@)]
    /\ UNCHANGED <<world, missed, blind>>

\* The database does not answer: the old scope serves once more.
DeliverBlind ==
    /\ stream.step = "run" /\ stream.channel # <<>> /\ Stale
    /\ Deliver(Head(stream.channel), stream.scope)
    /\ stream' = [stream EXCEPT !.channel = Tail(@)]
    /\ late' = late
    /\ UNCHANGED <<world, missed, blind>>

\* The client goes, or a write to it fails: unsubscribe.
Disconnect ==
    /\ stream.step = "run" /\ stream' = Closed
    /\ UNCHANGED <<world, screen, missed, late, blind>>

Next ==
    \/ Tick
    \/ \E how \in {"ended", "deleted"} : EndSession(how)
    \/ \E groups \in SUBSET Groups : Grant(groups)
    \/ \E m \in Monitors, to \in Groups \cup {Gone} : Publish(m, to)
    \/ Connect \/ Subscribe \/ Resolve \/ DeliverResolved \/ DeliverNow \/ DeliverBlind
    \/ Disconnect
    \/ \E fails \in BOOLEAN : RecheckDue(fails)

Spec == Init /\ [][Next]_vars

-----------------------------------------------------------------------------
\* A group taken from the account stops showing on an open stream within the
\* lifetime of the scope, if the database answers (events.go, scopeCacheTTL).
ScopeCatchesUp == ~ late

\* A stream does not outlive its session by more than the interval of the
\* recheck (events.go, eventsRecheckInterval).
StreamEndsWithSession ==
    session # "good" /\ ended > Recheck + 2 * MaxDelay /\ ~ blind => stream.step \in {"closed", "subscribe"}

\* A client that received everything shows no monitor that moved out of its
\* reach or was deleted (events.go, visibleTo).
ScreenIsVisible ==
    stream.step = "run" /\ stream.channel = <<>> /\ ~ missed =>
        screen = {m \in Monitors : place[m] \in stream.scope}

StreamSound == ScopeCatchesUp /\ StreamEndsWithSession /\ ScreenIsVisible
=============================================================================
