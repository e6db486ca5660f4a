---------------------------- MODULE MCServices ----------------------------
(***************************************************************************)
(* Instances, for TLC, of the services around the monitoring core.  They   *)
(* share no state, so a behaviour is one of a single service, the one part *)
(* names, and its variables take the slots s1, s2 ... in the order its     *)
(* module declares them; the slots it does not need stay unused.           *)
(***************************************************************************)
EXTENDS Integers, Sequences, TLC

CONSTANTS None, Absent, Deleted, Gone, Missing, Broken, Loose, m1, m2, m3, g1, g2, g3,
          p1, p2, w1, ana, bob, eva, c1, c2, loop, ui

VARIABLES
    part,       \* the service this behaviour is about
    s1, s2, s3, s4, s5, s6, s7, s8, s9, s10, s11, s12, s13, s14, s15, s16, s17

vars == <<part, s1, s2, s3, s4, s5, s6, s7, s8, s9, s10, s11, s12, s13, s14,
          s15, s16, s17>>

Log == INSTANCE ConfirmationLog WITH
    Thresholds <- {0, 1, 2, 3}, MaxObservations <- 6,
    threshold <- s1, state <- s2, observations <- s3, measured <- s4, announced <- s5

\* A child in a group under another, silenced while its parent is down, with
\* the intervals one edit may give the group or the child.
Rem == INSTANCE Reminders WITH
    Monitors <- {m1, m2}, Groups <- {g1, g2}, People <- {ana},
    Parent <- (m1 :> None @@ m2 :> m1), GroupOf <- (m1 :> None @@ m2 :> g1),
    GroupParent <- (g1 :> g2 @@ g2 :> g1),
    Edits <- {[what |-> "pause", of |-> m1, every |-> None],
              [what |-> "window", of |-> m2, every |-> None],
              [what |-> "interval", of |-> g2, every |-> 0]},
    DefaultInterval <- 1, PageSize <- 1, MaxTime <- 2, MaxIncidents <- 2,
    MaxChanges <- 2, MaxEdits <- 1, MaxFailures <- 0,
    clock <- s1, confirmed <- s2, watched <- s3, covered <- s4, interval <- s5,
    ledger <- s6, incident <- s7, loop <- s8, request <- s9, answered <- s10,
    marks <- s11, ackedAt <- s12, sent <- s13, changes <- s14, edits <- s15,
    failures <- s16

\* Two people who take the outages of one monitor.
Ack == INSTANCE Reminders WITH
    Monitors <- {m1}, Groups <- {g1}, People <- {ana, bob},
    Parent <- (m1 :> None), GroupOf <- (m1 :> None), GroupParent <- (g1 :> None),
    Edits <- {},
    DefaultInterval <- 1, PageSize <- 1, MaxTime <- 1, MaxIncidents <- 2,
    MaxChanges <- 3, MaxEdits <- 0, MaxFailures <- 1,
    clock <- s1, confirmed <- s2, watched <- s3, covered <- s4, interval <- s5,
    ledger <- s6, incident <- s7, loop <- s8, request <- s9, answered <- s10,
    marks <- s11, ackedAt <- s12, sent <- s13, changes <- s14, edits <- s15,
    failures <- s16

Hist == INSTANCE Rollup WITH
    Monitors <- {m1}, Hour <- 1, Day <- 2, Raw <- 3, Hourly <- 3, Daily <- 4,
    MaxDelay <- 1, MaxCycle <- 1, MaxTime <- 6, MaxBeats <- 2, MaxFailures <- 1,
    now <- s1, waiting <- s2, heartbeat <- s3, rollup <- s4, watermark <- s5,
    worker <- s6, taken <- s7, summed <- s8, uncounted <- s9, failed <- s10

\* The same with a raw retention shorter than a day.
Brief == INSTANCE Rollup WITH
    Monitors <- {m1}, Hour <- 1, Day <- 2, Raw <- 1, Hourly <- 2, Daily <- 4,
    MaxDelay <- 1, MaxCycle <- 1, MaxTime <- 5, MaxBeats <- 2, MaxFailures <- 1,
    now <- s1, waiting <- s2, heartbeat <- s3, rollup <- s4, watermark <- s5,
    worker <- s6, taken <- s7, summed <- s8, uncounted <- s9, failed <- s10

\* Buckets of up to two heartbeats, and one so full that its ranks are not
\* all the last; and what is said of three buckets together.
Full == [i \in 1..20 |-> [status |-> IF i % 7 = 0 THEN "down" ELSE "up",
                          latency |-> i \div 3 + 1, ts |-> i % 2]]
        \o [i \in 1..3 |-> [status |-> "up", latency |-> 7 + i, ts |-> 0]]
Agg == INSTANCE Summary WITH
    Latencies <- {0, 3, 5}, BucketEnd <- 3, Starts <- {<<>>, Full},
    MaxSamples <- {2, 24},
    samples <- s1

\* A file written twice and one measurement, or once and two.
Prb == INSTANCE Probe WITH
    Names <- {m1}, Reloaders <- {loop, ui}, Files <- {m1 :> "v1", m1 :> "v2"},
    Attempts <- 2, MaxEdits <- 2, MaxMeasures <- 1,
    file <- s1, lastSeen <- s2, cfg <- s3, mu <- s4, reload <- s5, worker <- s6,
    status <- s7, measured <- s8, tried <- s9, received <- s10, disorder <- s11,
    edits <- s12

Prx == INSTANCE Probe WITH
    Names <- {m1}, Reloaders <- {loop, ui}, Files <- {m1 :> "v1", m1 :> "v2"},
    Attempts <- 2, MaxEdits <- 1, MaxMeasures <- 2,
    file <- s1, lastSeen <- s2, cfg <- s3, mu <- s4, reload <- s5, worker <- s6,
    status <- s7, measured <- s8, tried <- s9, received <- s10, disorder <- s11,
    edits <- s12

\* What is asked of the probe's file: a check with a limit that is too long
\* and one to an address without TLS; and what an editor leaves of it, with a
\* token that is too short.
Asks == {[every |-> 4, limit |-> 4, plain |-> FALSE], [every |-> 2, limit |-> 0, plain |-> TRUE]}
Hand == [checks |-> m1 :> [every |-> 4, limit |-> 0, plain |-> TRUE],
         beat |-> None, http |-> TRUE, token |-> 0]
Pfl == INSTANCE ProbeFile WITH
    Refused <- Broken, Names <- {m1}, Checks <- Asks, Commands <- {c1, c2}, Uis <- {ui},
    Beats <- {[every |-> 0, plain |-> TRUE]}, Edits <- {None, Broken, Hand},
    Attempts <- 2, MaxUpdates <- 2, MaxEdits <- 1,
    file <- s1, proc <- s2, held <- s3, drawn <- s4, updates <- s5, edits <- s6,
    promised <- s7, raced <- s8, issued <- s9, turned <- s10

Sen == INSTANCE Sentinel WITH
    Askers <- {c1, c2}, Count <- 2, CacheTTL <- 1, Timeout <- 1, Patience <- 1,
    reachable <- s1, away <- s2, cached <- s3, proven <- s4, asker <- s5,
    everReached <- s6, cut <- s7

Evt == INSTANCE Events WITH
    Monitors <- {m1}, Groups <- {g1}, EventBuffer <- 2, ScopeTTL <- 1,
    Recheck <- 2, MaxDelay <- 1, MaxEvents <- 3,
    place <- s1, granted <- s2, lost <- s3, session <- s4, ended <- s5, stream <- s6,
    screen <- s7, missed <- s8, late <- s9, blind <- s10, changes <- s11

Top == INSTANCE Topology WITH
    Monitors <- {m1, m2, m3}, Groups <- {g1, g2, g3}, Clients <- {c1, c2},
    Known <- {m1, m2, g1, g2}, MaxRequests <- 2,
    Bodies <- {[group |-> g1, parent |-> None, on |-> TRUE],
               [group |-> None, parent |-> m1, on |-> FALSE],
               [group |-> g2, parent |-> m2, on |-> TRUE]},
    Batches <- {{m1, m2}, {m3}},
    group <- s1, monitor <- s2, running <- s3, request <- s4, requests <- s5,
    overlapped <- s6

Acc == INSTANCE Accounts WITH
    Accounts <- {m1, m2}, Clients <- {c1, c2}, MaxLoginAttempts <- 2,
    LockoutWindow <- 2, SessionTTL <- 1, Patience <- 1, MaxTime <- 2, MaxRequests <- 4,
    account <- s1, sessions <- s2, failures <- s3, writer <- s4, request <- s5,
    requests <- s6, now <- s7, granted <- s8, chosen <- s9, administered <- s10,
    earned <- s11

\* Administrators, one of everything and one perhaps of a group; requests that
\* overlap, and one at a time with a decree.
Every == [all |-> TRUE, groups |-> {}]
Only(gs) == [all |-> FALSE, groups |-> gs]
Sco == INSTANCE Scopes WITH
    Groups <- {g1, g2, g3}, Monitors <- {m1}, Accounts <- {ana, bob, eva},
    Names <- {"one", "two"}, Clients <- {c1, c2}, Known <- {g1, g2, m1, ana, bob},
    Named <- (g1 :> "one" @@ g2 :> "two" @@ g3 :> "one"),
    Asked <- {Every, Only({g1}), Only({g2})},
    MaxRequests <- 2, MaxDecrees <- 0,
    group <- s1, name <- s2, place <- s3, account <- s4, request <- s5, requests <- s6,
    decrees <- s7, owned <- s8, law <- s9, told <- s10

Dec == INSTANCE Scopes WITH
    Groups <- {g1, g2, g3}, Monitors <- {m1, m2}, Accounts <- {ana, bob},
    Names <- {"one", "two"}, Clients <- {c1}, Known <- {g1, g2, m1, ana, bob},
    Named <- (g1 :> "one" @@ g2 :> "two" @@ g3 :> "one"),
    Asked <- {Every, Only({g1}), Only({g2})},
    MaxRequests <- 1, MaxDecrees <- 1,
    group <- s1, name <- s2, place <- s3, account <- s4, request <- s5, requests <- s6,
    decrees <- s7, owned <- s8, law <- s9, told <- s10

\* Three monitors, in an environment, in a group of its own and in none, with
\* any parents and states; then a few of these while requests read them.
Mon(g, p, on) == [group |-> g, parent |-> p, on |-> on]
Tables == {[monitor |-> <<Mon(g2, p[1], on[1]), Mon(g3, p[2], on[2]), Mon(None, p[3], on[3])>>,
            status |-> s, beat |-> "silent"] :
             p \in [1..3 -> {None, 1, 2, 3}], on \in [1..3 -> BOOLEAN],
             s \in {"up", "down"} \X {"up", "down", "degraded"}
                   \X {"up", "down", "degraded", "unknown"}}
Pan == INSTANCE Panel WITH
    Ids <- 1..3, Over <- (g1 :> None @@ g2 :> g1 @@ g3 :> None),
    Viewers <- {[all |-> TRUE, reach |-> {}], [all |-> FALSE, reach |-> {g1, g2}]},
    Starts <- Tables, Rows <- {}, PageSize <- 2, MaxRequests <- 0, MaxChanges <- 0,
    monitor <- s1, status <- s2, beat <- s3, incident <- s4, request <- s5,
    requests <- s6, changes <- s7, steady <- s8, due <- s9

Par == INSTANCE Panel WITH
    Ids <- 1..3, Over <- (g1 :> None @@ g2 :> g1 @@ g3 :> None),
    Viewers <- {[all |-> TRUE, reach |-> {}], [all |-> FALSE, reach |-> {g1, g2}]},
    Starts <- {[monitor |-> <<Mon(g2, 3, TRUE), Mon(g2, p, TRUE), Mon(None, None, TRUE)>>,
                status |-> <<"down", "down", s>>, beat |-> b] :
                 p \in {None, 1}, s \in {"up", "down"}, b \in {"silent", "told"}},
    Rows <- {Mon(g3, None, TRUE), Mon(g2, 3, FALSE)},
    PageSize <- 1, MaxRequests <- 1, MaxChanges <- 1,
    monitor <- s1, status <- s2, beat <- s3, incident <- s4, request <- s5,
    requests <- s6, changes <- s7, steady <- s8, due <- s9

\* Two that read one e-mail, by servers that encrypt or not, and the others.
Letter(security, user, to) ==
    [kind |-> "email", host |-> TRUE, security |-> security, user |-> user, to |-> to]
Hook(kind, url, tmpl) ==
    [kind |-> kind, url |-> url, topic |-> "long", token |-> kind = "ntfy", body |-> FALSE,
     tmpl |-> tmpl]
Dlv == INSTANCE Delivery WITH
    Configs <- {Letter(sec, user, <<"a", "b">>) : sec \in {"starttls", "tls", "none"},
                                                 user \in BOOLEAN}
               \cup {Letter("tls", FALSE, <<"a", ">b">>)}
               \cup {Hook(kind, url, tmpl) : kind \in {"webhook", "slack", "discord", "teams", "ntfy"},
                        url \in {"http", "https"}, tmpl \in {"none", "config", "late", "mention"}}
               \cup {[Hook("ntfy", url, "none") EXCEPT !.topic = topic] :
                        url \in {"blank", "local"}, topic \in {"short", "odd", "long"}},
    Unsafe <- {">b"}, Codes <- {204, 302, 304, 307, 403, 408, 429, 502},
    Events <- {[mention |-> b, late |-> b] : b \in BOOLEAN},
    MaxAttempts <- 2, MaxAlerts <- 1,
    channel <- s1, event <- s2, talk <- s3, tries <- s4, result <- s5, alerts <- s6,
    got <- s7, lost <- s8, heard <- s9, clear <- s10, told <- s11, pinged <- s12

\* Several events in one millisecond, of two origins.
Log1 == {[at |-> 1, id |-> 1]}
Log2 == {[at |-> 1, id |-> 1], [at |-> 2, id |-> 2]}
Log3 == {[at |-> 2, id |-> 1], [at |-> 2, id |-> 2]}
Heart(t, o, f) == [at |-> t, origin |-> o, failed |-> f]
Tml == INSTANCE Timeline WITH
    Times <- 1..3, Origins <- {1, 2}, Limits <- {1, 2},
    Starts <- {[changes |-> log, beats |-> set, outages |-> 1..3] : log \in {Log1, Log2, Log3},
                 set \in {{Heart(1, 1, f), Heart(2, 1, TRUE), Heart(2, 2, TRUE)} : f \in BOOLEAN}},
    MaxWrites <- 1, MaxPages <- 5,
    changes <- s1, beats <- s2, outages <- s3, reader <- s4, writes <- s5, pages <- s6,
    steady <- s7, found <- s8

\* A burst of two tokens and a half, two instants to a token, three to a second.
Rat == INSTANCE RateLimit WITH
    Origins <- {c1, c2}, Burst <- 5, Refill <- 1, One <- 2, Second <- 3,
    MaxTracked <- 1, MaxTime <- 5, MaxRequests <- 5,
    now <- s1, requests <- s2, buckets <- s3, granted <- s4, told <- s5, misjudged <- s6

\* A zone without a change of offset and one whose clock goes back by two at
\* the third instant; a monitor without a schedule and one with a daily run.
Flat == [t \in 0..6 |-> 0]
Psh == INSTANCE Push WITH
    Plans <- {<<Flat, None>>, <<[t \in 0..6 |-> IF t < 3 THEN 0 ELSE -2], {2}>>},
    Interval <- 1, Grace <- 0, MinScheduleGrace <- 2, MaxDelay <- 1, MaxTime <- 4,
    MaxSignals <- 2, MaxEdits <- 1, MaxFailures <- 1,
    zone <- s1, schedule <- s2, clock <- s3, sending <- s4, signals <- s5, row <- s6,
    evaluated <- s7, settings <- s8, due <- s9, check <- s10, last <- s11,
    counted <- s12, twice <- s13, early <- s14, aged <- s15, edits <- s16,
    failures <- s17

\* A child of a monitor whose group may move under another, and a window on
\* either.
Calm == [t \in 0..4 |-> 0]
Cal == INSTANCE Calendar WITH
    Monitors <- {m1, m2}, Groups <- {g1, g2}, Windows <- {w1}, Clients <- {c1},
    Parent <- (m1 :> None @@ m2 :> m1), GroupOf <- (m1 :> g1 @@ m2 :> None),
    Zones <- {Calm},
    Bodies <- {[start |-> 0, ends |-> 3, every |-> 0, target |-> {m2}],
               [start |-> 2, ends |-> 4, every |-> 0, target |-> {g2}]},
    Trees <- {(g1 :> None @@ g2 :> None), (g1 :> g2 @@ g2 :> None)},
    Day <- 4, MaxDuration <- 6, Refresh <- 1, MaxDelay <- 0, MaxTime <- 4,
    MaxEdits <- 2, MaxFailures <- 0,
    zone <- s1, now <- s2, window <- s3, target <- s4, above <- s5, calendar <- s6,
    reload <- s7, due <- s8, age <- s9, overlapped <- s10, ends <- s11, edits <- s12,
    failures <- s13

\* One window, once or every day or two, in zones that do not change offset,
\* skip an hour or repeat one.
Turning == [t \in 0..11 |-> IF t < 6 THEN -3 ELSE -2]
Rec == INSTANCE Calendar WITH
    Monitors <- {m1}, Groups <- {g1}, Windows <- {w1}, Clients <- {c1},
    Parent <- (m1 :> None), GroupOf <- (m1 :> None),
    Zones <- {[t \in 0..11 |-> IF t < 6 THEN 0 ELSE after] : after \in -1..1}
             \cup {Turning},
    Bodies <- [start : {0, 3}, ends : {1, 8}, every : 0..2, target : {{m1}}],
    Trees <- {(g1 :> None)},
    Day <- 4, MaxDuration <- 6, Refresh <- 20, MaxDelay <- 0, MaxTime <- 11,
    MaxEdits <- 1, MaxFailures <- 1,
    zone <- s1, now <- s2, window <- s3, target <- s4, above <- s5, calendar <- s6,
    reload <- s7, due <- s8, age <- s9, overlapped <- s10, ends <- s11, edits <- s12,
    failures <- s13

\* Two people who write one announcement, and a page that is read while one
\* of them writes.
Ann == INSTANCE Announcements WITH
    Announcements <- {1}, Monitors <- {m1}, Clients <- {c1, c2},
    Phases <- {"investigating", "resolved"},
    Bodies <- [phase : {"investigating", "resolved"}, global : {FALSE}, components : {{m1}}],
    WindowDays <- 2, Limit <- 1, MaxTime <- 1, MaxRequests <- 3, MaxEdits <- 1,
    MaxFailures <- 1, MaxViews <- 0,
    now <- s1, monitors <- s2, announcement <- s3, timeline <- s4, published <- s5,
    request <- s6, view <- s7, requests <- s8, edits <- s9, failures <- s10,
    views <- s11, closed <- s12, overlapped <- s13, silent <- s14, could <- s15,
    always <- s16

Anp == INSTANCE Announcements WITH
    Announcements <- {1, 2}, Monitors <- {m1, m2}, Clients <- {c1},
    Phases <- {"investigating", "resolved"},
    Bodies <- {[phase |-> "investigating", global |-> FALSE, components |-> {m1}],
               [phase |-> "resolved", global |-> TRUE, components |-> {m2}]},
    WindowDays <- 1, Limit <- 1, MaxTime <- 1, MaxRequests <- 2, MaxEdits <- 1,
    MaxFailures <- 0, MaxViews <- 1,
    now <- s1, monitors <- s2, announcement <- s3, timeline <- s4, published <- s5,
    request <- s6, view <- s7, requests <- s8, edits <- s9, failures <- s10,
    views <- s11, closed <- s12, overlapped <- s13, silent <- s14, could <- s15,
    always <- s16

\* A page with a group, or two of which one has a component in the group of
\* the other.
Empty == m1 :> None @@ m2 :> None
Pub == INSTANCE StatusPage WITH
    Pages <- {p1, p2}, Groups <- {g1, g2}, Monitors <- {m1, m2}, Slugs <- {"a", "b"},
    PageOf <- (g1 :> p1 @@ g2 :> p2), StatusOf <- (m1 :> "up" @@ m2 :> "down"),
    Starts <- {[page |-> (p1 :> [slug |-> "a", enabled |-> TRUE] @@ p2 :> None),
                groups |-> {g1},
                component |-> (p1 :> (m1 :> Loose @@ m2 :> g1) @@ p2 :> Empty)],
               [page |-> (p1 :> [slug |-> "a", enabled |-> TRUE]
                          @@ p2 :> [slug |-> "b", enabled |-> FALSE]),
                groups |-> {g1, g2},
                component |-> (p1 :> (m1 :> g2 @@ m2 :> g1)
                               @@ p2 :> [Empty EXCEPT ![m1] = g2])]},
    MaxEdits <- 2, MaxViews <- 1,
    page <- s1, default <- s2, groups <- s3, component <- s4, monitors <- s5,
    view <- s6, edits <- s7, views <- s8, promoted <- s9, changed <- s10, dropped <- s11

\* One channel, to be tied to a monitor, its group or the group over it; edits
\* of it that say more or less of its credential.
Cha == INSTANCE Channels WITH
    Channels <- {w1}, Monitors <- {m1}, Groups <- {g1, g2}, Clients <- {c1, c2},
    Bodies <- {[kind |-> "webhook", host |-> "a", secret |-> "s", plain |-> FALSE, enabled |-> TRUE],
               [kind |-> "webhook", host |-> "b", secret |-> "masked", plain |-> FALSE, enabled |-> TRUE],
               [kind |-> "webhook", host |-> "omitted", secret |-> "masked", plain |-> FALSE,
                enabled |-> FALSE],
               [kind |-> "email", host |-> "a", secret |-> "t", plain |-> FALSE, enabled |-> TRUE],
               [kind |-> "email", host |-> "a", secret |-> "omitted", plain |-> FALSE, enabled |-> TRUE],
               [kind |-> "email", host |-> "a", secret |-> "omitted", plain |-> TRUE, enabled |-> TRUE],
               [kind |-> "ntfy", host |-> "a", secret |-> "t", plain |-> FALSE, enabled |-> TRUE],
               [kind |-> "ntfy", host |-> "a", secret |-> "omitted", plain |-> TRUE, enabled |-> TRUE]},
    Ties <- {{m1, g2}}, MaxRequests <- 2, MaxEdits <- 1,
    channel <- s1, tied <- s2, place <- s3, over <- s4, request <- s5, requests <- s6,
    edits <- s7, given <- s8, secret <- s9, answered <- s10, crossed <- s11

\* Two instances or commands, two keys besides the one that may be drawn, and
\* a push monitor; then an edit after an edit of two monitors.
Sec == INSTANCE Secrets WITH
    Rows <- {m2}, Pushers <- {m2}, Instances <- {p1, p2}, Keys <- {"k", "l", "drawn"},
    Generated <- "drawn", Texts <- {"s"}, Targets <- {"a"}, Levels <- {0},
    AutoFile <- TRUE, MaxStarts <- 3, MaxEdits <- 2,
    row <- s1, check <- s2, file <- s3, proc <- s4, starts <- s5, edits <- s6,
    given <- s7, past <- s8, hand <- s9

Crd == INSTANCE Secrets WITH
    Rows <- {m1, m2}, Pushers <- {m2}, Instances <- {p1}, Keys <- {"k"}, Generated <- "k",
    Texts <- {"s", "t"}, Targets <- {"a", "b"}, Levels <- {0, 1},
    AutoFile <- FALSE, MaxStarts <- 1, MaxEdits <- 3,
    row <- s1, check <- s2, file <- s3, proc <- s4, starts <- s5, edits <- s6,
    given <- s7, past <- s8, hand <- s9

\* JSON values of every type, numbers around the last a float64 tells apart, and
\* an HTTP monitor whose edits change one condition each.
Json(t, n, s, items) == [t |-> t, n |-> n, s |-> s, items |-> items]
Number(n) == Json("number", n, <<>>, <<>>)
Word(s) == Json("text", 0, s, <<>>)
Items(vs) == Json("list", 0, <<>>, [i \in DOMAIN vs |-> [key |-> <<>>, value |-> vs[i]]])
Field(k, v) == Json("object", 0, <<>>, <<[key |-> k, value |-> v]>>)
Asked(op, value) == [op |-> op, segs |-> <<[key |-> <<"k">>, index |-> 0]>>, value |-> value]
Site == [codes |-> {}, with |-> None, without |-> None, regex |-> None, assertions |-> <<>>]
Che == INSTANCE Checks WITH
    Checkers <- {c1, c2}, Mantissa <- 4,
    Values <- <<Json("null", 0, <<>>, <<>>), Number(0), Number(3), Number(4), Number(5), Number(6),
                Number(-1), Word(<<>>), Word(<<"a">>), Word(<<"a", "b">>), Items(<<>>),
                Items(<<Number(4)>>), Items(<<Number(3), Word(<<"a">>)>>), Items(<<Number(-1)>>),
                Field(<<"k">>, Number(3)), Field(<<"k">>, Number(5)), Field(<<"l">>, Number(3))>>,
    Configs <- <<Site, [Site EXCEPT !.codes = {200, 404}, !.with = <<"a">>, !.without = <<"b">>],
                 [Site EXCEPT !.assertions = <<Asked("lt", Number(4))>>],
                 [Site EXCEPT !.with = <<"a">>, !.regex = {<<"a">>},
                              !.assertions = <<Asked("exists", Json("absent", 0, <<>>, <<>>)),
                                               Asked("ne", Number(3))>>]>>,
    Answers <- <<[failed |-> TRUE, code |-> 200, body |-> <<>>, json |-> Json("absent", 0, <<>>, <<>>)],
                 [failed |-> FALSE, code |-> 200, body |-> <<"a", "b">>,
                  json |-> Json("absent", 0, <<>>, <<>>)],
                 [failed |-> FALSE, code |-> 404, body |-> <<"a">>, json |-> Field(<<"k">>, Number(3))],
                 [failed |-> FALSE, code |-> 200, body |-> <<"a">>, json |-> Field(<<"k">>, Number(3))],
                 [failed |-> FALSE, code |-> 200, body |-> <<"a">>, json |-> Field(<<"k">>, Number(5))],
                 [failed |-> FALSE, code |-> 200, body |-> <<"a">>, json |-> Field(<<"l">>, Number(5))]>>,
    Replies <- {None, Broken, 0, 1, 2, 4, 5},
    Connections <- <<[prefix |-> "b", queue |-> <<"x">>, suffix |-> "none"],
                     [prefix |-> "b", queue |-> <<"x", "y">>, suffix |-> "named"],
                     [prefix |-> "b", queue |-> <<"x">>, suffix |-> "events"],
                     [prefix |-> "d", queue |-> <<"x">>, suffix |-> "none"]>>,
    Names <- {m1, m2}, MaxDays <- 3, MaxPackets <- 3, MaxChecks <- 3,
    config <- s1, cache <- s2, check <- s3, checks <- s4

\* Databases of every kind, queries that answer at once, late and never, and a
\* table with no end; three checks of it.
Sql == INSTANCE SqlCheck WITH
    Databases <- {[kind |-> "postgres", super |-> FALSE, custom |-> TRUE],
                  [kind |-> "postgres", super |-> TRUE, custom |-> TRUE],
                  [kind |-> "mysql", super |-> FALSE, custom |-> TRUE],
                  [kind |-> "mariadb", super |-> FALSE, custom |-> TRUE],
                  [kind |-> "old", super |-> FALSE, custom |-> TRUE]},
    Queries <- {[needs |-> 0, rows |-> 1], [needs |-> 0, rows |-> 40],
                [needs |-> 4, rows |-> 0], [needs |-> 40, rows |-> 1]},
    Timeout <- 5, Interval <- 5, Part <- 2, Milli <- 2, MaxRows <- 1, MaxChecks <- 3,
    MaxClock <- 10,
    clock <- s1, database <- s2, query <- s3, check <- s4, session <- s5, verdict <- s6
-----------------------------------------------------------------------------
\* The slots from the one named on.
Unused17 == s17 = None
Unused14 == s14 = None /\ s15 = None /\ s16 = None /\ Unused17
Unused13 == s13 = None /\ Unused14
Unused12 == s12 = None /\ Unused13
Unused11 == s11 = None /\ Unused12
Unused10 == s10 = None /\ Unused11
Unused9 == s9 = None /\ Unused10
Unused8 == s8 = None /\ Unused9
Unused7 == s7 = None /\ Unused8
Unused6 == s6 = None /\ Unused7
Unused5 == s5 = None /\ Unused6
Unused2 == s2 = None /\ s3 = None /\ s4 = None /\ Unused5

From17 == <<s17>>
From14 == <<s14, s15, s16, From17>>
From13 == <<s13, From14>>
From12 == <<s12, From13>>
From11 == <<s11, From12>>
From10 == <<s10, From11>>
From9 == <<s9, From10>>
From8 == <<s8, From9>>
From7 == <<s7, From8>>
From6 == <<s6, From7>>
From5 == <<s5, From6>>
From2 == <<s2, s3, s4, From5>>

Init ==
    \/ part = "confirmation" /\ Log!Init /\ Unused6
    \/ part = "reminders" /\ Rem!Init /\ Unused17
    \/ part = "acknowledgement" /\ Ack!Init /\ Unused17
    \/ part = "rollup" /\ Hist!Init /\ Unused11
    \/ part = "short retention" /\ Brief!Init /\ Unused11
    \/ part = "aggregation" /\ Agg!Init /\ Unused2
    \/ part = "probe" /\ Prb!Init /\ Unused13
    \/ part = "probe outbox" /\ Prx!Init /\ Unused13
    \/ part = "probe file" /\ Pfl!Init /\ Unused11
    \/ part = "sentinel" /\ Sen!Init /\ Unused8
    \/ part = "events" /\ Evt!Init /\ Unused12
    \/ part = "topology" /\ Top!Init /\ Unused7
    \/ part = "accounts" /\ Acc!Init /\ Unused12
    \/ part = "scopes" /\ Sco!Init /\ Unused11
    \/ part = "decrees" /\ Dec!Init /\ Unused11
    \/ part = "panel" /\ Pan!Init /\ Unused10
    \/ part = "panel requests" /\ Par!Init /\ Unused10
    \/ part = "delivery" /\ Dlv!Init /\ Unused13
    \/ part = "timeline" /\ Tml!Init /\ Unused9
    \/ part = "rate limit" /\ Rat!Init /\ Unused7
    \/ part = "push" /\ Psh!Init
    \/ part = "calendar" /\ Cal!Init /\ Unused14
    \/ part = "recurrence" /\ Rec!Init /\ Unused14
    \/ part = "announcements" /\ Ann!Init /\ Unused17
    \/ part = "announcement page" /\ Anp!Init /\ Unused17
    \/ part = "status page" /\ Pub!Init /\ Unused12
    \/ part = "channels" /\ Cha!Init /\ Unused12
    \/ part = "secrets" /\ Sec!Init /\ Unused10
    \/ part = "credential" /\ Crd!Init /\ Unused10
    \/ part = "checks" /\ Che!Init /\ Unused5
    \/ part = "database" /\ Sql!Init /\ Unused7

Next ==
    /\ UNCHANGED part
    /\ \/ part = "confirmation" /\ Log!Next /\ UNCHANGED From6
       \/ part = "reminders" /\ Rem!Next /\ UNCHANGED From17
       \/ part = "acknowledgement" /\ Ack!Next /\ UNCHANGED From17
       \/ part = "rollup" /\ Hist!Next /\ UNCHANGED From11
       \/ part = "short retention" /\ Brief!Next /\ UNCHANGED From11
       \/ part = "aggregation" /\ Agg!Next /\ UNCHANGED From2
       \/ part = "probe" /\ Prb!Next /\ UNCHANGED From13
       \/ part = "probe outbox" /\ Prx!Next /\ UNCHANGED From13
       \/ part = "probe file" /\ Pfl!Next /\ UNCHANGED From11
       \/ part = "sentinel" /\ Sen!Next /\ UNCHANGED From8
       \/ part = "events" /\ Evt!Next /\ UNCHANGED From12
       \/ part = "topology" /\ Top!Next /\ UNCHANGED From7
       \/ part = "accounts" /\ Acc!Next /\ UNCHANGED From12
       \/ part = "scopes" /\ Sco!Next /\ UNCHANGED From11
       \/ part = "decrees" /\ Dec!Next /\ UNCHANGED From11
       \/ part = "panel" /\ Pan!Next /\ UNCHANGED From10
       \/ part = "panel requests" /\ Par!Next /\ UNCHANGED From10
       \/ part = "delivery" /\ Dlv!Next /\ UNCHANGED From13
       \/ part = "timeline" /\ Tml!Next /\ UNCHANGED From9
       \/ part = "rate limit" /\ Rat!Next /\ UNCHANGED From7
       \/ part = "push" /\ Psh!Next
       \/ part = "calendar" /\ Cal!Next /\ UNCHANGED From14
       \/ part = "recurrence" /\ Rec!Next /\ UNCHANGED From14
       \/ part = "announcements" /\ Ann!Next /\ UNCHANGED From17
       \/ part = "announcement page" /\ Anp!Next /\ UNCHANGED From17
       \/ part = "status page" /\ Pub!Next /\ UNCHANGED From12
       \/ part = "channels" /\ Cha!Next /\ UNCHANGED From12
       \/ part = "secrets" /\ Sec!Next /\ UNCHANGED From10
       \/ part = "credential" /\ Crd!Next /\ UNCHANGED From10
       \/ part = "checks" /\ Che!Next /\ UNCHANGED From5
       \/ part = "database" /\ Sql!Next /\ UNCHANGED From7

Spec == Init /\ [][Next]_vars
-----------------------------------------------------------------------------
\* Every variable of the service that runs keeps its type.
TypeOK ==
    CASE part = "confirmation" -> Log!TypeOK
      [] part = "reminders" -> Rem!TypeOK
      [] part = "acknowledgement" -> Ack!TypeOK
      [] part = "rollup" -> Hist!TypeOK
      [] part = "short retention" -> Brief!TypeOK
      [] part = "aggregation" -> Agg!TypeOK
      [] part = "probe" -> Prb!TypeOK
      [] part = "probe outbox" -> Prx!TypeOK
      [] part = "probe file" -> Pfl!TypeOK
      [] part = "sentinel" -> Sen!TypeOK
      [] part = "events" -> Evt!TypeOK
      [] part = "topology" -> Top!TypeOK
      [] part = "accounts" -> Acc!TypeOK
      [] part = "scopes" -> Sco!TypeOK
      [] part = "decrees" -> Dec!TypeOK
      [] part = "panel" -> Pan!TypeOK
      [] part = "panel requests" -> Par!TypeOK
      [] part = "delivery" -> Dlv!TypeOK
      [] part = "timeline" -> Tml!TypeOK
      [] part = "rate limit" -> Rat!TypeOK
      [] part = "push" -> Psh!TypeOK
      [] part = "calendar" -> Cal!TypeOK
      [] part = "recurrence" -> Rec!TypeOK
      [] part = "announcements" -> Ann!TypeOK
      [] part = "announcement page" -> Anp!TypeOK
      [] part = "status page" -> Pub!TypeOK
      [] part = "channels" -> Cha!TypeOK
      [] part = "secrets" -> Sec!TypeOK
      [] part = "credential" -> Crd!TypeOK
      [] part = "checks" -> Che!TypeOK
      [] part = "database" -> Sql!TypeOK

\* The confirmed status is what a definition over the whole record of
\* observations gives, and each change is announced once
\* (incident/state.go, Next).
StatusIsLastAgreement ==
    part = "confirmation" => Log!StatusIsLastAgreement /\ Log!OneEventPerChange

\* Reminders stop for what was taken or is over, keep their distance and are
\* of one open incident per monitor (incident/reminder.go).
RemindersKept == 
    /\ part = "reminders" => Rem!RemindersKept
    /\ part = "acknowledgement" => Ack!RemindersKept

\* The row of a closed incident is not touched again, by the reminder loop or by
\* a click that comes late (incident/reminder.go, api/incident_handlers.go).
ClosedRowsRest == [][part = "reminders" => Rem!ClosedRowsKept]_vars

\* What came before its bucket was over is pruned when it was counted, unless the
\* raw retention is shorter than a bucket and a cycle; what is marked is whole
\* and nothing is counted twice; the statistics of a bucket are of its samples,
\* and those of several agree (rollup/worker.go, aggregate.go, summary/summary.go).
HistorySound ==
    /\ part = "rollup" => Hist!RollupSound
    /\ part = "short retention" => Brief!RollupSound
    /\ part = "aggregation" => Agg!StatisticSound /\ Agg!SummarySound

\* The newest measurement is what reaches the server, the workers are those of
\* the file, and no change of the file is lost (probe/outbox.go, runner.go,
\* daemon.go, config.go).
ProbeSound ==
    /\ part = "probe" => Prb!ProbeSound
    /\ part = "probe outbox" => Prx!ProbeSound
    /\ part = "probe file" => Pfl!FileSound

\* The trees of groups and monitors keep their shape (api/monitor_handlers.go,
\* dependency_handlers.go, group_handlers.go).
TopologySound == part = "topology" => Top!TopologySound

\* One full administrator stays, and no change of an account undoes another
\* (auth/auth.go).
AccountsSound ==
    /\ part = "accounts" => Acc!AccountsSound
    /\ part = "scopes" => Sco!ScopesSound
    /\ part = "decrees" => Dec!ScopesSound

\* A signal counts once, and silence is found and is real; what limits the
\* requests of an origin never wrongs it (checker/push.go, api/ratelimit.go).
PushSound ==
    /\ part = "push" => Psh!PushSound
    /\ part = "rate limit" => Rat!FairLimit

\* Windows cover what the tables say, when they say, whatever the zone, and
\* nothing after their end (domain/maintenance.go, maintenance/calendar.go).
CalendarSound ==
    /\ part = "calendar" => Cal!CalendarSound
    /\ part = "recurrence" => Rec!CalendarSound

\* Who looks is shown what it may see, no better than it is, once and in order,
\* although rows change between the queries of one answer: the stream of events
\* and the timeline (api/events.go, monitor_events.go), the board
\* (group_handlers.go, summary_handlers.go), announcements
\* and the public page (api/statuspage_handlers.go, statuspage/statuspage.go).
ShownSound ==
    /\ part = "events" => Evt!StreamSound
    /\ part = "timeline" => Tml!TimelineSound
    /\ part = "panel" => Pan!PanelSound
    /\ part = "panel requests" => Par!PanelSound
    /\ part = "announcements" => Ann!AnnouncementsSound
    /\ part = "announcement page" => Anp!AnnouncementsSound
    /\ part = "status page" => Pub!StatusPageSound

\* A channel keeps its credential for the destination it is of, and a form
\* that is refused changes nothing (api/channel_handlers.go, notifier/edit.go).
\* What is stored of credentials is sealed, and opens with the key an instance
\* runs with (sqlstore/secrets.go).
SettingsSound ==
    /\ part = "channels" => Cha!ChannelsSound
    /\ part = "secrets" => Sec!SecretsSound
    /\ part = "credential" => Crd!SecretsSound
    /\ part = "delivery" => Dlv!DeliverySound

\* A verdict is of every condition the check began with, whatever was edited
\* meanwhile, and conditions agree with each other (checker/http.go,
\* jsonassert.go, redis_assert.go, tls.go, icmp.go, dns.go).  A database is up
\* only if it did what was asked, and checks leave no queries behind (sql.go).
\* The network of the host is blamed on recent evidence of one once reached
\* (sentinel/sentinel.go).
MeasurementSound ==
    /\ part = "checks" => Che!ChecksSound
    /\ part = "database" => Sql!SqlCheckSound
    /\ part = "sentinel" => Sen!VerdictSound
=============================================================================
