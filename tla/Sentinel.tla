------------------------------ MODULE Sentinel ------------------------------
(***************************************************************************)
(* The network sentinel (internal/sentinel/sentinel.go) as the checks use  *)
(* it (checker.go, applyNetworkSentinel; scheduler.go, runCheck): a check  *)
(* that failed asks whether the network of the host is up, with what is    *)
(* left of its own deadline, and its failure is thrown away if not.        *)
(* Time is kept as ages, which stop growing at Horizon.                    *)
(***************************************************************************)
EXTENDS Naturals

CONSTANTS
    Askers,     \* the checks that may ask at once
    Count,      \* how many targets there are, dialled in order 1..Count
    CacheTTL, Timeout,
    Patience    \* bound: the longest a failed check has left of its deadline

Targets == 1..Count
Window == CacheTTL + Count * Timeout
Horizon == Window + 1

VARIABLES
    reachable,  \* the targets that answer now
    away,       \* for how long each target has been reachable again
    cached,     \* hasCached, cachedUp and the age of cachedAt
    proven,
    asker,      \* each check: its step, its deadline, its dial and its answer
    everReached, \* ghost: a target answered once
    cut         \* ghost: for how long no dial was cut by a deadline

vars == <<reachable, away, cached, proven, asker, everReached, cut>>

Resting == [step |-> "rest", left |-> 0, target |-> 0, dialled |-> 0, up |-> FALSE]

TypeOK ==
    /\ reachable \subseteq Targets
    /\ away \in [Targets -> 0..Horizon]
    /\ cached \in [has: BOOLEAN, up: BOOLEAN, age: 0..Horizon]
    /\ proven \in BOOLEAN /\ everReached \in BOOLEAN
    /\ asker \in [Askers -> [step: {"rest", "ask", "dial", "store", "told"}, left: 0..Patience,
                             target: 0..Count, dialled: 0..Timeout, up: BOOLEAN]]
    /\ cut \in 0..Horizon

Init ==
    /\ reachable = Targets
    /\ away = [t \in Targets |-> Horizon]
    /\ cached = [has |-> FALSE, up |-> FALSE, age |-> 0]
    /\ proven = FALSE /\ everReached = FALSE
    /\ asker = [a \in Askers |-> Resting]
    /\ cut = Horizon

-----------------------------------------------------------------------------
Older(age) == IF age < Horizon THEN age + 1 ELSE age

\* The network changes.
Change(up) ==
    /\ up # reachable /\ reachable' = up
    /\ away' = [t \in Targets |-> IF t \in up /\ t \in reachable THEN away[t] ELSE 0]
    /\ UNCHANGED <<cached, proven, asker, everReached, cut>>

\* What has to happen now: an answer to store or use, a dial at its end.
Urgent(a) ==
    \/ asker[a].step \in {"store", "told"}
    \/ asker[a].step = "dial" /\ (asker[a].left = 0 \/ asker[a].dialled = Timeout)

Tick ==
    /\ \A a \in Askers : ~ Urgent(a)
    /\ away' = [t \in Targets |-> IF t \in reachable THEN Older(away[t]) ELSE 0]
    /\ cached' = [cached EXCEPT !.age = Older(@)]
    /\ asker' = [a \in Askers |->
                   [asker[a] EXCEPT !.left = IF @ > 0 THEN @ - 1 ELSE 0,
                                    !.dialled = IF asker[a].step = "dial" THEN @ + 1 ELSE @]]
    /\ cut' = Older(cut)
    /\ UNCHANGED <<reachable, proven, everReached>>

\* A check failed: at once, or because its deadline ran out (left = 0).
Fail(a, left) ==
    /\ asker[a].step = "rest"
    /\ asker' = [asker EXCEPT ![a] = [Resting EXCEPT !.step = "ask", !.left = left]]
    /\ UNCHANGED <<reachable, away, cached, proven, everReached, cut>>

\* Mutant of Fresh: what was stored once serves for ever.
FreshForEver == cached.has

Fresh == cached.has /\ cached.age < CacheTTL

\* Mutant of Verdict: the safeguard of the first answer is missing.
VerdictUnproven(up, known) == up

\* Nothing is thrown away by a sentinel that never reached anything.
Verdict(up, known) == known => up

\* NetworkUp up to the probe: the cache answers, or the probe begins.
Ask(a) ==
    /\ asker[a].step = "ask"
    /\ asker' = [asker EXCEPT ![a] =
                   IF Fresh THEN [@ EXCEPT !.step = "told", !.up = Verdict(cached.up, proven)]
                   ELSE [@ EXCEPT !.step = "dial", !.target = 1, !.dialled = 0]]
    /\ UNCHANGED <<reachable, away, cached, proven, everReached, cut>>

\* A target answers, and the probe is over.
Answer(a) ==
    /\ asker[a].step = "dial" /\ asker[a].left > 0
    /\ asker[a].target \in reachable
    /\ asker' = [asker EXCEPT ![a].step = "store", ![a].up = TRUE]
    /\ everReached' = TRUE
    /\ UNCHANGED <<reachable, away, cached, proven, cut>>

NextTarget(a) ==
    asker' = [asker EXCEPT ![a] =
                IF @.target = Count THEN [@ EXCEPT !.step = "store", !.up = FALSE]
                ELSE [@ EXCEPT !.target = asker[a].target + 1, !.dialled = 0]]

\* It refuses: it was away at some moment of the dial.
NoAnswer(a) ==
    /\ asker[a].step = "dial" /\ asker[a].left > 0
    /\ away[asker[a].target] <= asker[a].dialled
    /\ NextTarget(a)
    /\ UNCHANGED <<reachable, away, cached, proven, everReached, cut>>

\* The context of the dial comes from the check's: once that is over, every
\* dial fails as soon as it begins.
CutDial(a) ==
    /\ asker[a].step = "dial" /\ asker[a].left = 0
    /\ NextTarget(a)
    /\ cut' = 0
    /\ UNCHANGED <<reachable, away, cached, proven, everReached>>

\* The second critical section of NetworkUp: the last to end wins the cache.
Store(a) ==
    /\ asker[a].step = "store"
    /\ cached' = [has |-> TRUE, up |-> asker[a].up, age |-> 0]
    /\ proven' = (proven \/ asker[a].up)
    /\ asker' = [asker EXCEPT ![a] = [@ EXCEPT !.step = "told", !.up = Verdict(asker[a].up, proven')]]
    /\ UNCHANGED <<reachable, away, everReached, cut>>

\* The check ends: its failure stands, or becomes unknown.
Conclude(a) ==
    /\ asker[a].step = "told"
    /\ asker' = [asker EXCEPT ![a] = Resting]
    /\ UNCHANGED <<reachable, away, cached, proven, everReached, cut>>

Next ==
    \/ \E up \in SUBSET Targets : Change(up)
    \/ Tick
    \/ \E a \in Askers :
         \/ \E left \in 0..Patience : Fail(a, left)
         \/ Ask(a) \/ Answer(a) \/ NoAnswer(a) \/ CutDial(a) \/ Store(a) \/ Conclude(a)

Spec == Init /\ [][Next]_vars

-----------------------------------------------------------------------------
Discarded(a) == asker[a].step = "told" /\ ~ asker[a].up

\* A failure is thrown away only on recent evidence, however the probes of
\* several checks overlap and whoever stores last: each target was away, or a
\* dial was cut short, within a cache lifetime and a round of dials
\* (sentinel.go, NetworkUp).
RecentEvidence ==
    \A a \in Askers : Discarded(a) =>
        \/ \A t \in Targets : away[t] <= Window
        \/ cut <= Window

\* And never by a sentinel that reached nothing so far (sentinel.go, the
\* comment on NetworkUp).
NeverUnproven == \A a \in Askers : Discarded(a) => everReached

VerdictSound == RecentEvidence /\ NeverUnproven

\* A failure is thrown away only if the network of the host was away
\* (checker.go, the comment on applyNetworkSentinel).
SilencedOnlyOffline ==
    \A a \in Askers : Discarded(a) => \A t \in Targets : away[t] <= Window
=============================================================================
