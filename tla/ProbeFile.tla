----------------------------- MODULE ProbeFile -----------------------------
(***************************************************************************)
(* Who writes the file of the probe: the commands, each a process of its   *)
(* own, the assistant, which asks for minutes before it writes, the web    *)
(* interface inside the daemon, and a person with an editor                *)
(* (probe/config.go, input.go, ui.go, cmd/upwatch-probe/commands.go,       *)
(* setup.go).  Update reads, changes, checks that the file is still as it  *)
(* was read, and moves another into its place.  Durations are in units of  *)
(* 2.5 s.  How the daemon applies the file is module Probe.                *)
(***************************************************************************)
EXTENDS Integers

CONSTANTS
    None, Refused,      \* no file; a text that Load refuses
    Names, Checks,      \* Checks: what may be asked for, [every, limit, plain]
    Beats,              \* addresses of the heartbeat, [every, plain]
    Commands, Uis,      \* processes of the CLI; requests of the interface
    Edits,              \* what an editor may leave
    Attempts,           \* updateAttempts
    MaxUpdates, MaxEdits

VARIABLES
    file,       \* None, Refused or a configuration
    proc,       \* each process and request
    held,       \* Daemon.cfg, the last good configuration
    drawn,      \* tokens generated so far
    updates, edits,
    promised,   \* ghost: what the acknowledged changes and edits add up to
    raced,      \* ghost: the file was replaced between the check and the rename,
                \* or deleted before the check
    issued,     \* ghost: the tokens that were ever in the file
    turned      \* ghost: a token was rotated, or the file edited

vars == <<file, proc, held, drawn, updates, edits, promised, raced, issued, turned>>

MinInterval == 2
DefaultInterval == 24
DefaultTimeout == 4
Smaller(a, b) == IF a < b THEN a ELSE b

\* A token shorter than minUITokenLength, which only an editor leaves; those
\* that are drawn are the numbers from 1 on.
Brief == 0

Nothing == [checks |-> [n \in Names |-> None], beat |-> None, http |-> FALSE, token |-> None]
Idle == [step |-> "idle"]
Procs == Commands \cup Uis
IsConfig(f) == f \notin {None, Refused}

\* applyDefaults.
Every(c) == IF c.every = 0 THEN DefaultInterval ELSE c.every
FilledBeat(b) == [b EXCEPT !.every = Every(b)]
FilledCheck(c) ==
    [c EXCEPT !.every = Every(c),
              !.limit = IF c.limit = 0 THEN Smaller(DefaultTimeout, Every(c) \div 2) ELSE c.limit]
Filled(cfg) ==
    [cfg EXCEPT !.beat = IF @ = None THEN None ELSE FilledBeat(@),
                !.checks = [n \in Names |-> IF @[n] = None THEN None ELSE FilledCheck(@[n])]]

\* Mutant of Valid: a limit longer than the interval is let through.
ValidUnlimited(cfg) == cfg.beat = None \/ cfg.http \/ ~ cfg.beat.plain

\* Validate: names are unique here by the shape of checks.
Valid(cfg) ==
    /\ cfg.beat # None => /\ cfg.beat.plain => cfg.http
                          /\ cfg.beat.every >= MinInterval
    /\ \A n \in Names : LET c == cfg.checks[n] IN
          c # None => /\ c.plain => cfg.http
                      /\ c.every >= MinInterval /\ c.limit > 0 /\ c.limit < c.every

\* Mutant of Tokened: each init and setup draws a new token.
TokenedAnew(cfg, token) == [cfg EXCEPT !.token = token]

\* The interface is born closed: the first init or setup draws its token.
Tokened(cfg, token) == IF cfg.token = None THEN [cfg EXCEPT !.token = token] ELSE cfg

Taken(cfg, n) == cfg.checks[n] # None

\* What is given takes the place of what was there.
Given(says, cfg) ==
    [cfg EXCEPT !.http = IF "http" \in DOMAIN says THEN says.http ELSE @,
                !.beat = IF "beat" \in DOMAIN says THEN says.beat ELSE @]
Added(more, checks) == [n \in Names |-> IF n \in DOMAIN more THEN more[n] ELSE checks[n]]

\* What each command does to a configuration; None when it refuses to.
Changed(change, token, cfg) ==
    CASE change.kind = "add" ->
           IF Taken(cfg, change.name) /\ ~ change.replace THEN None
           ELSE [cfg EXCEPT !.checks[change.name] = change.check]
      [] change.kind = "remove" ->
           IF Taken(cfg, change.name) THEN [cfg EXCEPT !.checks[change.name] = None] ELSE None
      [] change.kind = "init" -> Tokened(Given(change.given, cfg), token)
      [] change.kind = "setup" ->
           Tokened([Given(change.given, cfg) EXCEPT !.checks = Added(change.added, @)], token)
      [] change.kind = "token" ->
           IF change.rotate THEN [cfg EXCEPT !.token = token] ELSE Tokened(cfg, token)

\* A missing file begins empty; one that Load refuses is not touched.
Loaded(f) == IF f = None THEN Nothing ELSE Filled(f)

\* A change on a file, whole: None when it is refused.
Outcome(change, token, f) ==
    IF f = Refused THEN None
    ELSE LET cfg == Changed(change, token, Loaded(f)) IN
         IF cfg = None THEN None
         ELSE IF Valid(Filled(cfg)) THEN Filled(cfg) ELSE None
-----------------------------------------------------------------------------
Init ==
    /\ file \in {None, Nothing}
    /\ proc = [p \in Procs |-> Idle] /\ held = Loaded(file)
    /\ drawn = 0 /\ updates = 0 /\ edits = 0
    /\ promised = file /\ raced = FALSE /\ issued = {} /\ turned = FALSE

Goes(p, s) == proc' = [proc EXCEPT ![p] = s]
Ghosts == <<promised, raced, issued, turned>>
Quiet == UNCHANGED <<file, held, edits>> /\ UNCHANGED Ghosts

Ask(change, by) == [step |-> "load", change |-> change, tries |-> 0, by |-> by]

Adds == {[kind |-> "add", name |-> n, check |-> c, replace |-> r] :
            n \in Names, c \in Checks, r \in BOOLEAN}
Removes == {[kind |-> "remove", name |-> n] : n \in Names}
Givens == {[http |-> h] : h \in BOOLEAN} \cup {[beat |-> b] : b \in Beats \cup {None}}

\* add, remove, init and ui-token.
Command(p, change) ==
    /\ p \in Commands /\ proc[p] = Idle /\ updates < MaxUpdates
    /\ updates' = updates + 1
    /\ Goes(p, Ask(change, "shell")) /\ UNCHANGED drawn /\ Quiet

\* Mutant of Admitted: "no token" is taken for "no password".
AdmittedOpen(token) == token = held.token

\* auth: the token of the configuration the daemon runs, if it has one that
\* is not short enough to be guessed.
Admitted(token) == held.token \notin {None, Brief} /\ token = held.token

Submit(p, token, change) ==
    /\ p \in Uis /\ proc[p] = Idle /\ updates < MaxUpdates /\ Admitted(token)
    /\ updates' = updates + 1
    /\ Goes(p, Ask(change, token)) /\ UNCHANGED drawn /\ Quiet

\* setup reads the file before the first question ...
Open(p) ==
    /\ p \in Commands /\ proc[p] = Idle /\ updates < MaxUpdates /\ file # Refused
    /\ updates' = updates + 1
    /\ Goes(p, [step |-> "ask", was |-> Loaded(file)]) /\ UNCHANGED drawn /\ Quiet

\* ... and an empty answer keeps what was then there.  An address without TLS
\* is allowed by the answer that follows it; the names given replace.
Kept(was, beat, added) ==
    LET plain == (beat # was.beat /\ beat.plain) \/ \E n \in DOMAIN added : added[n].plain IN
    [kind |-> "setup", given |-> [beat |-> beat, http |-> was.http \/ plain], added |-> added]

Answer(p, beat, added) ==
    /\ proc[p].step = "ask" /\ beat \in Beats \cup {proc[p].was.beat}
    /\ Goes(p, Ask(Kept(proc[p].was, beat, added), "shell"))
    /\ UNCHANGED <<drawn, updates>> /\ Quiet

\* Update: the file as it is now, changed.
Load(p) ==
    LET cfg == Outcome(proc[p].change, drawn + 1, file) IN
    /\ proc[p].step = "load"
    /\ IF cfg = None THEN Goes(p, Idle) /\ UNCHANGED drawn
       ELSE /\ drawn' = IF cfg.token = drawn + 1 THEN drawn + 1 ELSE drawn
            /\ Goes(p, [step |-> "check", change |-> proc[p].change, tries |-> proc[p].tries,
                        by |-> proc[p].by, read |-> file, token |-> drawn + 1, new |-> cfg])
    /\ UNCHANGED updates /\ Quiet

\* Mutant of Unmoved: the file is not read again.
UnmovedAssumed(read) == TRUE

\* A file that went missing is written anew.
Unmoved(read) == file = None \/ file = read

\* The file is read again: another's change begins the whole thing again.
Check(p) ==
    /\ proc[p].step = "check"
    /\ IF Unmoved(proc[p].read)
         THEN Goes(p, [proc[p] EXCEPT !.step = "rename", !.read = file])
         ELSE Goes(p, IF proc[p].tries + 1 = Attempts THEN Idle
                      ELSE [Ask(proc[p].change, proc[p].by) EXCEPT !.tries = proc[p].tries + 1])
    /\ raced' = (raced \/ (Unmoved(proc[p].read) /\ file = None /\ proc[p].read # None))
    /\ UNCHANGED <<file, held, drawn, updates, edits, promised, issued, turned>>

\* writeAtomic: the temporary file takes the place of the file in one step.
Rename(p) ==
    /\ proc[p].step = "rename"
    /\ file' = proc[p].new
    /\ Goes(p, IF p \in Uis THEN [step |-> "reload", by |-> proc[p].by] ELSE Idle)
    /\ raced' = (raced \/ file # proc[p].read)
    /\ promised' = IF raced' THEN file' ELSE Outcome(proc[p].change, proc[p].token, promised)
    /\ issued' = issued \cup {proc[p].new.token}
    /\ turned' = (turned \/ (proc[p].change.kind = "token" /\ proc[p].change.rotate))
    /\ UNCHANGED <<held, drawn, updates, edits>>

\* The daemon: what Load refuses leaves the last good one, a missing file none.
Run == held' = IF file = Refused THEN held ELSE Loaded(file)
Stays == UNCHANGED <<file, drawn, updates, edits>> /\ UNCHANGED Ghosts

Watch == Run /\ UNCHANGED proc /\ Stays
Reload(p) == proc[p].step = "reload" /\ Run /\ Goes(p, Idle) /\ Stays

\* The daemon starts again, and its requests are gone.
Restart ==
    /\ held' = IF file = Refused THEN Nothing ELSE Loaded(file)
    /\ proc' = [p \in Procs |-> IF p \in Uis THEN Idle ELSE proc[p]]
    /\ Stays

\* A command is killed, or the answers end: only a temporary file is left.
Leave(p) == p \in Commands /\ proc[p] # Idle /\ Goes(p, Idle) /\ UNCHANGED <<drawn, updates>> /\ Quiet

Edit(f) ==
    /\ edits < MaxEdits /\ edits' = edits + 1 /\ f # file
    /\ file' = f /\ promised' = f /\ turned' = TRUE
    /\ issued' = IF IsConfig(f) THEN issued \cup {f.token} ELSE issued
    /\ UNCHANGED <<proc, held, drawn, updates, raced>>

Next ==
    \/ \E p \in Commands : \/ Open(p) \/ Leave(p)
                           \/ \E change \in Adds \cup Removes : Command(p, change)
                           \/ \E g \in Givens : Command(p, [kind |-> "init", given |-> g])
                           \/ \E r \in BOOLEAN : Command(p, [kind |-> "token", rotate |-> r])
    \/ \E p \in Commands, b \in Beats \cup {None}, ns \in SUBSET Names, c \in Checks :
           Answer(p, b, [n \in ns |-> c])
    \/ \E p \in Uis, t \in issued \cup {None}, change \in Adds \cup Removes : Submit(p, t, change)
    \/ \E p \in Procs : Load(p) \/ Check(p) \/ Rename(p) \/ Reload(p)
    \/ Watch \/ Restart
    \/ \E f \in Edits : Edit(f)

Spec == Init /\ [][Next]_vars
-----------------------------------------------------------------------------
Configs(f) ==
    /\ DOMAIN f.checks = Names /\ f.http \in BOOLEAN /\ f.token \in {None, Brief} \cup 1..drawn
    /\ f.beat # None => f.beat.every \in Nat /\ f.beat.plain \in BOOLEAN

TypeOK ==
    /\ IsConfig(file) => Configs(file)
    /\ IsConfig(promised) => Configs(promised)
    /\ Configs(held) /\ issued \subseteq {None, Brief} \cup 1..drawn /\ raced \in BOOLEAN /\ turned \in BOOLEAN
    /\ \A p \in Procs :
          /\ proc[p].step \in {"idle", "ask", "load", "check", "rename", "reload"}
          /\ proc[p].step = "load" => proc[p].tries \in 0..Attempts - 1
    /\ updates \in 0..MaxUpdates /\ edits \in 0..MaxEdits

\* The file is what the acknowledged changes make of it one after the other,
\* each on the outcome of those before: none is lost, none is made twice and
\* none brings back what another had replaced, unless the file was replaced
\* between the check and the rename, or deleted (config.go Update).
NothingLost == ~ raced => file = promised

\* Whatever was written at once, no update leaves a file that the daemon would
\* refuse or read otherwise than it was written: every duration is there, no
\* check outlasts its interval, and a token travels in the clear only where
\* that was allowed (config.go Update, applyDefaults).
FileLoads ==
    IsConfig(file) /\ file \notin Edits =>
        /\ file.beat # None => file.beat.every >= MinInterval /\ (file.beat.plain => file.http)
        /\ \A n \in Names : LET c == file.checks[n] IN
              c # None => c.limit \in 1..c.every - 1 /\ (c.plain => file.http)

\* The token that was shown opens the interface until somebody rotates it or
\* edits the file: no init nor setup draws another (commands.go, setup.go).
TokenLasts == ~ raced /\ ~ turned => \A t, u \in issued \ {None} : t = u

\* A request of the interface changes the file only with a token that was in
\* the file: before the first one is drawn, and with one that is too short, the
\* interface is closed (ui.go auth).
NeverOpen == \A p \in Uis : proc[p] # Idle => proc[p].by \in issued \ {None, Brief}

FileSound == NothingLost /\ FileLoads /\ TokenLasts /\ NeverOpen
=============================================================================
