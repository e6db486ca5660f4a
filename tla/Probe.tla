------------------------------- MODULE Probe -------------------------------
(***************************************************************************)
(* The probe agent (internal/probe): the daemon that reads the             *)
(* configuration again when its file changes (daemon.go), the runner that  *)
(* keeps one worker for each job (runner.go), and the worker's two         *)
(* goroutines, one that measures and one that delivers, with the outbox of *)
(* one signal between them (outbox.go).  The jobs of a name carry a        *)
(* fingerprint; a signal is the number of its measurement.                 *)
(***************************************************************************)
EXTENDS Naturals, FiniteSets

CONSTANTS
    Names,        \* the names a configuration may use
    Reloaders,    \* who calls reload: the loop of Run, and the interface
    Files,        \* what the file may hold: functions from names to fingerprints
    Missing, Broken, \* no file; a file that Load refuses
    None,
    Attempts,     \* Backoff.Attempts
    MaxEdits, MaxMeasures  \* bounds

VARIABLES
    file,       \* the configuration file
    lastSeen,   \* Daemon.lastSeen, the content and not its hash
    cfg,        \* the jobs of Daemon.cfg
    mu,         \* who holds Daemon.mu
    reload,     \* each call of reload: where it is, and what it read
    worker,     \* Runner.workers
    status,     \* the names StateFile has an entry for
    measured,   \* the number of measurements of each name
    tried,      \* ghost: the latest of them that was sent, or ended with its worker
    received,   \* ghost: the latest that reached the central
    disorder,   \* ghost: an older signal reached it after a newer one
    edits

vars == <<file, lastSeen, cfg, mu, reload, worker, status, measured, tried, received,
          disorder, edits>>
history == <<measured, tried, received, disorder>>

NoJobs == [n \in {} |-> None]
Contents == Files \cup {Missing, Broken}
\* A worker: its job, whether it was told to stop, the measuring goroutine,
\* the slot of the outbox, the delivering goroutine with its signal.
NoWorker == [job |-> None, cancelled |-> FALSE, loop |-> "done", slot |-> None,
             out |-> "done", sig |-> None, attempt |-> 0]
Started(job) == [job |-> job, cancelled |-> FALSE, loop |-> "measure", slot |-> None,
                 out |-> "take", sig |-> None, attempt |-> 0]
Running(n) == worker[n].job # None
Done(n) == worker[n].loop = "done" /\ worker[n].out = "done"

Jobs == UNION {{f[n] : n \in DOMAIN f} : f \in Files}
Signals == 1..MaxMeasures
TypeOK ==
    /\ file \in Contents /\ lastSeen \in Contents \cup {None}
    /\ cfg \in Files \cup {NoJobs}
    /\ mu \in Reloaders \cup {None}
    /\ reload \in [Reloaders -> [stage: {"idle", "lock", "load", "keep", "stop", "start"},
                                 read: Contents \cup {None}, force: BOOLEAN,
                                 jobs: Files \cup {NoJobs}]]
    /\ worker \in [Names -> [job: Jobs \cup {None}, cancelled: BOOLEAN,
                             loop: {"measure", "record", "offer", "replace", "wait", "done"},
                             slot: Signals \cup {None},
                             out: {"take", "send", "wait", "done"},
                             sig: Signals \cup {None}, attempt: 0..Attempts]]
    /\ status \subseteq Names
    /\ measured \in [Names -> 0..MaxMeasures]
    /\ tried \in [Names -> 0..MaxMeasures] /\ received \in [Names -> 0..MaxMeasures]
    /\ disorder \in BOOLEAN

AtRest == [stage |-> "idle", read |-> None, force |-> FALSE, jobs |-> NoJobs]

Init ==
    /\ file = Missing /\ lastSeen = None /\ cfg = NoJobs /\ mu = None
    /\ reload = [r \in Reloaders |-> AtRest]
    /\ worker = [n \in Names |-> NoWorker]
    /\ status = {}
    /\ measured = [n \in Names |-> 0]
    /\ tried = [n \in Names |-> 0] /\ received = [n \in Names |-> 0]
    /\ disorder = FALSE
    /\ edits = 0

-----------------------------------------------------------------------------
(***************************************************************************)
(* The daemon.                                                             *)
(***************************************************************************)
Edit(c) ==
    /\ edits < MaxEdits /\ c # file
    /\ file' = c /\ edits' = edits + 1
    /\ UNCHANGED <<lastSeen, cfg, mu, reload, worker, status, history>>

\* The file is read, and hashed, before the mutex is taken.
ReadFile(r, force) ==
    /\ reload[r].stage = "idle"
    /\ force \/ file # lastSeen
    /\ reload' = [reload EXCEPT ![r] = [AtRest EXCEPT !.stage = "lock", !.read = file, !.force = force]]
    /\ UNCHANGED <<file, lastSeen, cfg, mu, worker, status, history, edits>>

\* Nothing new and nothing forced: nothing to do.
Lock(r) ==
    /\ reload[r].stage = "lock" /\ mu = None
    /\ IF ~ reload[r].force /\ reload[r].read = lastSeen
         THEN reload' = [reload EXCEPT ![r] = AtRest] /\ UNCHANGED <<lastSeen, cfg, mu>>
         ELSE /\ lastSeen' = reload[r].read
              /\ mu' = r
              /\ cfg' = IF reload[r].read = Missing THEN NoJobs ELSE cfg
              /\ reload' = [reload EXCEPT ![r].stage = IF reload[r].read = Missing THEN "stop" ELSE "load"]
    /\ UNCHANGED <<file, worker, status, history, edits>>

\* Load reads the file once more.  What it refuses leaves all as it was.
Load(r) ==
    /\ reload[r].stage = "load"
    /\ IF file \in Files
         THEN /\ cfg' = file
              /\ reload' = [reload EXCEPT ![r].stage = "keep", ![r].jobs = file]
              /\ UNCHANGED mu
         ELSE mu' = None /\ reload' = [reload EXCEPT ![r] = AtRest] /\ UNCHANGED cfg
    /\ UNCHANGED <<file, lastSeen, worker, status, history, edits>>

\* The status forgets the names that are gone; their workers still run.
Keep(r) ==
    /\ reload[r].stage = "keep"
    /\ status' = status \cap DOMAIN reload[r].jobs
    /\ reload' = [reload EXCEPT ![r].stage = "stop"]
    /\ UNCHANGED <<file, lastSeen, cfg, mu, worker, history, edits>>

\* Mutant of Outdated: a worker whose job changed keeps on.
OutdatedIfGone(n, jobs) == Running(n) /\ n \notin DOMAIN jobs

\* Apply stops a worker that has no job any more or another one.
Outdated(n, jobs) == Running(n) /\ (n \in DOMAIN jobs => jobs[n] # worker[n].job)

Cancel(r, n) ==
    /\ reload[r].stage = "stop"
    /\ Outdated(n, reload[r].jobs) /\ ~ worker[n].cancelled
    /\ worker' = [worker EXCEPT ![n].cancelled = TRUE]
    /\ UNCHANGED <<file, lastSeen, cfg, mu, reload, status, history, edits>>

\* stop waits for both goroutines.
Ended(n) == worker[n].cancelled /\ Done(n)

Discard(r, n) ==
    /\ reload[r].stage = "stop" /\ Outdated(n, reload[r].jobs)
    /\ Ended(n)
    /\ worker' = [worker EXCEPT ![n] = NoWorker]
    /\ UNCHANGED <<file, lastSeen, cfg, mu, reload, status, history, edits>>

\* When none is left to stop the missing ones are started, and reload is over.
Start(r) ==
    /\ reload[r].stage = "stop"
    /\ \A n \in Names : ~ Outdated(n, reload[r].jobs)
    /\ worker' = [n \in Names |->
                    IF n \in DOMAIN reload[r].jobs /\ ~ Running(n) THEN Started(reload[r].jobs[n])
                    ELSE worker[n]]
    /\ tried' = [n \in Names |-> IF worker'[n] = worker[n] THEN tried[n] ELSE measured[n]]
    /\ mu' = None
    /\ reload' = [reload EXCEPT ![r] = AtRest]
    /\ UNCHANGED <<file, lastSeen, cfg, status, measured, received, disorder, edits>>

-----------------------------------------------------------------------------
(***************************************************************************)
(* The goroutine that measures.                                            *)
(***************************************************************************)
LoopKeeps == UNCHANGED <<file, lastSeen, cfg, mu, reload, edits>>

\* A check ends; one cut short by the end of the worker is thrown away.
Measure(n) ==
    /\ worker[n].loop = "measure"
    /\ \/ worker[n].cancelled /\ worker' = [worker EXCEPT ![n].loop = "done"]
          /\ UNCHANGED measured
       \/ ~ worker[n].cancelled /\ measured[n] < MaxMeasures
          /\ measured' = [measured EXCEPT ![n] = @ + 1]
          /\ worker' = [worker EXCEPT ![n].loop = "record"]
    /\ UNCHANGED <<status, tried, received, disorder>> /\ LoopKeeps

\* Mutant of MayRecord: results are recorded under the mutex of reload.
MayRecordUnlocked == mu = None

\* The status has a mutex of its own (statusMu and StateFile.mu), held by
\* nobody who waits.
MayRecord == TRUE

Record(n) ==
    /\ worker[n].loop = "record" /\ MayRecord
    /\ status' = status \cup {n}
    /\ worker' = [worker EXCEPT ![n].loop = "offer"]
    /\ UNCHANGED history /\ LoopKeeps

\* Post: the slot is free and takes the signal ...
Offer(n) ==
    /\ worker[n].loop = "offer"
    /\ worker' = IF worker[n].slot = None
                   THEN [worker EXCEPT ![n].slot = measured[n], ![n].loop = "wait"]
                   ELSE [worker EXCEPT ![n].loop = "replace"]
    /\ UNCHANGED <<status, history>> /\ LoopKeeps

\* ... or holds an older one, which goes, if nobody took it meanwhile.
Replace(n) ==
    /\ worker[n].loop = "replace"
    /\ worker' = [worker EXCEPT ![n].slot = None, ![n].loop = "offer"]
    /\ UNCHANGED <<status, history>> /\ LoopKeeps

\* The timer of the next measurement, or the end.
Wait(n) ==
    /\ worker[n].loop = "wait"
    /\ worker' = [worker EXCEPT ![n].loop = IF worker[n].cancelled THEN "done" ELSE "measure"]
    /\ UNCHANGED <<status, history>> /\ LoopKeeps

-----------------------------------------------------------------------------
(***************************************************************************)
(* The goroutine that delivers.                                            *)
(***************************************************************************)
Take(n) ==
    /\ worker[n].out = "take"
    /\ \/ worker[n].cancelled /\ worker' = [worker EXCEPT ![n].out = "done"]
       \/ worker[n].slot # None
          /\ worker' = [worker EXCEPT ![n].sig = worker[n].slot, ![n].slot = None,
                                      ![n].attempt = 1, ![n].out = "send"]
    /\ UNCHANGED <<status, history>> /\ LoopKeeps

\* One attempt.  Whether the signal reached the central and whether the
\* agent hears of it are two things.  A failure that may pass is followed by
\* a wait while attempts are left; every other end of the attempt is final,
\* and so is the one that finds the worker told to stop.
Send(n, reaches, heard, retryable) ==
    /\ worker[n].out = "send" /\ MayRecord
    /\ tried' = [tried EXCEPT ![n] = worker[n].sig]
    /\ received' = IF reaches THEN [received EXCEPT ![n] = worker[n].sig] ELSE received
    /\ disorder' = (disorder \/ (reaches /\ worker[n].sig < received[n]))
    /\ worker' = [worker EXCEPT ![n].out =
                    IF worker[n].cancelled THEN "done"
                    ELSE IF heard \/ ~ retryable \/ worker[n].attempt >= Attempts THEN "take"
                    ELSE "wait"]
    /\ status' = IF worker[n].cancelled THEN status ELSE status \cup {n}
    /\ UNCHANGED measured /\ LoopKeeps

\* Mutant of Retry: a newer signal waits until the older one has had its attempts.
RetryFirst(n) ==
    /\ worker[n].out = "wait"
    /\ \/ worker[n].cancelled /\ worker' = [worker EXCEPT ![n].out = "done"]
       \/ worker' = [worker EXCEPT ![n].out = "send", ![n].attempt = @ + 1]
       \/ worker[n].slot # None
          /\ worker' = [worker EXCEPT ![n].slot = None, ![n].out = "send", ![n].attempt = 1]
    /\ UNCHANGED <<status, history>> /\ LoopKeeps

\* The end, the timer of the next attempt, or a newer signal, which takes the
\* place of the one that failed and starts with all its attempts.
Retry(n) ==
    /\ worker[n].out = "wait"
    /\ \/ worker[n].cancelled /\ worker' = [worker EXCEPT ![n].out = "done"]
       \/ worker' = [worker EXCEPT ![n].out = "send", ![n].attempt = @ + 1]
       \/ worker[n].slot # None
          /\ worker' = [worker EXCEPT ![n].sig = worker[n].slot, ![n].slot = None,
                                      ![n].attempt = 1, ![n].out = "send"]
    /\ UNCHANGED <<status, history>> /\ LoopKeeps

-----------------------------------------------------------------------------
Reload(r) ==
    \/ \E force \in BOOLEAN : ReadFile(r, force)
    \/ Lock(r) \/ Load(r) \/ Keep(r) \/ Start(r)
    \/ \E n \in Names : Cancel(r, n) \/ Discard(r, n)

Work(n) ==
    \/ Measure(n) \/ Record(n) \/ Offer(n) \/ Replace(n) \/ Wait(n)
    \/ Take(n) \/ Retry(n)
    \/ Send(n, TRUE, TRUE, FALSE)
    \/ \E reaches, retryable \in BOOLEAN : Send(n, reaches, FALSE, retryable)

Next ==
    \/ \E c \in Contents : Edit(c)
    \/ \E r \in Reloaders : Reload(r)
    \/ \E n \in Names : Work(n)

Spec == Init /\ [][Next]_vars

-----------------------------------------------------------------------------
\* The central never hears an older result after a newer one, across the
\* retries, the signals given up and the workers that follow one another
\* (outbox.go Post and deliver, runner.go Apply).
NewestLast == ~ disorder

\* The last result is not the one that is lost: with the outbox empty and the
\* sender idle it has been sent (outbox.go Post).
LatestIsTried ==
    \A n \in Names :
        Running(n) /\ worker[n].loop \in {"wait", "measure"} /\ worker[n].slot = None
        /\ worker[n].out = "take" /\ ~ worker[n].cancelled
        => tried[n] = measured[n] \/ measured[n] = 0

\* Between reloads there is a worker for each job of the configuration, with
\* that job, and no other (runner.go Apply).
WorkersAreJobs ==
    mu = None => /\ {n \in Names : Running(n)} = DOMAIN cfg
                 /\ \A n \in DOMAIN cfg : worker[n].job = cfg[n] /\ ~ worker[n].cancelled

\* A reload that waits for a worker to end is not waited for by it: the worker
\* has a step to take until both its goroutines ended (daemon.go, the comment
\* on statusMu; runner.go stop).
ReloadIsNotAwaited ==
    \A n \in Names : mu # None /\ worker[n].cancelled /\ ~ Done(n) => ENABLED Work(n)

ProbeSound == NewestLast /\ LatestIsTried /\ WorkersAreJobs /\ ReloadIsNotAwaited
=============================================================================
