----------------------------- MODULE RateLimit -----------------------------
(***************************************************************************)
(* The limit of requests of one origin, a bucket of tokens each            *)
(* (internal/api/ratelimit.go), as POST /push and POST /setup use it.      *)
(* Tokens are counted in shares of which One make a token and Refill come  *)
(* back at each instant; a second is Second instants long.  The arithmetic *)
(* of the code is in floating point, here it is exact.                     *)
(***************************************************************************)
EXTENDS Integers, FiniteSets

CONSTANTS
    None, Origins,
    Burst, Refill, One, Second,
    MaxTracked,         \* maxTrackedClients
    MaxTime, MaxRequests    \* bounds

\* A burst is a token at least, and something comes back.

VARIABLES
    now, requests,
    buckets,    \* rateLimiter.buckets: [tokens, last], or None
    granted,    \* ghost: how many requests each origin was granted since each instant
    told,       \* ghost: when an origin that was refused was told to come again
    misjudged   \* ghost: an answer the record of grants does not bear out, or
                \* one that did not keep what the origin had been told

vars == <<now, requests, buckets, granted, told, misjudged>>

Smaller(a, b) == IF a < b THEN a ELSE b

\* Mutant of Refilled: what comes back while nobody asks is kept beyond the burst.
RefilledWhole(b) == b.tokens + (now - b.last) * Refill

Refilled(b) == Smaller(Burst, b.tokens + (now - b.last) * Refill)

\* Mutant of Idle: whoever did not ask at this instant is idle.
IdleSince(b) == b.last < now

\* forgetIdle: to remember a full bucket changes no answer.
Idle(b) == b.tokens + (now - b.last) * Refill >= Burst

\* allow: an origin that is new to a crowded limiter has the idle ones forgotten.
Remembered(o) ==
    LET tracked == {p \in Origins : buckets[p] # None}
        crowded == buckets[o] = None /\ Cardinality(tracked) >= MaxTracked
    IN  [p \in Origins |-> IF crowded /\ p \in tracked /\ Idle(buckets[p]) THEN None ELSE buckets[p]]

\* Mutant of Wait: the rest of a second is dropped.
WaitDown(tokens) == (One - tokens) \div (Refill * Second)

\* limit: the seconds in Retry-After, rounded up.
Wait(tokens) == (One - tokens + Refill * Second - 1) \div (Refill * Second)

\* By the record alone: in no stretch of time that ends now are there, with
\* this one, more grants than a burst and what came back in it pay for.
Due(o) ==
    \A from \in 0..now :
        (1 + granted[o][from]) * One <= Burst + (now - from) * Refill
-----------------------------------------------------------------------------
Init ==
    /\ now = 0 /\ requests = 0
    /\ buckets = [o \in Origins |-> None]
    /\ granted = [o \in Origins |-> [t \in 0..MaxTime |-> 0]]
    /\ told = [o \in Origins |-> None]
    /\ misjudged = FALSE

\* One request of an origin: allow, and limit's answer.
Ask(o) ==
    LET b == IF buckets[o] = None THEN [tokens |-> Burst, last |-> now] ELSE buckets[o]
        tokens == Refilled(b)
        enough == tokens >= One
        promised == IF told[o] = None THEN FALSE ELSE told[o] <= now
    IN  /\ requests < MaxRequests
        /\ requests' = requests + 1
        /\ buckets' = [Remembered(o) EXCEPT ![o] =
                          [tokens |-> IF enough THEN tokens - One ELSE tokens, last |-> now]]
        /\ granted' = IF ~enough THEN granted
                      ELSE [granted EXCEPT ![o] =
                              [t \in 0..MaxTime |-> IF t <= now THEN @[t] + 1 ELSE 0]]
        /\ told' = [told EXCEPT ![o] = IF enough THEN None ELSE now + Wait(tokens) * Second]
        /\ misjudged' = (misjudged \/ (IF enough THEN ~Due(o) ELSE Due(o) \/ promised))
        /\ UNCHANGED now

Tick ==
    /\ now < MaxTime
    /\ now' = now + 1
    /\ UNCHANGED <<requests, buckets, granted, told, misjudged>>

Next == Tick \/ \E o \in Origins : Ask(o)

Spec == Init /\ [][Next]_vars
-----------------------------------------------------------------------------
TypeOK ==
    /\ now \in 0..MaxTime /\ requests \in 0..MaxRequests /\ misjudged \in BOOLEAN
    /\ \A o \in Origins : buckets[o] # None =>
          /\ buckets[o].tokens \in 0..Burst
          /\ buckets[o].last \in 0..now
    /\ \A o \in Origins : told[o] # None => told[o] \in Nat

\* A request is refused exactly when the record of the grants says that the
\* origin spent its burst and what came back, whatever the limiter forgot in
\* between, and who waits the seconds it was told is not refused again
\* (allow, forgetIdle, limit).
FairLimit == ~misjudged
=============================================================================
