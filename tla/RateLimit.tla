------------------------------- MODULE RateLimit -------------------------------
(***************************************************************************)
(* The token bucket in front of the device API (api/rate-limit.ts): one    *)
(* bucket for each device, or for each address of an unidentified client.  *)
(*                                                                         *)
(* Time is the reading of the wall clock, which an administrator or NTP    *)
(* may set back.  A second has Second ticks (1000 in the code), and tokens *)
(* are counted in parts of 1/Second, so that the arithmetic is exact; the  *)
(* rounding of floating point is left out.  A key that has no bucket yet   *)
(* is one with a full bucket: both give the next request Capacity tokens.  *)
(*                                                                         *)
(* Variables marked (history) are read by no guard but that of a bound.    *)
(***************************************************************************)
EXTENDS Integers

CONSTANTS Key,              \* whom the requests are counted for
          Capacity,         \* options.capacity
          RefillPerSecond,  \* options.refillPerSecond
          Second,           \* ticks of the clock in a second
          LastInstant,      \* BOUND: readings of the clock
          MaxElapsed        \* BOUND: time in one window of observation

ASSUME RateAssumption ==
    /\ Capacity \in Nat \ {0}
    /\ RefillPerSecond \in Nat \ {0}
    /\ Second \in Nat \ {0}
    /\ LastInstant \in Nat
    /\ MaxElapsed \in Nat

VARIABLES buckets,    \* the map of createTokenBucketMiddleware
          now,        \* options.now()
          admitted,   \* requests let through in the window observed (history)
          elapsed,    \* forward movement of the clock in that window (history)
          refusedAt   \* first 429 since the last admission (history)

rateVars == <<buckets, now, admitted, elapsed, refusedAt>>

Full == Capacity * Second
NotRefused == -1
FreshBucket == [tokens |-> Full, updatedAt |-> 0]

RateTypeOK ==
    /\ buckets \in [Key -> [tokens : 0..Full, updatedAt : Nat]]
    /\ now \in Nat
    /\ admitted \in [Key -> Nat]
    /\ elapsed \in [Key -> Nat]
    /\ refusedAt \in [Key -> Nat \cup {NotRefused}]

RateInit ==
    /\ buckets = [k \in Key |-> FreshBucket]
    /\ now = 0
    /\ admitted = [k \in Key |-> 0]
    /\ elapsed = [k \in Key |-> 0]
    /\ refusedAt = [k \in Key |-> NotRefused]

-----------------------------------------------------------------------------
(* The middleware. *)

\* Mutation: the time since the last request is not cut at zero, so that a
\* clock set back takes tokens away.
BugRefill(k) == (now - buckets[k].updatedAt) * RefillPerSecond

Refill(k) ==
    IF now > buckets[k].updatedAt
    THEN (now - buckets[k].updatedAt) * RefillPerSecond ELSE 0

Available(k) ==
    IF buckets[k].tokens + Refill(k) < Full
    THEN buckets[k].tokens + Refill(k) ELSE Full

\* Mutation: the instant of the bucket stays behind, and its time counts twice.
BugStored(k, tokens) == [buckets EXCEPT ![k].tokens = tokens]

Stored(k, tokens) == [buckets EXCEPT ![k] = [tokens |-> tokens, updatedAt |-> now]]

Admit(k) ==
    /\ Available(k) >= Second
    /\ buckets' = Stored(k, Available(k) - Second)
    /\ admitted' = [admitted EXCEPT ![k] = @ + 1]
    /\ refusedAt' = [refusedAt EXCEPT ![k] = NotRefused]
    /\ UNCHANGED <<now, elapsed>>

\* 429 with "Retry-After: 1"
Refuse(k) ==
    /\ Available(k) < Second
    /\ buckets' = Stored(k, Available(k))
    /\ refusedAt' = [refusedAt EXCEPT ![k] = IF @ = NotRefused THEN now ELSE @]
    /\ UNCHANGED <<now, admitted, elapsed>>

\* A new process: the buckets were in memory.
FreshLimiter ==
    /\ buckets' = [k \in Key |-> FreshBucket]
    /\ admitted' = [k \in Key |-> 0]
    /\ elapsed' = [k \in Key |-> 0]
    /\ refusedAt' = [k \in Key |-> NotRefused]
    /\ UNCHANGED now

-----------------------------------------------------------------------------
(* The clock, and the windows in which admissions are counted. *)

ClockAdvances ==
    \E t \in now+1 .. LastInstant :
        /\ \A k \in Key : elapsed[k] + (t - now) <= MaxElapsed
        /\ now' = t
        /\ elapsed' = [k \in Key |-> elapsed[k] + (t - now)]
        /\ UNCHANGED <<buckets, admitted, refusedAt>>

\* The clock is set back; what was promised before it was is off.
ClockStepsBack ==
    \E t \in 0 .. now-1 :
        /\ now' = t
        /\ refusedAt' = [k \in Key |-> NotRefused]
        /\ UNCHANGED <<buckets, admitted, elapsed>>

\* A window begins at any moment (history).
WindowBegins(k) ==
    /\ admitted' = [admitted EXCEPT ![k] = 0]
    /\ elapsed' = [elapsed EXCEPT ![k] = 0]
    /\ UNCHANGED <<buckets, now, refusedAt>>

RateNext ==
    \/ \E k \in Key : Admit(k) \/ Refuse(k) \/ WindowBegins(k)
    \/ ClockAdvances
    \/ ClockStepsBack
    \/ FreshLimiter

RateSpec == RateInit /\ [][RateNext]_rateVars

-----------------------------------------------------------------------------
(* Properties. *)

\* In any window, a key is let through at most Capacity requests and what the
\* forward movement of the clock refills, however often it is set back.
AdmissionBounded ==
    \A k \in Key : admitted[k] * Second <= Full + RefillPerSecond * elapsed[k]

\* "Retry-After: 1" is kept: a request that comes a second after a refusal is
\* not refused again, whatever was tried meanwhile, unless one was let through
\* or the clock was set back.
RetryAfterSuffices ==
    [][\A k \in Key :
          Refuse(k) => \/ refusedAt[k] = NotRefused
                       \/ now < refusedAt[k] + Second]_rateVars
=============================================================================
