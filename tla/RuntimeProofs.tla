----------------------------- MODULE RuntimeProofs -----------------------------
(***************************************************************************)
(* The limiter first: what the token bucket promises, for every capacity,  *)
(* refill and clock that may be set back at any time.  Both promises       *)
(* follow from what a bucket holds.  Its tokens, with the refill that is   *)
(* due, never exceed what the window has left; and they are never less     *)
(* than what the time since the first refusal has refilled.                *)
(*                                                                         *)
(* Then the runtime: one process at a time owns the data directory, for    *)
(* any number of processes, signals and requests, and the limiter of each  *)
(* process keeps its promises, since a step of the runtime is a step of    *)
(* the limiter or leaves it alone.                                         *)
(***************************************************************************)
EXTENDS Runtime, TLAPS

\* What is available and what was admitted is covered by the window.
WithinBudget(k) ==
    Available(k) + Second * admitted[k] <= Full + RefillPerSecond * elapsed[k]

\* Since the first refusal nothing of the refill was lost.
RefillKept(k) ==
    refusedAt[k] # NotRefused =>
        /\ refusedAt[k] <= buckets[k].updatedAt
        /\ buckets[k].updatedAt <= now
        /\ \/ buckets[k].tokens >= Full
           \/ buckets[k].tokens >=
                (buckets[k].updatedAt - refusedAt[k]) * RefillPerSecond

RateInv == RateTypeOK /\ \A k \in Key : WithinBudget(k) /\ RefillKept(k)

-----------------------------------------------------------------------------
\* The refill of a sum of times is the sum of the refills, and a longer time
\* refills no less.
LEMMA RefillAdds ==
    \A a, b \in Int : (a + b) * RefillPerSecond = a * RefillPerSecond + b * RefillPerSecond
  BY RateAssumption

LEMMA RefillGrows ==
    \A a, b \in Int : a <= b => a * RefillPerSecond <= b * RefillPerSecond
  BY RateAssumption

LEMMA FullIsPositive == Full \in Nat /\ Full >= Second /\ Full > 0
<1>1. Capacity * Second >= Second
  BY RateAssumption
<1> QED BY <1>1, RateAssumption DEF Full

\* The middleware never reads more tokens than a full bucket has.
LEMMA AvailableBounded ==
    ASSUME RateTypeOK, NEW k \in Key
    PROVE  /\ Refill(k) \in Nat
           /\ Available(k) \in 0..Full
           /\ Available(k) <= buckets[k].tokens + Refill(k)
           /\ Available(k) = Full \/ Available(k) = buckets[k].tokens + Refill(k)
<1>1. /\ now \in Nat
      /\ buckets[k].updatedAt \in Nat
      /\ buckets[k].tokens \in 0..Full
  BY DEF RateTypeOK
<1>2. Refill(k) \in Nat
  BY <1>1, RateAssumption DEF Refill
<1> QED BY <1>1, <1>2, FullIsPositive DEF Available

\* What a request finds does not depend on the requests of other keys.
LEMMA OtherKeys ==
    ASSUME NEW k \in Key, now' = now, buckets'[k] = buckets[k]
    PROVE  Available(k)' = Available(k)
  BY DEF Available, Refill

\* A bucket written now offers exactly what was written.
LEMMA WrittenBucket ==
    ASSUME RateTypeOK, NEW k \in Key, NEW t \in 0..Full,
           now' = now, buckets' = Stored(k, t)
    PROVE  /\ buckets'[k] = [tokens |-> t, updatedAt |-> now]
           /\ \A j \in Key \ {k} : buckets'[j] = buckets[j]
           /\ buckets' \in [Key -> [tokens : 0..Full, updatedAt : Nat]]
           /\ Available(k)' = t
<1>1. buckets'[k] = [tokens |-> t, updatedAt |-> now]
  BY DEF RateTypeOK, Stored
<1>2. \A j \in Key \ {k} : buckets'[j] = buckets[j]
  BY DEF RateTypeOK, Stored
<1>3. buckets' \in [Key -> [tokens : 0..Full, updatedAt : Nat]]
  BY DEF RateTypeOK, Stored
<1>4. Refill(k)' = 0
  BY <1>1 DEF Refill, RateTypeOK
<1>5. Available(k)' = t
  BY <1>1, <1>4, FullIsPositive DEF Available
<1> QED BY <1>1, <1>2, <1>3, <1>5

-----------------------------------------------------------------------------
(* One lemma for each step. *)

LEMMA RateInitial == RateInit => RateInv
<1> SUFFICES ASSUME RateInit PROVE RateInv
  OBVIOUS
<1>1. RateTypeOK
  BY FullIsPositive DEF RateInit, RateTypeOK, FreshBucket
<1>2. ASSUME NEW k \in Key PROVE WithinBudget(k) /\ RefillKept(k)
  <2>1. Available(k) \in 0..Full
    BY <1>1, AvailableBounded
  <2>2. RefillPerSecond * elapsed[k] = 0 /\ Second * admitted[k] = 0
    BY RateAssumption DEF RateInit
  <2>3. WithinBudget(k)
    BY <2>1, <2>2, FullIsPositive DEF WithinBudget
  <2>4. RefillKept(k)
    BY DEF RateInit, RefillKept
  <2> QED BY <2>3, <2>4
<1> QED BY <1>1, <1>2 DEF RateInv

LEMMA AdmitKeeps ==
    ASSUME RateInv, NEW k \in Key, Admit(k) PROVE RateInv'
<1> USE DEF RateInv
<1>1. /\ Available(k) \in 0..Full
      /\ Available(k) - Second \in 0..Full
  BY AvailableBounded, RateAssumption, FullIsPositive DEF Admit
<1>2. /\ buckets' = Stored(k, Available(k) - Second)
      /\ now' = now /\ elapsed' = elapsed
      /\ admitted' = [admitted EXCEPT ![k] = @ + 1]
      /\ refusedAt' = [refusedAt EXCEPT ![k] = NotRefused]
  BY DEF Admit
<1>3. /\ \A j \in Key \ {k} : buckets'[j] = buckets[j]
      /\ buckets' \in [Key -> [tokens : 0..Full, updatedAt : Nat]]
      /\ Available(k)' = Available(k) - Second
  BY <1>1, <1>2, WrittenBucket
<1>4. RateTypeOK'
  BY <1>2, <1>3, FullIsPositive DEF RateTypeOK
<1>5. ASSUME NEW j \in Key PROVE WithinBudget(j)' /\ RefillKept(j)'
  <2>1. CASE j = k
    <3>1. admitted[k] \in Nat /\ admitted'[k] = admitted[k] + 1
      BY <1>2 DEF RateTypeOK
    <3>2. Second * (admitted[k] + 1) = Second * admitted[k] + Second
      BY <3>1, RateAssumption
    <3>3. Second * admitted[k] \in Int /\ RefillPerSecond * elapsed[k] \in Int
      BY <3>1, RateAssumption DEF RateTypeOK
    <3>4. WithinBudget(k)'
      BY <1>1, <1>2, <1>3, <3>1, <3>2, <3>3, RateAssumption, FullIsPositive DEF WithinBudget, Full
    <3>5. RefillKept(k)'
      BY <1>2 DEF RefillKept, RateTypeOK
    <3> QED BY <2>1, <3>4, <3>5
  <2>2. CASE j # k
    <3>1. /\ buckets'[j] = buckets[j] /\ admitted'[j] = admitted[j]
          /\ refusedAt'[j] = refusedAt[j]
      BY <1>2, <1>3, <2>2 DEF RateTypeOK
    <3>2. Available(j)' = Available(j)
      BY <1>2, <3>1, OtherKeys
    <3> QED BY <1>2, <3>1, <3>2 DEF WithinBudget, RefillKept, Full
  <2> QED BY <2>1, <2>2
<1> QED BY <1>4, <1>5

LEMMA RefuseKeeps ==
    ASSUME RateInv, NEW k \in Key, Refuse(k) PROVE RateInv'
<1> USE DEF RateInv
<1>1. /\ Available(k) \in 0..Full
      /\ Available(k) = Full \/ Available(k) = buckets[k].tokens + Refill(k)
  BY AvailableBounded
<1>2. /\ buckets' = Stored(k, Available(k))
      /\ now' = now /\ elapsed' = elapsed /\ admitted' = admitted
      /\ refusedAt' = [refusedAt EXCEPT ![k] = IF @ = NotRefused THEN now ELSE @]
  BY DEF Refuse
<1>3. /\ buckets'[k] = [tokens |-> Available(k), updatedAt |-> now]
      /\ \A j \in Key \ {k} : buckets'[j] = buckets[j]
      /\ buckets' \in [Key -> [tokens : 0..Full, updatedAt : Nat]]
      /\ Available(k)' = Available(k)
  BY <1>1, <1>2, WrittenBucket
<1>4. RateTypeOK'
  BY <1>2, <1>3, FullIsPositive DEF RateTypeOK
<1>5. RefillKept(k)'
  <2>1. CASE refusedAt[k] = NotRefused
    <3>1. refusedAt'[k] = now /\ buckets'[k].updatedAt = now
          /\ buckets'[k].tokens = Available(k) /\ now \in Nat
      BY <1>2, <1>3, <2>1 DEF RateTypeOK
    <3>2. (now - now) * RefillPerSecond = 0
      BY <3>1, RateAssumption
    <3> QED BY <1>1, <1>2, <3>1, <3>2 DEF RefillKept
  <2>2. CASE refusedAt[k] # NotRefused
    <3> DEFINE r == refusedAt[k]
               u == buckets[k].updatedAt
    <3>1. /\ refusedAt'[k] = r /\ buckets'[k].updatedAt = now
          /\ buckets'[k].tokens = Available(k)
          /\ r \in Nat /\ u \in Nat /\ now \in Nat /\ buckets[k].tokens \in 0..Full
      BY <1>2, <1>3, <2>2 DEF RateTypeOK
    <3>2. r <= u /\ u <= now /\ (buckets[k].tokens >= Full
                                  \/ buckets[k].tokens >= (u - r) * RefillPerSecond)
      BY <2>2 DEF RefillKept
    <3>3. Refill(k) = (now - u) * RefillPerSecond
      <4>1. CASE now > u
        BY <4>1 DEF Refill
      <4>2. CASE now = u
        BY <4>2, <3>1, RateAssumption DEF Refill
      <4> QED BY <4>1, <4>2, <3>1, <3>2
    <3> HIDE DEF r, u
    <3>4. ((now - u) + (u - r)) * RefillPerSecond
            = (now - u) * RefillPerSecond + (u - r) * RefillPerSecond
      <4>1. (now - u) \in Int /\ (u - r) \in Int
        BY <3>1
      <4> QED BY <4>1, RefillAdds, Zenon
    <3>5. (now - u) + (u - r) = now - r
      BY <3>1
    <3>6. Refill(k) \in Nat /\ (u - r) * RefillPerSecond \in Int
          /\ (now - r) * RefillPerSecond = Refill(k) + (u - r) * RefillPerSecond
      BY <3>1, <3>3, <3>4, <3>5, RateAssumption, AvailableBounded
    <3>7. Available(k) >= Full \/ Available(k) >= (now - r) * RefillPerSecond
      BY <1>1, <3>1, <3>2, <3>6, FullIsPositive
    <3> QED BY <1>2, <3>1, <3>2, <3>7 DEF RefillKept, Full
  <2> QED BY <2>1, <2>2
<1>6. ASSUME NEW j \in Key PROVE WithinBudget(j)' /\ RefillKept(j)'
  <2>1. CASE j = k
    BY <1>2, <1>3, <1>5, <2>1 DEF WithinBudget, Full
  <2>2. CASE j # k
    <3>1. buckets'[j] = buckets[j] /\ refusedAt'[j] = refusedAt[j]
      BY <1>2, <1>3, <2>2 DEF RateTypeOK
    <3>2. Available(j)' = Available(j)
      BY <1>2, <3>1, OtherKeys
    <3> QED BY <1>2, <3>1, <3>2 DEF WithinBudget, RefillKept, Full
  <2> QED BY <2>1, <2>2
<1> QED BY <1>4, <1>6

LEMMA FreshKeeps == ASSUME RateInv, FreshLimiter PROVE RateInv'
<1>1. RateTypeOK'
  BY FullIsPositive DEF RateInv, RateTypeOK, FreshLimiter, FreshBucket
<1>2. ASSUME NEW k \in Key PROVE WithinBudget(k)' /\ RefillKept(k)'
  <2>1. Refill(k)' \in Nat /\ buckets'[k].tokens = Full
    BY <1>1, RateAssumption DEF Refill, RateTypeOK, FreshLimiter, FreshBucket
  <2>2. Available(k)' = Full
    BY <2>1, FullIsPositive DEF Available, Full
  <2>3. /\ (RefillPerSecond * elapsed[k])' = 0
        /\ (Second * admitted[k])' = 0
    BY RateAssumption DEF FreshLimiter
  <2>4. WithinBudget(k)'
    BY <2>2, <2>3, FullIsPositive DEF WithinBudget, Full
  <2>5. RefillKept(k)'
    BY DEF FreshLimiter, RefillKept
  <2> QED BY <2>4, <2>5
<1> QED BY <1>1, <1>2 DEF RateInv

LEMMA WindowKeeps ==
    ASSUME RateInv, NEW w \in Key, WindowBegins(w) PROVE RateInv'
<1>1. RateTypeOK'
  BY DEF RateInv, RateTypeOK, WindowBegins
<1>2. ASSUME NEW k \in Key PROVE WithinBudget(k)' /\ RefillKept(k)'
  <2>1. Available(k)' = Available(k) /\ Available(k) \in 0..Full
    BY OtherKeys, AvailableBounded DEF RateInv, WindowBegins
  <2>2. CASE k = w
    <3>1. /\ (RefillPerSecond * elapsed[k])' = 0
          /\ (Second * admitted[k])' = 0
      BY <2>2, RateAssumption DEF RateInv, RateTypeOK, WindowBegins
    <3>2. WithinBudget(k)'
      BY <2>1, <3>1, FullIsPositive DEF WithinBudget, Full
    <3> QED BY <3>2 DEF RateInv, WindowBegins, RefillKept
  <2>3. CASE k # w
    <3>1. elapsed'[k] = elapsed[k] /\ admitted'[k] = admitted[k]
      BY <2>3 DEF RateInv, RateTypeOK, WindowBegins
    <3>2. WithinBudget(k)'
      BY <2>1, <3>1 DEF RateInv, WithinBudget, Full
    <3> QED BY <3>2 DEF RateInv, WindowBegins, RefillKept
  <2> QED BY <2>2, <2>3
<1> QED BY <1>1, <1>2 DEF RateInv

LEMMA StepBackKeeps == ASSUME RateInv, ClockStepsBack PROVE RateInv'
<1>1. PICK t \in 0 .. now-1 :
        /\ now' = t
        /\ refusedAt' = [k \in Key |-> NotRefused]
        /\ UNCHANGED <<buckets, admitted, elapsed>>
  BY DEF ClockStepsBack
<1>2. RateTypeOK'
  BY <1>1 DEF RateInv, RateTypeOK
<1>3. ASSUME NEW k \in Key PROVE WithinBudget(k)' /\ RefillKept(k)'
  <2>0. PICK u \in Nat : u = buckets[k].updatedAt
    BY DEF RateInv, RateTypeOK
  <2>1. now \in Nat /\ t \in Nat /\ t <= now
        /\ u = buckets[k].updatedAt /\ buckets'[k].updatedAt = u
    BY <1>1, <2>0 DEF RateInv, RateTypeOK
  <2>2. Refill(k)' <= Refill(k)
    <3>1. CASE t > u
      <4>1. Refill(k)' = (t - u) * RefillPerSecond
        BY <1>1, <2>1, <3>1 DEF Refill
      <4>2. Refill(k) = (now - u) * RefillPerSecond
        BY <2>1, <3>1 DEF Refill
      <4>3. t - u \in Int /\ now - u \in Int /\ t - u <= now - u
        BY <2>1
      <4> QED BY <4>1, <4>2, <4>3, RefillGrows
    <3>2. CASE t <= u
      <4>1. Refill(k)' = 0
        BY <1>1, <2>1, <3>2 DEF Refill
      <4> QED BY <4>1, AvailableBounded DEF RateInv
    <3> QED BY <2>1, <3>1, <3>2
  <2>3. Refill(k)' \in Nat /\ Refill(k) \in Nat
    <3>1. Refill(k)' = IF t > u THEN (t - u) * RefillPerSecond ELSE 0
      BY <1>1, <2>1 DEF Refill
    <3>2. t > u => (t - u) * RefillPerSecond \in Nat
      BY <2>1, RateAssumption
    <3> QED BY <3>1, <3>2, AvailableBounded DEF RateInv
  <2>4. Available(k)' <= Available(k) /\ Available(k)' \in Int /\ Available(k) \in Int
    BY <1>1, <2>2, <2>3, FullIsPositive DEF Available, RateInv, RateTypeOK, Full
  <2>5. admitted[k] \in Nat /\ elapsed[k] \in Nat /\ WithinBudget(k)
    BY DEF RateInv, RateTypeOK
  <2>6. Second * admitted[k] \in Int /\ RefillPerSecond * elapsed[k] \in Int
    BY <2>5, RateAssumption
  <2>7. WithinBudget(k)'
    BY <1>1, <2>4, <2>5, <2>6, FullIsPositive DEF WithinBudget, Full
  <2> QED BY <1>1, <2>7 DEF RefillKept
<1> QED BY <1>2, <1>3 DEF RateInv

LEMMA AdvanceKeeps == ASSUME RateInv, ClockAdvances PROVE RateInv'
<1>1. PICK t \in now+1 .. LastInstant :
        /\ now' = t
        /\ elapsed' = [k \in Key |-> elapsed[k] + (t - now)]
        /\ UNCHANGED <<buckets, admitted, refusedAt>>
  BY DEF ClockAdvances
<1>2. RateTypeOK'
  BY <1>1, RateAssumption DEF RateInv, RateTypeOK
<1>3. PICK d \in Nat : d = t - now
  BY <1>1, RateAssumption DEF RateInv, RateTypeOK
<1>4. d * RefillPerSecond \in Nat /\ now \in Nat /\ t \in Nat /\ t = now + d
  BY <1>1, <1>3, RateAssumption DEF RateInv, RateTypeOK
<1>5. ASSUME NEW k \in Key PROVE WithinBudget(k)' /\ RefillKept(k)'
  <2>0. PICK u \in Nat : u = buckets[k].updatedAt
    BY DEF RateInv, RateTypeOK
  <2>1. u = buckets[k].updatedAt /\ buckets'[k].updatedAt = u
    BY <1>1, <2>0 DEF RateInv, RateTypeOK
  <2>2. Refill(k) \in Nat /\ Refill(k)' \in Nat
    <3>1. Refill(k)' = IF t > u THEN (t - u) * RefillPerSecond ELSE 0
      BY <1>1, <2>1 DEF Refill
    <3>2. t > u => (t - u) * RefillPerSecond \in Nat
      BY <1>4, <2>1, RateAssumption
    <3> QED BY <3>1, <3>2, AvailableBounded DEF RateInv
  <2>3. Refill(k)' <= Refill(k) + d * RefillPerSecond
    <3>1. CASE now > u
      <4>0. PICK n \in Nat : n = now
        BY <1>4
      <4>1. Refill(k) = (n - u) * RefillPerSecond
        BY <2>1, <3>1, <4>0 DEF Refill
      <4>2. Refill(k)' = (t - u) * RefillPerSecond
        BY <1>1, <1>4, <2>1, <3>1 DEF Refill
      <4>3. ((n - u) + d) * RefillPerSecond
              = (n - u) * RefillPerSecond + d * RefillPerSecond
        BY RefillAdds
      <4>4. t - u = (n - u) + d
        BY <1>4, <2>1, <4>0
      <4> QED BY <2>2, <1>4, <4>1, <4>2, <4>3, <4>4
    <3>2. CASE now <= u /\ t > u
      <4>1. Refill(k)' = (t - u) * RefillPerSecond
        BY <1>1, <2>1, <3>2 DEF Refill
      <4>2. t - u \in Int /\ d \in Int /\ t - u <= d
        BY <1>4, <2>1, <3>2
      <4>3. (t - u) * RefillPerSecond <= d * RefillPerSecond
        BY <4>2, RefillGrows
      <4> QED BY <1>4, <2>2, <4>1, <4>3
    <3>3. CASE t <= u
      <4>1. Refill(k)' = 0
        BY <1>1, <2>1, <3>3 DEF Refill
      <4> QED BY <1>4, <2>2, <4>1
    <3> QED BY <1>4, <2>1, <3>1, <3>2, <3>3
  <2>4. /\ Available(k)' <= Available(k) + d * RefillPerSecond
        /\ Available(k)' \in Int /\ Available(k) \in Int
    BY <1>1, <1>4, <2>2, <2>3, FullIsPositive DEF Available, RateInv, RateTypeOK, Full
  <2>5. admitted[k] \in Nat /\ elapsed[k] \in Nat /\ WithinBudget(k)
    BY DEF RateInv, RateTypeOK
  <2>6. RefillPerSecond * (elapsed[k] + d) = RefillPerSecond * elapsed[k] + d * RefillPerSecond
    BY <2>5, RateAssumption
  <2>7. Second * admitted[k] \in Int /\ RefillPerSecond * elapsed[k] \in Int
    BY <2>5, RateAssumption
  <2>8. elapsed'[k] = elapsed[k] + d /\ admitted'[k] = admitted[k]
    BY <1>1, <1>3
  <2>9. WithinBudget(k)'
    BY <1>4, <2>4, <2>5, <2>6, <2>7, <2>8, FullIsPositive DEF WithinBudget, Full
  <2>10. RefillKept(k)'
    BY <1>1, <1>4, <2>1 DEF RateInv, RateTypeOK, RefillKept, Full
  <2> QED BY <2>9, <2>10
<1> QED BY <1>2, <1>5 DEF RateInv

LEMMA RateStep == RateInv /\ [RateNext]_rateVars => RateInv'
<1> SUFFICES ASSUME RateInv, [RateNext]_rateVars PROVE RateInv'
  OBVIOUS
<1>1. CASE \E k \in Key : Admit(k) \/ Refuse(k) \/ WindowBegins(k)
  BY <1>1, AdmitKeeps, RefuseKeeps, WindowKeeps
<1>2. CASE ClockAdvances
  BY <1>2, AdvanceKeeps
<1>3. CASE ClockStepsBack
  BY <1>3, StepBackKeeps
<1>4. CASE FreshLimiter
  BY <1>4, FreshKeeps
<1>5. CASE UNCHANGED rateVars
  BY <1>5 DEF rateVars, RateInv, RateTypeOK, WithinBudget, RefillKept,
              Available, Refill, Full
<1> QED BY <1>1, <1>2, <1>3, <1>4, <1>5 DEF RateNext

-----------------------------------------------------------------------------
\* Admissions never exceed the bucket and what the clock refills.
LEMMA BudgetBoundsAdmissions == RateInv => AdmissionBounded
<1> SUFFICES ASSUME RateInv, NEW k \in Key
             PROVE  admitted[k] * Second <= Full + RefillPerSecond * elapsed[k]
  BY DEF AdmissionBounded
<1>1. /\ Available(k) \in Nat
      /\ admitted[k] \in Nat /\ elapsed[k] \in Nat
      /\ Available(k) + Second * admitted[k] <= Full + RefillPerSecond * elapsed[k]
  BY AvailableBounded, FullIsPositive DEF RateInv, RateTypeOK, WithinBudget
<1>2. Second * admitted[k] = admitted[k] * Second
  BY <1>1, RateAssumption
<1>3. Second * admitted[k] \in Int /\ RefillPerSecond * elapsed[k] \in Int
  BY <1>1, RateAssumption
<1> QED BY <1>1, <1>2, <1>3, FullIsPositive

\* A refusal finds less than a second's refill since the first one.
LEMMA RefusalIsRecent ==
    ASSUME RateInv, NEW k \in Key, Refuse(k), refusedAt[k] # NotRefused
    PROVE  now < refusedAt[k] + Second
<1>1. PICK r \in Nat, u \in Nat, n \in Nat, x \in 0..Full :
         r = refusedAt[k] /\ u = buckets[k].updatedAt /\ n = now /\ x = buckets[k].tokens
  BY DEF RateInv, RateTypeOK
<1>2. r <= u /\ u <= n /\ (x >= Full \/ x >= (u - r) * RefillPerSecond)
  BY <1>1 DEF RateInv, RefillKept
<1> SUFFICES ASSUME n >= r + Second PROVE FALSE
  BY <1>1, RateAssumption
<1>3. Refill(k) = (n - u) * RefillPerSecond
  <2>1. CASE n > u
    BY <1>1, <2>1 DEF Refill
  <2>2. CASE n = u
    BY <1>1, <2>2, RateAssumption DEF Refill
  <2> QED BY <1>2, <2>1, <2>2
<1>4. (n - u) * RefillPerSecond + (u - r) * RefillPerSecond = (n - r) * RefillPerSecond
  <2>1. ((n - u) + (u - r)) * RefillPerSecond
          = (n - u) * RefillPerSecond + (u - r) * RefillPerSecond
    BY RefillAdds
  <2>2. (n - u) + (u - r) = n - r
    OBVIOUS
  <2> QED BY <2>1, <2>2
<1>5. Second * RefillPerSecond <= (n - r) * RefillPerSecond
  <2>1. Second \in Int /\ n - r \in Int /\ Second <= n - r
    BY RateAssumption
  <2> QED BY <2>1, RefillGrows
<1>6. Second <= Second * RefillPerSecond
  BY RateAssumption
<1>7. /\ Refill(k) \in Nat
      /\ Available(k) = Full \/ Available(k) = x + Refill(k)
      /\ Available(k) \in 0..Full
  BY <1>1, AvailableBounded DEF RateInv
<1>8. (u - r) * RefillPerSecond \in Int /\ (n - r) * RefillPerSecond \in Int
      /\ Second * RefillPerSecond \in Int
  BY RateAssumption
<1>9. Available(k) >= Second
  <2>1. CASE Available(k) = Full
    BY <2>1, FullIsPositive
  <2>2. CASE Available(k) = x + Refill(k) /\ x >= Full
    BY <2>2, <1>7, FullIsPositive, RateAssumption
  <2>3. CASE Available(k) = x + Refill(k) /\ x >= (u - r) * RefillPerSecond
    <3>1. x + Refill(k) >= (n - r) * RefillPerSecond
      BY <2>3, <1>3, <1>4, <1>7, <1>8
    <3> QED BY <3>1, <2>3, <1>5, <1>6, <1>7, <1>8, RateAssumption
  <2> QED BY <1>2, <1>7, <2>1, <2>2, <2>3
<1> QED BY <1>7, <1>9, RateAssumption, FullIsPositive DEF Refuse

\* The limiter keeps its invariant whatever the clock does.
THEOREM RateInvariant == RateSpec => []RateInv
  BY RateInitial, RateStep, PTL DEF RateSpec

\* In any window, at most the capacity and the refill are let through.
THEOREM AdmissionsAreBounded == RateSpec => []AdmissionBounded
  BY RateInvariant, BudgetBoundsAdmissions, PTL

\* "Retry-After: 1" is kept.
THEOREM RetryAfterIsKept == RateSpec => RetryAfterSuffices
<1>1. RateInv /\ [RateNext]_rateVars =>
        [\A k \in Key :
            Refuse(k) => \/ refusedAt[k] = NotRefused
                         \/ now < refusedAt[k] + Second]_rateVars
  BY RefusalIsRecent
<1> QED BY <1>1, RateInvariant, PTL DEF RateSpec, RetryAfterSuffices

-----------------------------------------------------------------------------
\* The owner holds the lock, alone: no other process could acquire it.  The rest
\* are the types the argument needs.
OwnerInv ==
    /\ phase \in [Process -> Phase]
    /\ lock \in BOOLEAN
    /\ abandoned \in BOOLEAN
    /\ open \in [Process -> Nat]
    /\ idle \in [Process -> Nat]
    /\ ExclusiveOwner
    /\ LockAccountedFor

Clients(p) == open[p] + idle[p] > 0

LEMMA OwnerInitial == RuntimeInit => OwnerInv
<1> SUFFICES ASSUME RuntimeInit PROVE OwnerInv
  OBVIOUS
<1>1. /\ phase = [p \in Process |-> "off"]
      /\ open = [p \in Process |-> 0] /\ idle = [p \in Process |-> 0]
      /\ lock = FALSE /\ abandoned = FALSE
  BY DEF RuntimeInit
<1>2. phase \in [Process -> Phase] /\ open \in [Process -> Nat] /\ idle \in [Process -> Nat]
  BY <1>1 DEF Phase
<1>3. \A p \in Process : ~Owns(p) /\ ~Clients(p)
  BY <1>1 DEF Owns, Clients
<1> QED BY <1>1, <1>2, <1>3 DEF OwnerInv, ExclusiveOwner, LockAccountedFor, Clients

-----------------------------------------------------------------------------
\* An owner that ends takes its connections with it; nobody owns after it.
LEMMA OwnerLeaves ==
    ASSUME OwnerInv, NEW p \in Process, Owns(p), NEW x \in {"off", "failed"},
           phase' = [phase EXCEPT ![p] = x],
           open' \in [Process -> Nat], idle' \in [Process -> Nat],
           \A q \in Process \ {p} : open'[q] = open[q] /\ idle'[q] = idle[q],
           ~Clients(p)'
    PROVE  /\ phase' \in [Process -> Phase]
           /\ \A q \in Process : ~Owns(q)' /\ ~Clients(q)'
           /\ ExclusiveOwner'
<1>1. phase' \in [Process -> Phase] /\ phase'[p] = x
  BY DEF OwnerInv, Phase
<1>2. ASSUME NEW q \in Process \ {p} PROVE ~Owns(q)' /\ ~Clients(q)'
  <2>1. ~Owns(q)
    BY DEF OwnerInv, ExclusiveOwner
  <2>2. phase'[q] = phase[q]
    BY DEF OwnerInv
  <2>3. ~Clients(q)
    BY <2>1 DEF OwnerInv, ExclusiveOwner, Clients, Owns, Answers
  <2> QED BY <2>1, <2>2, <2>3 DEF Owns, Clients
<1>3. ~Owns(p)'
  BY <1>1 DEF Owns
<1> QED BY <1>1, <1>2, <1>3 DEF ExclusiveOwner, Clients

\* A process that ends without releasing the lock leaves it marked as abandoned.
LEMMA AbandonKeeps ==
    ASSUME OwnerInv, NEW p \in Process, Abandon(p) PROVE OwnerInv'
<1>1. /\ Owns(p)
      /\ phase' = [phase EXCEPT ![p] = "off"]
      /\ open' = [open EXCEPT ![p] = 0] /\ idle' = [idle EXCEPT ![p] = 0]
      /\ abandoned' = TRUE /\ lock' = lock
  BY DEF Abandon
<1>2. /\ open' \in [Process -> Nat] /\ idle' \in [Process -> Nat]
      /\ open'[p] = 0 /\ idle'[p] = 0
      /\ \A q \in Process \ {p} : open'[q] = open[q] /\ idle'[q] = idle[q]
  BY <1>1 DEF OwnerInv
<1>3. lock
  BY <1>1 DEF OwnerInv, LockAccountedFor
<1>4. ~Clients(p)'
  BY <1>2 DEF Clients
<1>5. PICK x \in {"off", "failed"} : x = "off"
  OBVIOUS
<1>6. /\ phase' \in [Process -> Phase] /\ ExclusiveOwner'
      /\ \A q \in Process : ~Owns(q)'
  BY <1>1, <1>2, <1>4, <1>5, OwnerLeaves
<1> QED BY <1>1, <1>2, <1>3, <1>6 DEF OwnerInv, LockAccountedFor

\* A step that changes no owner, and gives connections to nobody but the owner,
\* keeps what is said of it.
LEMMA OwnerStays ==
    ASSUME OwnerInv, lock' = lock, abandoned' = abandoned,
           phase' \in [Process -> Phase],
           open' \in [Process -> Nat], idle' \in [Process -> Nat],
           \A p \in Process : Owns(p)' = Owns(p),
           \A p \in Process : Clients(p)' => Answers(p)'
    PROVE  OwnerInv'
<1>1. \A p \in Process : Answers(p)' => lock
  BY DEF Answers, Owns, OwnerInv, LockAccountedFor
<1> QED BY <1>1 DEF OwnerInv, ExclusiveOwner, LockAccountedFor, Clients

\* What a step of one process leaves alone.
LEMMA OthersStay ==
    ASSUME OwnerInv, NEW p \in Process, lock' = lock, abandoned' = abandoned,
           NEW x \in Phase, phase' = [phase EXCEPT ![p] = x],
           Owns(p) <=> x \in {"opening", "starting", "serving", "closing"},
           open' \in [Process -> Nat], idle' \in [Process -> Nat],
           \A q \in Process \ {p} : open'[q] = open[q] /\ idle'[q] = idle[q],
           Clients(p)' => x \in {"starting", "serving", "closing"}
    PROVE  OwnerInv'
<1>1. phase' \in [Process -> Phase] /\ phase'[p] = x
  BY DEF OwnerInv
<1>2. \A q \in Process \ {p} : phase'[q] = phase[q]
  BY DEF OwnerInv
<1>3. ASSUME NEW q \in Process PROVE Owns(q)' = Owns(q) /\ (Clients(q)' => Answers(q)')
  <2>1. CASE q = p
    BY <1>1, <2>1 DEF Owns, Answers
  <2>2. CASE q # p
    BY <1>2, <2>2 DEF Owns, Answers, Clients, OwnerInv, ExclusiveOwner
  <2> QED BY <2>1, <2>2
<1> QED BY <1>1, <1>3, OwnerStays

\* Connections come and go, as long as their process answers.
LEMMA ConnectionsChange ==
    ASSUME OwnerInv, NEW p \in Process, Answers(p),
           lock' = lock, abandoned' = abandoned, phase' = phase,
           \/ /\ open' = [open EXCEPT ![p] = @ + 1]
              /\ idle' = idle \/ (idle[p] > 0 /\ idle' = [idle EXCEPT ![p] = @ - 1])
           \/ /\ open[p] > 0 /\ open' = [open EXCEPT ![p] = @ - 1]
              /\ idle' = idle \/ idle' = [idle EXCEPT ![p] = @ + 1]
           \/ idle[p] > 0 /\ open' = open /\ idle' = [idle EXCEPT ![p] = @ - 1]
    PROVE  OwnerInv'
<1>1. open \in [Process -> Nat] /\ idle \in [Process -> Nat] /\ phase \in [Process -> Phase]
  BY DEF OwnerInv
<1>2. open' \in [Process -> Nat] /\ idle' \in [Process -> Nat]
  BY <1>1
<1>3. \A q \in Process \ {p} : open'[q] = open[q] /\ idle'[q] = idle[q]
  BY <1>1
<1>4. ASSUME NEW q \in Process PROVE Owns(q)' = Owns(q) /\ (Clients(q)' => Answers(q)')
  <2>1. CASE q = p
    BY <2>1 DEF Owns, Answers
  <2>2. CASE q # p
    BY <1>3, <2>2 DEF Owns, Answers, Clients, OwnerInv, ExclusiveOwner
  <2> QED BY <2>1, <2>2
<1> QED BY <1>1, <1>2, <1>4, OwnerStays

LEMMA OwnerStep == OwnerInv /\ [RuntimeNext]_runtimeVars => OwnerInv'
<1> SUFFICES ASSUME OwnerInv, [RuntimeNext]_runtimeVars PROVE OwnerInv'
  OBVIOUS
<1> USE DEF Phase
<1>0. /\ phase \in [Process -> Phase]
      /\ open \in [Process -> Nat] /\ idle \in [Process -> Nat]
  BY DEF OwnerInv
<1>1. ASSUME NEW p \in Process, AcquireLock(p) PROVE OwnerInv'
  <2>1. \A q \in Process : ~Owns(q) /\ ~Clients(q)
    BY <1>1 DEF AcquireLock, OwnerInv, ExclusiveOwner, LockAccountedFor, Clients
  <2>2. /\ phase' = [phase EXCEPT ![p] = "opening"]
        /\ lock' = TRUE /\ abandoned' = FALSE /\ open' = open /\ idle' = idle
    BY <1>1 DEF AcquireLock, connections
  <2>3. Owns(p)' /\ \A q \in Process \ {p} : ~Owns(q)'
    BY <1>0, <2>1, <2>2 DEF Owns
  <2>4. \A q \in Process : ~Clients(q)'
    BY <2>1, <2>2 DEF Clients
  <2> QED BY <1>0, <2>2, <2>3, <2>4 DEF OwnerInv, ExclusiveOwner, LockAccountedFor, Clients
<1>2. ASSUME NEW p \in Process, ConstructorFails(p) \/ FinishShutdown(p) PROVE OwnerInv'
  <2>1. PICK x \in {"off", "failed"} : phase' = [phase EXCEPT ![p] = x]
    BY <1>2 DEF ConstructorFails, FinishShutdown
  <2>2. /\ lock' = FALSE /\ abandoned' = abandoned /\ open' = open /\ idle' = idle
        /\ Owns(p)
    BY <1>2 DEF ConstructorFails, FinishShutdown, Owns, connections
  <2>3. ~abandoned
    BY <2>2 DEF OwnerInv, LockAccountedFor
  <2>4. ~Clients(p)'
    BY <1>0, <1>2, <2>2 DEF OwnerInv, ExclusiveOwner, ConstructorFails, FinishShutdown, Clients, Answers
  <2>5. /\ phase' \in [Process -> Phase] /\ ExclusiveOwner'
        /\ \A q \in Process : ~Owns(q)'
    BY <1>0, <2>1, <2>2, <2>4, OwnerLeaves
  <2> QED BY <1>0, <2>2, <2>3, <2>5 DEF OwnerInv, LockAccountedFor
<1>3. ASSUME NEW p \in Process, ProcessEnds(p) PROVE OwnerInv'
  <2>1. /\ phase' = [phase EXCEPT ![p] = "off"] /\ phase[p] = "failed"
        /\ lock' = lock /\ abandoned' = abandoned /\ open' = open /\ idle' = idle
    BY <1>3 DEF ProcessEnds, connections
  <2>2. ~Clients(p)' /\ ~Owns(p)
    BY <2>1 DEF OwnerInv, ExclusiveOwner, Clients, Answers, Owns
  <2>3. PICK x \in Phase : x = "off"
    OBVIOUS
  <2>4. x \notin {"opening", "starting", "serving", "closing"}
    BY <2>3
  <2> QED BY <1>0, <2>1, <2>2, <2>3, <2>4, OthersStay
<1>4. ASSUME NEW p \in Process, Constructed(p) \/ Listens(p) PROVE OwnerInv'
  <2>1. /\ Owns(p) /\ lock' = lock /\ abandoned' = abandoned
        /\ open' = open /\ idle' = idle
    BY <1>4 DEF Constructed, Listens, Owns, connections
  <2>2. PICK x \in {"starting", "serving"} : phase' = [phase EXCEPT ![p] = x]
    BY <1>4 DEF Constructed, Listens
  <2> QED BY <1>0, <2>1, <2>2, OthersStay
<1>5. ASSUME NEW p \in Process, ListenFails(p) \/ Kill(p) PROVE OwnerInv'
  BY <1>5, AbandonKeeps DEF ListenFails, Kill
<1>6. ASSUME NEW p \in Process, NEW s \in Signal, SignalArrives(p, s) PROVE OwnerInv'
  <2>1. CASE ShutDown(p, s)
    <3>1. /\ Owns(p) /\ lock' = lock /\ abandoned' = abandoned /\ open' = open
          /\ idle' = [idle EXCEPT ![p] = 0] /\ phase' = [phase EXCEPT ![p] = "closing"]
      BY <2>1 DEF ShutDown, Owns
    <3>2. idle' \in [Process -> Nat] /\ \A q \in Process \ {p} : idle'[q] = idle[q]
      BY <1>0, <3>1
    <3> QED BY <1>0, <3>1, <3>2, OthersStay
  <2>2. CASE CloseFails(p, s) \/ ExitWhileClosing(p, s) \/ DefaultAction(p, s)
    BY <2>2, AbandonKeeps DEF CloseFails, ExitWhileClosing, DefaultAction
  <2> QED BY <1>6, <2>1, <2>2 DEF SignalArrives
<1>7. ASSUME NEW p \in Process, Occupies(p) PROVE OwnerInv'
  <2>1. /\ Answers(p) /\ lock' = lock /\ abandoned' = abandoned /\ phase' = phase
        /\ open' = [open EXCEPT ![p] = @ + 1]
        /\ idle' = idle \/ (idle[p] > 0 /\ idle' = [idle EXCEPT ![p] = @ - 1])
    BY <1>7 DEF Occupies, Accepts, Answers
  <2> QED BY <2>1, ConnectionsChange
<1>8. ASSUME NEW p \in Process, RequestAnswered(p) \/ ConnectionEnds(p) \/ IdleEnds(p)
      PROVE  OwnerInv'
  <2>1. /\ lock' = lock /\ abandoned' = abandoned /\ phase' = phase
        /\ \/ /\ open[p] > 0 /\ open' = [open EXCEPT ![p] = @ - 1]
              /\ idle' = idle \/ idle' = [idle EXCEPT ![p] = @ + 1]
           \/ idle[p] > 0 /\ open' = open /\ idle' = [idle EXCEPT ![p] = @ - 1]
    BY <1>8 DEF RequestAnswered, ConnectionEnds, IdleEnds
  <2>2. Answers(p)
    BY <1>0, <2>1 DEF OwnerInv, ExclusiveOwner
  <2> QED BY <2>1, <2>2, ConnectionsChange
<1>9. CASE RemoveStaleLock
  <2>1. /\ lock' = FALSE /\ abandoned' = FALSE /\ phase' = phase
        /\ open' = open /\ idle' = idle
        /\ \A q \in Process : ~Owns(q)
    BY <1>9 DEF RemoveStaleLock, Running, Owns, connections
  <2>2. \A q \in Process : ~Owns(q)' /\ ~Clients(q)'
    BY <2>1 DEF Owns, Clients, OwnerInv, ExclusiveOwner, Answers
  <2> QED BY <1>0, <2>1, <2>2 DEF OwnerInv, ExclusiveOwner, LockAccountedFor, Clients
<1>10. CASE UNCHANGED processVars
  BY <1>10 DEF processVars, OwnerInv, ExclusiveOwner, LockAccountedFor, Owns, Answers
<1>11. ASSUME NEW p \in Process, NEW k \in Key, RequestArrives(p, k) \/ RequestRefused(p, k)
       PROVE  OwnerInv'
  BY <1>7, <1>11 DEF RequestArrives, RequestRefused
<1>12. ASSUME NEW p \in Process, LockIsHeld(p) \/ OtherArrives(p) PROVE OwnerInv'
  BY <1>7, <1>10, <1>12 DEF LockIsHeld, OtherArrives, runtimeVars
<1>13. CASE TimePasses
  BY <1>10, <1>13 DEF TimePasses
<1> QED BY <1>1, <1>2, <1>3, <1>4, <1>5, <1>6, <1>8, <1>9, <1>10, <1>11, <1>12, <1>13
        DEF RuntimeNext, runtimeVars

\* The lock keeps two processes from owning the data directory, although a start
\* that failed releases it before its process is gone.
THEOREM OwnerStaysExclusive == RuntimeSpec => []ExclusiveOwner
<1>1. OwnerInv => ExclusiveOwner
  BY DEF OwnerInv
<1> QED BY <1>1, OwnerInitial, OwnerStep, PTL DEF RuntimeSpec

\* The lock is released by every end of an owner but an abrupt one, and by
\* nobody else.
THEOREM LockStaysAccountedFor == RuntimeSpec => []LockAccountedFor
<1>1. OwnerInv => LockAccountedFor
  BY DEF OwnerInv
<1> QED BY <1>1, OwnerInitial, OwnerStep, PTL DEF RuntimeSpec

-----------------------------------------------------------------------------
\* Seen from the limiter, every step of the runtime is one of its own or none.
LEMMA RuntimeStepsLimit == [RuntimeNext]_runtimeVars => [RateNext]_rateVars
<1> SUFFICES ASSUME RuntimeNext PROVE RateNext \/ UNCHANGED rateVars
  BY DEF runtimeVars
<1>1. ASSUME NEW p \in Process, Constructed(p) PROVE RateNext
  BY <1>1 DEF Constructed, RateNext
<1>2. ASSUME NEW p \in Process, NEW k \in Key, RequestArrives(p, k) PROVE RateNext
  BY <1>2 DEF RequestArrives, RateNext
<1>3. ASSUME NEW p \in Process, NEW k \in Key, RequestRefused(p, k) PROVE RateNext
  BY <1>3 DEF RequestRefused, RateNext
<1>4. CASE TimePasses
  BY <1>4 DEF TimePasses, RateNext
<1>5. ASSUME NEW p \in Process,
             \/ AcquireLock(p) \/ LockIsHeld(p) \/ ConstructorFails(p) \/ ProcessEnds(p)
             \/ Listens(p) \/ ListenFails(p) \/ Kill(p) \/ FinishShutdown(p)
             \/ OtherArrives(p) \/ RequestAnswered(p) \/ ConnectionEnds(p) \/ IdleEnds(p)
      PROVE  UNCHANGED rateVars
  BY <1>5 DEF AcquireLock, LockIsHeld, ConstructorFails, ProcessEnds, Listens,
              ListenFails, Kill, FinishShutdown, OtherArrives, RequestAnswered,
              ConnectionEnds, IdleEnds, Abandon, runtimeVars
<1>6. ASSUME NEW p \in Process, NEW s \in Signal, SignalArrives(p, s)
      PROVE  UNCHANGED rateVars
  BY <1>6 DEF SignalArrives, ShutDown, CloseFails, ExitWhileClosing, DefaultAction, Abandon
<1>7. CASE RemoveStaleLock
  BY <1>7 DEF RemoveStaleLock
<1> QED BY <1>1, <1>2, <1>3, <1>4, <1>5, <1>6, <1>7 DEF RuntimeNext

\* The runtime implements the limiter, so the limiter's theorems hold of it.
THEOREM RuntimeLimits == RuntimeSpec => RateSpec
<1>1. RuntimeInit => RateInit
  BY DEF RuntimeInit
<1> QED BY <1>1, RuntimeStepsLimit, PTL DEF RuntimeSpec, RateSpec

\* In any window of any process, admissions are bounded.
THEOREM RuntimeAdmissionsAreBounded == RuntimeSpec => []AdmissionBounded
  BY RuntimeLimits, AdmissionsAreBounded, PTL
=============================================================================
