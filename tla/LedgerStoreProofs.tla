--------------------------- MODULE LedgerStoreProofs ---------------------------
(***************************************************************************)
(* Lemmas about the shared tables: what the SELECTs return when the ledger *)
(* is intact, and what the INSERT of a row keeps.  Every writer's proof    *)
(* cites them.                                                             *)
(***************************************************************************)
EXTENDS LedgerStore, SequenceTheorems, FiniteSetTheorems, WellFoundedInduction, TLAPS

-----------------------------------------------------------------------------
(* Extrema. *)

\* A set of naturals that is not empty has a least element: the well-foundedness
\* of < as a fact about sets, which the provers can use.
LEMMA LeastNatural ==
    ASSUME NEW S \in SUBSET Nat, S # {}
    PROVE  \E m \in S : \A y \in S : m <= y
<1>1. IsWellFoundedOn(OpToRel(<, Nat), Nat)
  BY NatLessThanWellFounded
<1>2. PICK m \in S : \A y \in S : <<y, m>> \notin OpToRel(<, Nat)
  BY <1>1, WFMin
<1>3. \A y \in S : ~(y < m)
  BY <1>2 DEF OpToRel
<1>4. \A y \in S : y \in Nat /\ m \in Nat
  OBVIOUS
<1> QED
  BY <1>3, <1>4

\* A bounded set of naturals that is not empty contains its Max: the least of
\* its bounds.
LEMMA BoundedHasMax ==
    ASSUME NEW S \in SUBSET Nat, S # {}, NEW n \in Nat, \A y \in S : y <= n
    PROVE  Max(S) \in S /\ \A y \in S : Max(S) >= y
<1> DEFINE B == {b \in Nat : \A y \in S : y <= b}
<1>1. PICK m \in B : \A b \in B : m <= b
  BY LeastNatural
<1>2. m \in S
  <2>1. SUFFICES ASSUME m \notin S PROVE FALSE
    OBVIOUS
  <2>2. \A y \in S : y < m
    BY <2>1
  <2>3. m \in Nat /\ \A y \in S : y \in Nat
    OBVIOUS
  <2>4. PICK y \in S : TRUE
    OBVIOUS
  <2>5. m - 1 \in Nat
    BY <2>2, <2>3, <2>4
  <2>6. \A z \in S : z <= m - 1
    BY <2>2, <2>3
  <2>7. m - 1 \in B
    BY <2>5, <2>6
  <2> QED
    BY <1>1, <2>3, <2>7
<1>3. \E x \in S : \A y \in S : x >= y
  <2>1. \A y \in S : y <= m /\ y \in Nat /\ m \in Nat
    OBVIOUS
  <2> QED
    BY <1>2, <2>1
<1> QED
  BY <1>3 DEF Max

-----------------------------------------------------------------------------
(* Facts about the SELECTs. *)

\* Max of FiniteSetsExt is the element that bounds the set.
LEMMA MaxIsTheBound ==
    ASSUME NEW S \in SUBSET Int, NEW m \in S, \A y \in S : m >= y
    PROVE  Max(S) = m
<1>1. ASSUME NEW x \in S, \A y \in S : x >= y
      PROVE  x = m
  <2>1. x >= m /\ m >= x /\ x \in Int /\ m \in Int
    BY <1>1
  <2> QED
    BY <2>1
<1> QED
  BY <1>1 DEF Max

\* COALESCE(MAX(server_sequence), 0) + 1 of a gapless ledger is the next
\* position (nextServerSequence).
LEMMA NextSequenceIsNextPosition ==
    ASSUME ledger \in Seq(Row), ChainIntact
    PROVE  NextServerSequence = Len(ledger) + 1
<1> DEFINE S == {0} \cup {ledger[i].seq : i \in DOMAIN ledger}
<1>1. Len(ledger) \in Nat /\ DOMAIN ledger = 1..Len(ledger)
  OBVIOUS
<1>2. S = 0..Len(ledger)
  BY <1>1 DEF ChainIntact
<1>3. Max(S) = Len(ledger)
  <2>1. S \in SUBSET Int /\ Len(ledger) \in S /\ \A y \in S : Len(ledger) >= y
    BY <1>1, <1>2
  <2> HIDE DEF S
  <2> QED
    BY <2>1, MaxIsTheBound
<1> QED
  BY <1>3 DEF NextServerSequence

\* The hash of the last row commits to the whole ledger (previousLedgerHash).
LEMMA PreviousHashIsRecomputed ==
    ASSUME ledger \in Seq(Row), ChainIntact
    PROVE  PreviousLedgerHash = RecomputedHash(Len(ledger))
<1>1. CASE ledger = <<>>
  BY <1>1 DEF PreviousLedgerHash, GenesisHash, RecomputedHash
<1>2. CASE ledger # <<>>
  <2> DEFINE IsTop(i) == \A j \in DOMAIN ledger : ledger[j].seq <= ledger[i].seq
  <2>1. Len(ledger) \in DOMAIN ledger /\ DOMAIN ledger = 1..Len(ledger) /\ Len(ledger) \in Nat
    BY <1>2
  <2>2. IsTop(Len(ledger))
    BY <2>1 DEF ChainIntact
  <2>3. \A i \in DOMAIN ledger : IsTop(i) => i = Len(ledger)
    BY <2>1 DEF ChainIntact
  <2>4. (CHOOSE i \in DOMAIN ledger : IsTop(i)) = Len(ledger)
    BY <2>1, <2>2, <2>3
  <2>5. PreviousLedgerHash = ledger[Len(ledger)].hash
    BY <1>2, <2>4 DEF PreviousLedgerHash
  <2> QED
    BY <2>1, <2>5 DEF ChainIntact
<1> QED
  BY <1>1, <1>2

\* The key that the signature check selects is one whose window holds the base
\* (ORDER BY key_version DESC LIMIT 1): no other valid version is larger.
LEMMA SelectedKeyIsValid ==
    ASSUME StoreTypeOK, NEW ev \in Event, SignatureVerifies(ev)
    PROVE  /\ ev.key \in ValidKeys(ev.actor, ev.base)
           /\ \A v \in ValidKeys(ev.actor, ev.base) : v <= ev.key
<1>1. ev.actor \in Executive
  BY EventAssumption DEF ClientEvent
<1>2. PICK n \in Nat : DOMAIN keys[ev.actor] = 1..n
  BY <1>1 DEF StoreTypeOK
<1>3. ValidKeys(ev.actor, ev.base) \subseteq 1..n
  BY <1>2 DEF ValidKeys
<1>4. ValidKeys(ev.actor, ev.base) \in SUBSET Nat
  BY <1>3
<1>5. \A v \in ValidKeys(ev.actor, ev.base) : v <= n /\ v \in Nat
  BY <1>3
<1>6. ValidKeys(ev.actor, ev.base) # {} /\ ev.key = Max(ValidKeys(ev.actor, ev.base))
  BY DEF SignatureVerifies
<1>7. /\ ev.key \in ValidKeys(ev.actor, ev.base)
      /\ \A v \in ValidKeys(ev.actor, ev.base) : ev.key >= v
  BY <1>4, <1>5, <1>6, BoundedHasMax
<1> QED
  BY <1>5, <1>7

-----------------------------------------------------------------------------
(* The INSERT of a ledger row. *)

\* The fields of a row that is there.
LEMMA RowFields ==
    ASSUME ledger \in Seq(Row), NEW i \in DOMAIN ledger
    PROVE  /\ ledger[i].event \in Event
           /\ ledger[i].event.actor \in Executive
           /\ ledger[i].event.device \in Device
           /\ ledger[i].event.object \in Object
           /\ ledger[i].event.counter \in Nat
           /\ ledger[i].event.base \in Nat
           /\ ledger[i].status \in DecidedStatus
<1>1. ledger[i] \in Row
  OBVIOUS
<1> QED
  BY <1>1, EventAssumption DEF Row, ClientEvent

\* Append as a function.
LEMMA AppendAsFunction ==
    ASSUME NEW S, NEW n \in Nat, NEW f \in [1..n -> S], NEW e \in S
    PROVE  Append(f, e) = [i \in 1 .. n + 1 |-> IF i = n + 1 THEN e ELSE f[i]]
<1>1. f \in Seq(S) /\ Len(f) = n
  OBVIOUS
<1>2. PICK g \in Seq(S) : g = Append(f, e)
  BY <1>1, AppendProperties
<1>3. Len(g) = n + 1 /\ g[n + 1] = e /\ \A i \in 1..n : g[i] = f[i]
  BY <1>1, <1>2, AppendProperties
<1>4. \A i \in 1 .. n + 1 : g[i] = IF i = n + 1 THEN e ELSE f[i]
  <2>1. \A i \in 1 .. n + 1 : i = n + 1 \/ i \in 1..n
    OBVIOUS
  <2> QED
    BY <1>3, <2>1
<1>5. g = [i \in 1 .. n + 1 |-> g[i]]
  BY <1>3
<1> QED
  BY <1>2, <1>4, <1>5

\* The recomputed chain is a hash, and extends by the hash function.
LEMMA RecomputedHashExtends ==
    ASSUME ledger \in Seq(Row)
    PROVE  /\ RecomputedHash(Len(ledger)) \in Hash
           /\ \A ev \in Event :
                LedgerHash(RecomputedHash(Len(ledger)), Len(ledger) + 1, ev)
                  = [i \in 1 .. Len(ledger) + 1 |->
                       <<i, IF i = Len(ledger) + 1 THEN ev ELSE ledger[i].event>>]
<1>1. /\ Len(ledger) \in Nat
      /\ \A i \in 1..Len(ledger) : ledger[i].event \in Event
  <2>1. Len(ledger) \in Nat /\ \A i \in 1..Len(ledger) : ledger[i] \in Row
    OBVIOUS
  <2> QED
    BY <2>1 DEF Row
<1>2. RecomputedHash(Len(ledger)) \in Hash
  BY <1>1 DEF RecomputedHash, Hash
<1>3. Len(RecomputedHash(Len(ledger))) = Len(ledger)
  BY <1>1, <1>2 DEF RecomputedHash, Hash
<1>4. ASSUME NEW ev \in Event
      PROVE  Append(RecomputedHash(Len(ledger)), <<Len(ledger) + 1, ev>>)
               = [i \in 1 .. Len(ledger) + 1 |->
                    <<i, IF i = Len(ledger) + 1 THEN ev ELSE ledger[i].event>>]
  BY <1>1, <1>2, <1>3 DEF RecomputedHash, Hash
<1> QED
  BY <1>2, <1>4 DEF LedgerHash

\* The row a writer inserts is well formed and sits at the next position.
LEMMA NewRowProperties ==
    ASSUME ledger \in Seq(Row), ChainIntact,
           NEW ev \in Event, NEW status \in DecidedStatus, NEW error \in ErrorCode
    PROVE  /\ NewRow(ev, status, error) \in Row
           /\ NewRow(ev, status, error).event = ev
           /\ NewRow(ev, status, error).status = status
           /\ NewRow(ev, status, error).error = error
           /\ NewRow(ev, status, error).seq = Len(ledger) + 1
           /\ NewRow(ev, status, error).prev = RecomputedHash(Len(ledger))
           /\ NewRow(ev, status, error).hash
                = LedgerHash(RecomputedHash(Len(ledger)), Len(ledger) + 1, ev)
<1>1. /\ NextServerSequence = Len(ledger) + 1
      /\ PreviousLedgerHash = RecomputedHash(Len(ledger))
  BY NextSequenceIsNextPosition, PreviousHashIsRecomputed
<1>2. LedgerHash(RecomputedHash(Len(ledger)), Len(ledger) + 1, ev) \in Hash
  BY RecomputedHashExtends DEF LedgerHash, Hash
<1> QED
  BY <1>1, <1>2, RecomputedHashExtends DEF NewRow, Row

\* Inserting a row keeps the ledger a chain of rows, and keeps the old rows.
LEMMA InsertKeepsChain ==
    ASSUME ledger \in Seq(Row), ChainIntact,
           NEW ev \in Event, NEW status \in DecidedStatus, NEW error \in ErrorCode,
           ledger' = Append(ledger, NewRow(ev, status, error))
    PROVE  /\ ledger' \in Seq(Row)
           /\ ChainIntact'
           /\ DOMAIN ledger = 1..Len(ledger)
           /\ DOMAIN ledger' = 1 .. Len(ledger) + 1
           /\ \A i \in 1..Len(ledger) : ledger'[i] = ledger[i]
           /\ ledger'[Len(ledger) + 1] = NewRow(ev, status, error)
<1> DEFINE row == NewRow(ev, status, error)
<1>0. PICK n \in Nat : n = Len(ledger)
  OBVIOUS
<1>1. /\ row \in Row /\ row.event = ev /\ row.seq = n + 1
      /\ row.prev = RecomputedHash(n)
      /\ row.hash = LedgerHash(RecomputedHash(n), n + 1, ev)
  BY <1>0, NewRowProperties
<1>2. DOMAIN ledger = 1..n
  BY <1>0
<1>3. /\ ledger' \in Seq(Row)
      /\ DOMAIN ledger' = 1 .. n + 1
      /\ \A i \in 1..n : ledger'[i] = ledger[i]
      /\ ledger'[n + 1] = row
  BY <1>0, <1>1, <1>2
<1> HIDE DEF row
<1>4. \A k \in 0..n : RecomputedHash(k)' = RecomputedHash(k)
  BY <1>2, <1>3 DEF RecomputedHash
<1>5. RecomputedHash(n + 1)' = row.hash
  <2>1. row.hash = [i \in 1 .. n + 1 |-> <<i, IF i = n + 1 THEN ev ELSE ledger[i].event>>]
    BY <1>0, <1>1, RecomputedHashExtends
  <2>2. \A i \in 1 .. n + 1 :
           (ledger'[i]).event = IF i = n + 1 THEN ev ELSE ledger[i].event
    BY <1>1, <1>2, <1>3
  <2> QED
    BY <2>1, <2>2 DEF RecomputedHash
<1>6. ASSUME NEW i \in 1 .. n + 1
      PROVE  /\ ledger'[i].seq = i
             /\ ledger'[i].prev = RecomputedHash(i - 1)'
             /\ ledger'[i].hash = RecomputedHash(i)'
  <2>1. CASE i = n + 1
    BY <1>1, <1>2, <1>3, <1>4, <1>5, <2>1
  <2>2. CASE i # n + 1
    <3>1. i \in 1..n /\ i - 1 \in 0..n /\ i \in 0..n
      BY <1>2, <2>2
    <3> QED
      BY <1>2, <1>3, <1>4, <3>1 DEF ChainIntact
  <2> QED
    BY <2>1, <2>2
<1>7. ChainIntact'
  BY <1>3, <1>6 DEF ChainIntact
<1> QED
  BY <1>0, <1>2, <1>3, <1>7 DEF row

\* Two rows appended to an intact ledger, the second one chained to the first.
LEMMA TwoInsertsKeepChain ==
    ASSUME ledger \in Seq(Row), ChainIntact, NEW n \in Nat, n = Len(ledger),
           NEW performed \in Event, NEW rotated \in Event,
           NEW first, first = NewRow(performed, "accepted", "none"),
           NEW second,
           second = [event |-> rotated, seq |-> first.seq + 1, status |-> "accepted",
                     error |-> "none", prev |-> first.hash,
                     hash |-> LedgerHash(first.hash, first.seq + 1, rotated)],
           ledger' = ledger \o <<first, second>>
    PROVE  /\ ledger' \in Seq(Row)
           /\ ChainIntact'
           /\ NextServerSequence = n + 1
           /\ DOMAIN ledger = 1..n
           /\ DOMAIN ledger' = 1 .. n + 2
           /\ \A i \in 1..n : ledger'[i] = ledger[i]
           /\ ledger'[n + 1] = first /\ first.event = performed
           /\ ledger'[n + 2] = second /\ second.event = rotated
           /\ first.status = "accepted" /\ second.status = "accepted"
<1>1. /\ first \in Row /\ first.event = performed /\ first.status = "accepted"
      /\ first.seq = n + 1 /\ first.prev = RecomputedHash(n)
      /\ first.hash = LedgerHash(RecomputedHash(n), n + 1, performed)
  BY NewRowProperties DEF DecidedStatus, ErrorCode
<1>2. first.hash \in Hash /\ first.hash = [i \in 1 .. n + 1 |->
                       <<i, IF i = n + 1 THEN performed ELSE ledger[i].event>>]
  BY <1>1, RecomputedHashExtends DEF Row
<1>3. \A i \in 1..n : ledger[i].event \in Event
  BY RowFields
<1>4. LedgerHash(first.hash, n + 2, rotated)
        = [i \in 1 .. n + 2 |-> <<i, IF i = n + 2 THEN rotated
                                    ELSE IF i = n + 1 THEN performed ELSE ledger[i].event>>]
  <2> DEFINE h == [i \in 1 .. n + 1 |-> <<i, IF i = n + 1 THEN performed ELSE ledger[i].event>>]
  <2>1. h \in [1 .. n + 1 -> Nat \X Event] /\ n + 1 \in Nat /\ <<n + 2, rotated>> \in Nat \X Event
    BY <1>3
  <2>3. Append(h, <<n + 2, rotated>>)
          = [i \in 1 .. (n + 1) + 1 |-> IF i = (n + 1) + 1 THEN <<n + 2, rotated>> ELSE h[i]]
    BY <2>1, AppendAsFunction
  <2>4. (n + 1) + 1 = n + 2
    OBVIOUS
  <2>5. \A i \in 1 .. n + 2 :
           (IF i = n + 2 THEN <<n + 2, rotated>> ELSE h[i])
             = <<i, IF i = n + 2 THEN rotated
                    ELSE IF i = n + 1 THEN performed ELSE ledger[i].event>>
    <3>1. \A i \in 1 .. n + 2 : i # n + 2 => i \in 1 .. n + 1
      OBVIOUS
    <3> QED
      BY <3>1
  <2>2. Append(h, <<n + 2, rotated>>)
          = [i \in 1 .. n + 2 |-> <<i, IF i = n + 2 THEN rotated
                                      ELSE IF i = n + 1 THEN performed ELSE ledger[i].event>>]
    <3> HIDE DEF h
    <3>1. Append(h, <<n + 2, rotated>>)
            = [i \in 1 .. n + 2 |-> IF i = n + 2 THEN <<n + 2, rotated>> ELSE h[i]]
      BY <2>3, <2>4
    <3> QED
      BY <2>5, <3>1
  <2> QED
    BY <1>2, <2>2 DEF LedgerHash
<1>5. /\ second \in Row /\ second.event = rotated /\ second.status = "accepted"
      /\ second.seq = n + 2 /\ second.prev = first.hash
      /\ second.hash = LedgerHash(first.hash, n + 2, rotated)
  <2>1. first.seq + 1 = n + 2
    BY <1>1
  <2>2. LedgerHash(first.hash, n + 2, rotated) \in Hash
    BY <1>2 DEF LedgerHash, Hash
  <2> QED
    BY <1>2, <2>1, <2>2 DEF Row, DecidedStatus, ErrorCode
<1>7. /\ ledger' \in Seq(Row) /\ DOMAIN ledger = 1..n /\ DOMAIN ledger' = 1 .. n + 2
      /\ \A i \in 1..n : ledger'[i] = ledger[i]
      /\ ledger'[n + 1] = first /\ ledger'[n + 2] = second
  <2>1. <<first, second>> \in Seq(Row) /\ Len(<<first, second>>) = 2
    BY <1>1, <1>5
  <2> QED
    BY <2>1, <1>1, <1>5
<1>8. \A k \in 0..n : RecomputedHash(k)' = RecomputedHash(k)
  BY <1>7 DEF RecomputedHash
<1>9. \A i \in 1 .. n + 2 : (ledger'[i]).event =
         IF i = n + 2 THEN rotated ELSE IF i = n + 1 THEN performed ELSE ledger[i].event
  BY <1>1, <1>5, <1>7
<1>10. RecomputedHash(n + 1)' = first.hash /\ RecomputedHash(n + 2)' = second.hash
  <2>1. RecomputedHash(n + 1)' = [i \in 1 .. n + 1 |->
                                    <<i, IF i = n + 1 THEN performed ELSE ledger[i].event>>]
    <3>1. \A i \in 1 .. n + 1 : i \in 1 .. n + 2 /\ i # n + 2
      OBVIOUS
    <3>2. \A i \in 1 .. n + 1 : (ledger'[i]).event =
             IF i = n + 1 THEN performed ELSE ledger[i].event
      BY <1>9, <3>1
    <3> QED
      BY <3>2 DEF RecomputedHash
  <2>2. RecomputedHash(n + 2)' = [i \in 1 .. n + 2 |->
                                    <<i, IF i = n + 2 THEN rotated ELSE
                                         IF i = n + 1 THEN performed ELSE ledger[i].event>>]
    BY <1>9 DEF RecomputedHash
  <2> QED
    BY <1>2, <1>4, <1>5, <2>1, <2>2
<1>11. ASSUME NEW i \in 1 .. n + 2
       PROVE  /\ ledger'[i].seq = i
              /\ ledger'[i].prev = RecomputedHash(i - 1)'
              /\ ledger'[i].hash = RecomputedHash(i)'
  <2>1. CASE i = n + 2
    BY <1>5, <1>7, <1>10, <2>1
  <2>2. CASE i = n + 1
    BY <1>1, <1>7, <1>8, <1>10, <2>2
  <2>3. CASE i \in 1..n
    <3>1. i - 1 \in 0..n /\ i \in 0..n
      BY <2>3
    <3> QED
      BY <1>7, <1>8, <2>3, <3>1 DEF ChainIntact
  <2>4. i = n + 2 \/ i = n + 1 \/ i \in 1..n
    OBVIOUS
  <2> QED
    BY <2>1, <2>2, <2>3, <2>4
<1>12. ChainIntact'
  BY <1>7, <1>11 DEF ChainIntact
<1> QED
  BY <1>1, <1>5, <1>7, <1>12, NextSequenceIsNextPosition

\* The k-th key of x ends at n, where a new one begins.
KeyReplaced(x, k, n) ==
    keys' = [keys EXCEPT ![x] = Append([@ EXCEPT ![k].until = n],
                                       [from |-> n, until |-> OpenEnded])]

\* What becomes of the windows then.
WindowsAfter(x, k, n) ==
    /\ keys' \in [Executive -> Seq(KeyWindow)]
    /\ Len(keys'[x]) = k + 1
    /\ keys'[x][k + 1] = [from |-> n, until |-> OpenEnded]
    /\ \A v \in 1..k : keys'[x][v].from = keys[x][v].from
    /\ \A v \in 1 .. k - 1 : keys'[x][v] = keys[x][v]
    /\ keys'[x][k].until = n
    /\ \A y \in Executive : y # x => keys'[y] = keys[y]

\* The last window of an executive's keys is closed, and one more is open.
LEMMA KeysAreReplaced ==
    ASSUME keys \in [Executive -> Seq(KeyWindow)], NEW x \in Executive,
           NEW n \in Nat, NEW k \in Nat, k >= 1, k = Len(keys[x]), KeyReplaced(x, k, n)
    PROVE  WindowsAfter(x, k, n)
<1>2. keys \in [Executive -> Seq(KeyWindow)] /\ keys[x] \in Seq(KeyWindow)
  OBVIOUS
<1>3. PICK w : w = [keys[x] EXCEPT ![k].until = n]
  OBVIOUS
<1>4. keys' = [keys EXCEPT ![x] = Append(w, [from |-> n, until |-> OpenEnded])]
  BY <1>3 DEF KeyReplaced
<1>5. k = Len(keys[x]) /\ DOMAIN keys[x] = 1..k /\ k \in 1..k
  BY <1>2
<1>6. /\ w \in Seq(KeyWindow) /\ Len(w) = k
      /\ \A v \in 1..k : w[v].from = keys[x][v].from
      /\ \A v \in 1 .. k - 1 : w[v] = keys[x][v]
      /\ w[k].until = n
  <2>1. \A v \in 1..k : keys[x][v] \in KeyWindow
    BY <1>2, <1>5
  <2>2. \A v \in 1..k : w[v] = IF v = k THEN [keys[x][k] EXCEPT !.until = n] ELSE keys[x][v]
    BY <1>2, <1>3, <1>5
  <2>3. [keys[x][k] EXCEPT !.until = n] \in KeyWindow
    BY <1>5, <2>1 DEF KeyWindow
  <2>4. DOMAIN w = 1..k
    BY <1>3, <1>5
  <2>5. w = [v \in 1..k |-> w[v]]
    BY <1>3, <2>4
  <2>6. \A v \in 1..k : w[v] \in KeyWindow
    BY <2>1, <2>2, <2>3
  <2>7. w \in Seq(KeyWindow) /\ Len(w) = k
    BY <2>5, <2>6
  <2>8. \A v \in 1..k : w[v].from = keys[x][v].from
    BY <1>5, <2>1, <2>2 DEF KeyWindow
  <2>9. w[k].until = n
    BY <1>5, <2>1, <2>2 DEF KeyWindow
  <2> QED
    BY <2>2, <2>7, <2>8, <2>9
<1>7. [from |-> n, until |-> OpenEnded] \in KeyWindow
  BY DEF KeyWindow
<1>8. keys'[x] = Append(w, [from |-> n, until |-> OpenEnded])
  BY <1>2, <1>4
<1>9. /\ keys'[x] \in Seq(KeyWindow) /\ Len(keys'[x]) = k + 1
      /\ keys'[x][k + 1] = [from |-> n, until |-> OpenEnded]
      /\ \A v \in 1..k : keys'[x][v] = w[v]
  BY <1>6, <1>7, <1>8
<1>10. keys' \in [Executive -> Seq(KeyWindow)] /\ \A y \in Executive : y # x => keys'[y] = keys[y]
  BY <1>2, <1>4, <1>8, <1>9
<1>11. \A v \in 1..k : keys'[x][v].from = keys[x][v].from
  BY <1>6, <1>9
<1>12. keys'[x][k].until = n /\ \A v \in 1 .. k - 1 : keys'[x][v] = keys[x][v]
  <2>1. k \in 1..k /\ \A v \in 1 .. k - 1 : v \in 1..k
    OBVIOUS
  <2> QED
    BY <1>6, <1>9, <2>1
<1> QED
  BY <1>9, <1>10, <1>11, <1>12 DEF WindowsAfter

\* A replacement changes the selection of a key for nobody else, and for x only
\* from n on.
LEMMA ReplacementKeepsSelection ==
    ASSUME keys \in [Executive -> Seq(KeyWindow)], NEW x \in Executive,
           NEW n \in Nat, NEW k \in Nat, k >= 1, k = Len(keys[x]),
           keys[x][k].until = OpenEnded, WindowsAfter(x, k, n),
           NEW ev \in Event, SignatureVerifies(ev), ev.actor # x \/ ev.base < n
    PROVE  SignatureVerifies(ev)'
<1> DEFINE y == ev.actor
           b == ev.base
<1>1. y \in Executive /\ b \in Nat
  BY EventAssumption DEF ClientEvent
<1>2. /\ keys[x] \in Seq(KeyWindow) /\ keys'[x] \in Seq(KeyWindow)
      /\ DOMAIN keys[x] = 1..k /\ DOMAIN keys'[x] = 1 .. k + 1
  BY DEF WindowsAfter
<1> HIDE DEF y, b
<1>3. ValidKeys(y, b)' = ValidKeys(y, b)
  <2>1. CASE y # x
    BY <1>1, <2>1 DEF ValidKeys, WindowsAfter
  <2>2. CASE y = x
    <3>1. b < n
      BY <2>2 DEF y, b
    <3>2. k + 1 \notin ValidKeys(x, b)'
      <4>1. keys'[x][k + 1].from = n
        BY DEF WindowsAfter
      <4> QED
        BY <1>1, <3>1, <4>1 DEF ValidKeys
    <3>3. k \in ValidKeys(x, b)' <=> k \in ValidKeys(x, b)
      <4>1. keys'[x][k].until >= b /\ keys'[x][k].from = keys[x][k].from
        BY <1>1, <3>1 DEF WindowsAfter
      <4>2. k \in 1 .. k + 1 /\ k \in 1..k
        OBVIOUS
      <4> QED
        BY <1>2, <4>1, <4>2 DEF ValidKeys
    <3>4. ASSUME NEW v \in 1 .. k - 1 PROVE v \in ValidKeys(x, b)' <=> v \in ValidKeys(x, b)
      <4>1. v \in 1..k /\ v \in 1 .. k + 1
        OBVIOUS
      <4> QED
        BY <1>2, <4>1 DEF ValidKeys, WindowsAfter
    <3>5. ValidKeys(x, b) \subseteq 1..k /\ ValidKeys(x, b)' \subseteq 1 .. k + 1
      BY <1>2 DEF ValidKeys
    <3>6. /\ \A v \in 1 .. k + 1 : v = k + 1 \/ v = k \/ v \in 1 .. k - 1
          /\ k + 1 \notin 1..k /\ 1..k \subseteq 1 .. k + 1
      OBVIOUS
    <3>7. \A v \in 1 .. k + 1 : v \in ValidKeys(x, b)' <=> v \in ValidKeys(x, b)
      BY <3>2, <3>3, <3>4, <3>5, <3>6
    <3>8. ValidKeys(x, b)' = ValidKeys(x, b)
      BY <3>5, <3>6, <3>7
    <3> QED
      BY <2>2, <3>8 DEF ValidKeys
  <2> QED
    BY <2>1, <2>2
<1> QED
  BY <1>3 DEF SignatureVerifies, y, b

\* A step that leaves the tables alone keeps what holds of them.
LEMMA UnchangedKeepsStore ==
    ASSUME StoreTypeOK, ChainIntact, UNCHANGED store
    PROVE  StoreTypeOK' /\ ChainIntact'
<1>1. /\ ledger' = ledger /\ heads' = heads /\ conflicts' = conflicts
      /\ devices' = devices /\ executives' = executives /\ keys' = keys
  BY DEF store
<1>2. StoreTypeOK'
  BY <1>1 DEF StoreTypeOK
<1>3. \A k : RecomputedHash(k)' = RecomputedHash(k)
  BY <1>1 DEF RecomputedHash
<1>4. ChainIntact'
  BY <1>1, <1>3 DEF ChainIntact
<1> QED
  BY <1>2, <1>4

=============================================================================
