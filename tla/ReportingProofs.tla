---------------------------- MODULE ReportingProofs ----------------------------
(***************************************************************************)
(* The read models are what a prefix of the ledger says of it, for any     *)
(* events, any batches, rebuilds that fail, and snapshots at any time.     *)
(***************************************************************************)
EXTENDS Reporting, LedgerAppenderProofs

-----------------------------------------------------------------------------
(* Folding a batch. *)

\* Induction over the naturals, with a set in place of a predicate.
LEMMA SetInduction ==
    ASSUME NEW S, 0 \in S, \A n \in Nat : n \in S => n + 1 \in S
    PROVE  Nat \subseteq S
<1> SUFFICES ASSUME Nat \ S # {} PROVE FALSE
  OBVIOUS
<1>1. PICK m \in Nat \ S : \A y \in Nat \ S : m <= y
  <2>1. Nat \ S \in SUBSET Nat
    OBVIOUS
  <2> QED BY <2>1, LeastNatural
<1>2. m # 0
  OBVIOUS
<1>3. m - 1 \in Nat /\ ~(m <= m - 1)
  BY <1>2
<1>4. m - 1 \in S
  BY <1>1, <1>3
<1>5. (m - 1) + 1 \in S
  BY <1>3, <1>4
<1>6. (m - 1) + 1 = m
  BY <1>1
<1> QED BY <1>5, <1>6

\* The fold of applyNextBatch.
Folded(rows, batch) == FoldLeft(Applied, rows, batch)

\* What the fold of a batch of n rows is made of: the value of each subset of
\* the positions, given by that of the subset without its largest element.
FoldsInto(rows, batch, n, g) ==
    g = [s \in SUBSET (1..n) |->
           IF s = {} THEN rows ELSE Applied(g[s \ {Max(s)}], batch[Max(s)])]

LEMMA FoldIsIterated ==
    ASSUME NEW rows, NEW n \in Nat, NEW batch, DOMAIN batch = 1..n
    PROVE  Folded(rows, batch) = (CHOOSE g : FoldsInto(rows, batch, n, g))[1..n]
  BY DEF Folded, FoldLeft, MapThenFoldSet, FoldsInto

\* There is such a function: for one more row, it is extended to the subsets
\* that contain the new position.
LEMMA FoldExtends ==
    ASSUME NEW rows, NEW batch, NEW n \in Nat, NEW g, FoldsInto(rows, batch, n, g)
    PROVE  \E h : FoldsInto(rows, batch, n + 1, h)
<1>1. PICK h : h = [s \in SUBSET (1 .. n + 1) |->
                      IF n + 1 \in s THEN Applied(g[s \ {n + 1}], batch[n + 1]) ELSE g[s]]
  OBVIOUS
<1>2. ASSUME NEW s \in SUBSET (1 .. n + 1)
      PROVE  h[s] = IF s = {} THEN rows ELSE Applied(h[s \ {Max(s)}], batch[Max(s)])
  <2>1. h[s] = IF n + 1 \in s THEN Applied(g[s \ {n + 1}], batch[n + 1]) ELSE g[s]
    BY <1>1
  <2>2. CASE n + 1 \in s
    <3>1. Max(s) = n + 1
      <4>1. s \in SUBSET Int /\ \A y \in s : n + 1 >= y
        OBVIOUS
      <4> QED BY <2>2, <4>1, MaxIsTheBound
    <3>2. s \ {n + 1} \in SUBSET (1 .. n + 1) /\ n + 1 \notin s \ {n + 1}
      OBVIOUS
    <3>3. h[s \ {n + 1}] = g[s \ {n + 1}]
      BY <1>1, <3>2
    <3> QED BY <2>1, <2>2, <3>1, <3>3
  <2>3. CASE n + 1 \notin s
    <3>1. s \in SUBSET (1..n)
      BY <2>3
    <3>2. g[s] = IF s = {} THEN rows ELSE Applied(g[s \ {Max(s)}], batch[Max(s)])
      BY <3>1 DEF FoldsInto
    <3>3. h[s \ {Max(s)}] = g[s \ {Max(s)}]
      <4>1. s \ {Max(s)} \in SUBSET (1 .. n + 1) /\ n + 1 \notin s \ {Max(s)}
        BY <2>3
      <4> QED BY <1>1, <4>1
    <3> QED BY <2>1, <2>3, <3>2, <3>3
  <2> QED BY <2>2, <2>3
<1>3. FoldsInto(rows, batch, n + 1, h)
  <2>1. h = [s \in SUBSET (1 .. n + 1) |-> h[s]]
    BY <1>1
  <2> QED BY <1>2, <2>1 DEF FoldsInto
<1> QED BY <1>3

LEMMA FoldExists ==
    ASSUME NEW rows, NEW batch
    PROVE  \A n \in Nat : \E g : FoldsInto(rows, batch, n, g)
<1> DEFINE S == {n \in Nat : \E g : FoldsInto(rows, batch, n, g)}
<1>1. 0 \in S
  <2>1. PICK g : g = [s \in SUBSET (1..0) |-> rows]
    OBVIOUS
  <2>2. \A s \in SUBSET (1..0) : s = {}
    OBVIOUS
  <2>3. g = [s \in SUBSET (1..0) |->
               IF s = {} THEN rows ELSE Applied(g[s \ {Max(s)}], batch[Max(s)])]
    BY <2>1, <2>2, Zenon
  <2> QED BY <2>3 DEF FoldsInto
<1>2. ASSUME NEW n \in Nat, n \in S PROVE n + 1 \in S
  <2>1. PICK g : FoldsInto(rows, batch, n, g)
    BY <1>2
  <2>2. \E h : FoldsInto(rows, batch, n + 1, h)
    BY <2>1, FoldExtends
  <2> QED BY <2>2
<1> HIDE DEF S
<1>3. Nat \subseteq S
  BY <1>1, <1>2, SetInduction
<1> QED BY <1>3 DEF S

\* The fold, row by row: the value for no row is the start, and each further
\* row is applied to the value of those before it.
RowByRow(rows, batch, n, g) ==
    /\ Folded(rows, batch) = g[n]
    /\ g[0] = rows
    /\ \A k \in 1..n : g[k] = Applied(g[k - 1], batch[k])

LEMMA FoldGoesRowByRow ==
    ASSUME NEW rows, NEW n \in Nat, NEW batch, DOMAIN batch = 1..n
    PROVE  \E g : RowByRow(rows, batch, n, g)
<1>1. PICK f : f = CHOOSE g : FoldsInto(rows, batch, n, g)
  OBVIOUS
<1>2. FoldsInto(rows, batch, n, f)
  BY <1>1, FoldExists, Zenon
<1>3. Folded(rows, batch) = f[1..n]
  BY <1>1, FoldIsIterated
<1>4. PICK g : g = [k \in 0..n |-> f[1..k]]
  OBVIOUS
<1>5. g[n] = f[1..n] /\ g[0] = f[1..0]
  BY <1>4
<1>6. f[1..0] = rows
  <2>1. 1..0 = {} /\ 1..0 \in SUBSET (1..n)
    OBVIOUS
  <2> QED BY <1>2, <2>1 DEF FoldsInto
<1>7. ASSUME NEW k \in 1..n PROVE g[k] = Applied(g[k - 1], batch[k])
  <2>1. 1..k \in SUBSET (1..n) /\ 1..k # {} /\ (1..k) \ {k} = 1 .. k - 1
    OBVIOUS
  <2>2. Max(1..k) = k
    <3>1. 1..k \in SUBSET Int /\ k \in 1..k /\ \A y \in 1..k : k >= y
      OBVIOUS
    <3> QED BY <3>1, MaxIsTheBound
  <2>3. f[1..k] = Applied(f[1 .. k - 1], batch[k])
    BY <1>2, <2>1, <2>2 DEF FoldsInto
  <2>4. g[k] = f[1..k] /\ g[k - 1] = f[1 .. k - 1]
    BY <1>4
  <2> QED BY <2>3, <2>4
<1> QED BY <1>3, <1>5, <1>6, <1>7 DEF RowByRow

-----------------------------------------------------------------------------
(* What one row does to one account. *)

OpensAt(a, i) == /\ ledger[i].status = "accepted"
                 /\ ledger[i].event \in Opening
                 /\ accountOf[ledger[i].event] = a
ClosesAt(a, i) == /\ ledger[i].status = "accepted"
                  /\ ledger[i].event \in Closing
                  /\ objectId[ledger[i].event.object] = a

OpenedIn(a, n) == {i \in 1..n : OpensAt(a, i)}
AboutIn(a, n) ==
    {i \in 1..n : (OpensAt(a, i) \/ ClosesAt(a, i)) /\ \E first \in OpenedIn(a, n) : first <= i}

LEMMA FoldOfSets ==
    ASSUME NEW a, NEW n \in Nat
    PROVE  FoldOf(a, n) =
             IF OpenedIn(a, n) = {} THEN <<"absent">>
             ELSE <<IF /\ ledger[Max(AboutIn(a, n))].event \in Opening
                       /\ accountOf[ledger[Max(AboutIn(a, n))].event] = a
                    THEN "active" ELSE "closed",
                    groupOf[ledger[Max(OpenedIn(a, n))].event], Max(AboutIn(a, n))>>
<1>1. OpenedIn(a, n) =
        {i \in 1..n : /\ ledger[i].status = "accepted"
                      /\ ledger[i].event \in Opening /\ accountOf[ledger[i].event] = a}
  BY DEF OpenedIn, OpensAt
<1>2. AboutIn(a, n) =
        {i \in 1..n : /\ ledger[i].status = "accepted"
                      /\ \/ ledger[i].event \in Opening /\ accountOf[ledger[i].event] = a
                         \/ ledger[i].event \in Closing
                            /\ objectId[ledger[i].event.object] = a
                      /\ \E first \in OpenedIn(a, n) : first <= i}
  BY DEF AboutIn, OpensAt, ClosesAt
<1> QED BY <1>1, <1>2, Zenon DEF FoldOf

\* The fold over one more row.
LEMMA FoldOfNextRow ==
    ASSUME NEW a, NEW n \in Nat
    PROVE  FoldOf(a, n + 1) =
             IF OpensAt(a, n + 1)
             THEN <<"active", groupOf[ledger[n + 1].event], n + 1>>
             ELSE IF ClosesAt(a, n + 1) /\ OpenedIn(a, n) # {}
                  THEN <<"closed", groupOf[ledger[Max(OpenedIn(a, n))].event], n + 1>>
                  ELSE FoldOf(a, n)
<1>1. \A i \in 1 .. n + 1 : i \in 1..n \/ i = n + 1
  OBVIOUS
<1>2. n + 1 \in 1 .. n + 1 /\ 1..n \subseteq 1 .. n + 1 /\ n + 1 \notin 1..n
  OBVIOUS
<1>3. ASSUME NEW s \in SUBSET (1 .. n + 1), n + 1 \in s PROVE Max(s) = n + 1
  <2>1. s \in SUBSET Int /\ \A y \in s : n + 1 >= y
    OBVIOUS
  <2> QED BY <1>3, <2>1, MaxIsTheBound
<1>4. AboutIn(a, n + 1) \in SUBSET (1 .. n + 1) /\ OpenedIn(a, n + 1) \in SUBSET (1 .. n + 1)
  BY DEF AboutIn, OpenedIn
<1>5. CASE OpensAt(a, n + 1)
  <2>1. n + 1 \in OpenedIn(a, n + 1)
    BY <1>2, <1>5 DEF OpenedIn
  <2>2. n + 1 \in AboutIn(a, n + 1)
    BY <1>2, <1>5, <2>1 DEF AboutIn
  <2>3. Max(OpenedIn(a, n + 1)) = n + 1 /\ Max(AboutIn(a, n + 1)) = n + 1
    BY <1>3, <1>4, <2>1, <2>2
  <2>4. OpenedIn(a, n + 1) # {}
    BY <2>1
  <2>5. ledger[n + 1].event \in Opening /\ accountOf[ledger[n + 1].event] = a
    BY <1>5 DEF OpensAt
  <2>6. n + 1 \in Nat
    OBVIOUS
  <2> QED BY <1>5, <2>3, <2>4, <2>5, <2>6, FoldOfSets, Zenon
<1>6. CASE ~OpensAt(a, n + 1)
  <2>1. OpenedIn(a, n + 1) = OpenedIn(a, n)
    BY <1>1, <1>2, <1>6 DEF OpenedIn
  <2>2. CASE ClosesAt(a, n + 1) /\ OpenedIn(a, n) # {}
    <3>1. PICK first \in OpenedIn(a, n) : first <= n + 1
      <4>1. \A i \in OpenedIn(a, n) : i <= n + 1
        BY DEF OpenedIn
      <4> QED BY <2>2, <4>1
    <3>2. n + 1 \in AboutIn(a, n + 1)
      BY <1>2, <2>1, <2>2, <3>1 DEF AboutIn
    <3>3. Max(AboutIn(a, n + 1)) = n + 1
      BY <1>3, <1>4, <3>2
    <3>4. ~(ledger[n + 1].event \in Opening /\ accountOf[ledger[n + 1].event] = a)
      BY <1>6, <2>2 DEF OpensAt, ClosesAt
    <3>5. n + 1 \in Nat
      OBVIOUS
    <3> QED BY <1>6, <2>1, <2>2, <3>3, <3>4, <3>5, FoldOfSets, Zenon
  <2>3. CASE ~(ClosesAt(a, n + 1) /\ OpenedIn(a, n) # {})
    <3>1. AboutIn(a, n + 1) = AboutIn(a, n)
      <4>1. n + 1 \notin AboutIn(a, n + 1)
        BY <1>6, <2>1, <2>3 DEF AboutIn
      <4> QED BY <1>1, <1>2, <2>1, <4>1 DEF AboutIn
    <3>2. n + 1 \in Nat
      OBVIOUS
    <3>3. FoldOf(a, n + 1) = FoldOf(a, n)
      BY <2>1, <3>1, <3>2, FoldOfSets, Zenon
    <3> QED BY <1>6, <2>3, <3>3
  <2> QED BY <2>2, <2>3
<1> QED BY <1>5, <1>6

\* An account is there exactly if it was created, in the group of its last
\* creation.
LEMMA PresentIsOpened ==
    ASSUME NEW rows \in [Account -> AccountRow], NEW n \in Nat, IsFold(rows, n),
           NEW a \in Account
    PROVE  /\ a \in Present(rows) <=> OpenedIn(a, n) # {}
           /\ a \in Present(rows) =>
                rows[a].group = groupOf[ledger[Max(OpenedIn(a, n))].event]
<1>1. AccountState(rows[a]) = FoldOf(a, n)
  BY DEF IsFold
<1>2. PICK row : row = rows[a]
  OBVIOUS
<1>3. AccountState(rows[a])[1] = rows[a].status
  BY <1>2 DEF AccountState
<1>4. OpenedIn(a, n) = {} => FoldOf(a, n)[1] = "absent"
  BY FoldOfSets
<1>5. PICK s, i : OpenedIn(a, n) # {} =>
        /\ s \in {"active", "closed"}
        /\ FoldOf(a, n) = <<s, groupOf[ledger[Max(OpenedIn(a, n))].event], i>>
  BY FoldOfSets
<1>6. OpenedIn(a, n) # {} =>
        /\ FoldOf(a, n)[1] # "absent"
        /\ FoldOf(a, n)[2] = groupOf[ledger[Max(OpenedIn(a, n))].event]
  BY <1>5
<1>7. rows[a].status # "absent" => AccountState(rows[a])[2] = rows[a].group
  BY <1>2 DEF AccountState
<1> QED BY <1>1, <1>3, <1>4, <1>6, <1>7 DEF Present

LEMMA NextRowIsApplied ==
    ASSUME ledger \in Seq(Row), ChainIntact,
           NEW rows \in [Account -> AccountRow], NEW n \in Nat, n + 1 \in DOMAIN ledger,
           IsFold(rows, n)
    PROVE  /\ Applied(rows, ledger[n + 1]) \in [Account -> AccountRow]
           /\ IsFold(Applied(rows, ledger[n + 1]), n + 1)
<1>1. PICK row : row = ledger[n + 1]
  OBVIOUS
<1>2. PICK ev : ev = row.event
  OBVIOUS
<1>3. PICK next : next = Applied(rows, row)
  OBVIOUS
<1>4. ev \in Event /\ row.seq = n + 1 /\ row.seq \in Nat /\ ev.object \in Object
  BY <1>1, <1>2, RowFields DEF ChainIntact
<1>5. accountOf[ev] \in Account /\ groupOf[ev] \in Group /\ objectId[ev.object] \in Account
  BY <1>4, MetadataAssumption
<1>6. \A a : /\ OpensAt(a, n + 1) <=> TakesEffect(row) /\ ev \in Opening /\ accountOf[ev] = a
             /\ ClosesAt(a, n + 1) <=>
                  TakesEffect(row) /\ ev \in Closing /\ objectId[ev.object] = a
  BY <1>1, <1>2 DEF OpensAt, ClosesAt, TakesEffect
<1>7. /\ ~(ev \in Opening /\ ev \in Closing)
      /\ ev.type = "CONFLICT_RESOLVED" => ev \notin Opening /\ ev \notin Closing
  BY EventKindAssumption
<1>8. \A a \in Account : AccountState(rows[a]) = FoldOf(a, n)
  BY DEF IsFold
<1>9. CASE TakesEffect(row) /\ ev \in Opening
  <2>1. next = Opened(rows, row)
    BY <1>2, <1>3, <1>7, <1>9 DEF Applied
  <2>2. PICK created : created = [status |-> "active", group |-> groupOf[ev],
                                  asOf |-> n + 1, conflicted |-> FALSE]
    OBVIOUS
  <2>3. created \in AccountRow
    BY <1>4, <1>5, <2>2 DEF AccountRow, AccountStatus
  <2>4. next = [rows EXCEPT ![accountOf[ev]] = created]
    BY <1>2, <1>4, <2>1, <2>2 DEF Opened
  <2>5. next \in [Account -> AccountRow]
    BY <2>3, <2>4
  <2>6. ASSUME NEW a \in Account PROVE AccountState(next[a]) = FoldOf(a, n + 1)
    <3>1. CASE a = accountOf[ev]
      <4>1. next[a] = created
        BY <2>4, <3>1
      <4>2. AccountState(next[a]) = <<"active", groupOf[ev], n + 1>>
        BY <2>2, <4>1 DEF AccountState
      <4>3. OpensAt(a, n + 1)
        BY <1>6, <1>9, <3>1
      <4> QED BY <1>1, <1>2, <4>2, <4>3, FoldOfNextRow
    <3>2. CASE a # accountOf[ev]
      <4>1. next[a] = rows[a]
        BY <2>4, <3>2
      <4>2. ~OpensAt(a, n + 1) /\ ~ClosesAt(a, n + 1)
        BY <1>6, <1>7, <1>9, <3>2
      <4> QED BY <1>8, <4>1, <4>2, FoldOfNextRow
    <3> QED BY <3>1, <3>2
  <2> QED BY <1>1, <1>3, <2>5, <2>6 DEF IsFold
<1>10. CASE TakesEffect(row) /\ ev \in Closing /\ objectId[ev.object] \in Present(rows)
  <2>1. PICK b \in Account : b = objectId[ev.object]
    BY <1>5
  <2>2. next = [rows EXCEPT ![b].status = "closed", ![b].asOf = n + 1]
    BY <1>2, <1>3, <1>4, <1>7, <1>10, <2>1 DEF Applied, WithStatus
  <2>3. PICK closed : closed = [rows[b] EXCEPT !.status = "closed", !.asOf = n + 1]
    OBVIOUS
  <2>4. /\ closed \in AccountRow
        /\ closed.status = "closed" /\ closed.asOf = n + 1 /\ closed.group = rows[b].group
    <3>1. rows[b] \in AccountRow /\ n + 1 \in Nat /\ "closed" \in AccountStatus
      BY DEF AccountStatus
    <3> QED BY <2>3, <3>1 DEF AccountRow
  <2>5. next = [rows EXCEPT ![b] = closed]
    BY <2>2, <2>3
  <2>6. next \in [Account -> AccountRow]
    BY <2>4, <2>5
  <2>7. ASSUME NEW a \in Account PROVE AccountState(next[a]) = FoldOf(a, n + 1)
    <3>1. ~OpensAt(a, n + 1)
      BY <1>6, <1>7, <1>10
    <3>2. CASE a = b
      <4>1. AccountState(next[a]) = <<"closed", rows[b].group, n + 1>>
        BY <2>4, <2>5, <3>2 DEF AccountState
      <4>2. ClosesAt(a, n + 1)
        BY <1>6, <1>10, <2>1, <3>2
      <4>3. /\ OpenedIn(a, n) # {}
            /\ rows[b].group = groupOf[ledger[Max(OpenedIn(a, n))].event]
        BY <1>10, <2>1, <3>2, PresentIsOpened
      <4> QED BY <3>1, <4>1, <4>2, <4>3, FoldOfNextRow
    <3>3. CASE a # b
      <4>1. next[a] = rows[a]
        BY <2>5, <3>3
      <4>2. ~ClosesAt(a, n + 1)
        BY <1>6, <2>1, <3>3
      <4> QED BY <1>8, <3>1, <4>1, <4>2, FoldOfNextRow
    <3> QED BY <3>2, <3>3
  <2> QED BY <1>1, <1>3, <2>6, <2>7 DEF IsFold
<1>11. CASE /\ ~(TakesEffect(row) /\ ev \in Opening)
            /\ ~(TakesEffect(row) /\ ev \in Closing /\ objectId[ev.object] \in Present(rows))
  <2>1. /\ next \in [Account -> AccountRow]
        /\ \A a \in Account : AccountState(next[a]) = AccountState(rows[a])
    <3>1. CASE next = rows
      BY <3>1
    <3>2. CASE next # rows
      <4>1. next = Unflagged(rows, ev.object)
        BY <1>2, <1>3, <1>11, <3>2 DEF Applied
      <4>2. PICK b \in Account : b = objectId[ev.object]
        BY <1>5
      <4>3. next = [rows EXCEPT ![b].conflicted = FALSE]
        BY <3>2, <4>1, <4>2 DEF Unflagged
      <4>4. PICK free : free = [rows[b] EXCEPT !.conflicted = FALSE]
        OBVIOUS
      <4>5. /\ free \in AccountRow
            /\ free.status = rows[b].status /\ free.asOf = rows[b].asOf
            /\ free.group = rows[b].group
        BY <4>4 DEF AccountRow
      <4>6. next = [rows EXCEPT ![b] = free]
        BY <4>3, <4>4
      <4>7. next[b] = free /\ \A a \in Account : a # b => next[a] = rows[a]
        BY <4>6
      <4>8. AccountState(free) = AccountState(rows[b])
        BY <4>5 DEF AccountState
      <4> QED BY <4>5, <4>6, <4>7, <4>8
    <3> QED BY <3>1, <3>2
  <2>2. ASSUME NEW a \in Account PROVE AccountState(next[a]) = FoldOf(a, n + 1)
    <3>1. ~OpensAt(a, n + 1)
      BY <1>6, <1>11
    <3>2. ~(ClosesAt(a, n + 1) /\ OpenedIn(a, n) # {})
      BY <1>6, <1>11, PresentIsOpened
    <3> QED BY <1>8, <2>1, <3>1, <3>2, FoldOfNextRow
  <2> QED BY <1>1, <1>3, <2>1, <2>2 DEF IsFold
<1> QED BY <1>9, <1>10, <1>11

-----------------------------------------------------------------------------
(* Batches. *)

\* A batch is the next rows of the ledger, and empty only at its end.
NextRows(batch, m) ==
    /\ m \in Nat
    /\ applied + m <= Len(ledger)
    /\ m = 0 => applied = Len(ledger)
    /\ batch = [k \in 1..m |-> ledger[applied + k]]

LEMMA BatchIsNextRows ==
    ASSUME ledger \in Seq(Row), ChainIntact, applied \in Nat, applied <= Len(ledger),
           NEW limit \in Nat \ {0}
    PROVE  \E m : NextRows(EventsAfter(applied, limit), m)
<1> DEFINE later == {i \in DOMAIN ledger : ledger[i].seq > applied}
           Place(i) == Cardinality({j \in later : ledger[j].seq <= ledger[i].seq})
<1>1. PICK size \in Nat : size = Len(ledger)
  OBVIOUS
<1>2. DOMAIN ledger = 1..size /\ \A i \in 1..size : ledger[i].seq = i
  BY <1>1 DEF ChainIntact
<1>3. later = applied + 1 .. size
  BY <1>2
<1>4. Cardinality(later) = size - applied
  <2>1. applied + 1 \in Int /\ size \in Int
    OBVIOUS
  <2>2. Cardinality(applied + 1 .. size) =
          IF applied + 1 > size THEN 0 ELSE size - (applied + 1) + 1
    BY <2>1, FS_Interval
  <2>3. Cardinality(applied + 1 .. size) = size - applied
    BY <1>1, <2>2
  <2> QED BY <1>3, <2>3
<1>5. ASSUME NEW i \in later PROVE Place(i) = i - applied
  <2>1. i \in applied + 1 .. size
    BY <1>3
  <2>2. {j \in later : ledger[j].seq <= ledger[i].seq} = applied + 1 .. i
    BY <1>2, <1>3, <2>1
  <2>3. Cardinality(applied + 1 .. i) =
          IF applied + 1 > i THEN 0 ELSE i - (applied + 1) + 1
    <3>1. applied + 1 \in Int /\ i \in Int
      BY <2>1
    <3> QED BY <3>1, FS_Interval
  <2>4. Cardinality(applied + 1 .. i) = i - applied
    BY <1>1, <2>1, <2>3
  <2> QED BY <2>2, <2>4
<1>6. PICK m \in {limit, size - applied} : m <= limit /\ m <= size - applied
  BY <1>1
<1>7. Min({limit, Cardinality(later)}) = m
  <2>1. ASSUME NEW x \in {limit, size - applied}, x <= limit, x <= size - applied
        PROVE  x = m
    BY <1>1, <1>6, <2>1
  <2>2. Min({limit, size - applied}) = m
    BY <1>6, <2>1 DEF Min
  <2> QED BY <1>4, <2>2
<1> HIDE DEF later, Place
<1>8. ASSUME NEW k \in 1..m
      PROVE  ledger[CHOOSE i \in later : Place(i) = k] = ledger[applied + k]
  <2>1. applied + k \in later
    BY <1>1, <1>3, <1>6
  <2>2. \A i \in later : Place(i) = k <=> i = applied + k
    <3>1. \A i \in later : i \in Int
      BY <1>3
    <3> QED BY <1>5, <3>1
  <2>3. (CHOOSE i \in later : Place(i) = k) = applied + k
    BY <2>1, <2>2
  <2> QED BY <2>3
<1>9. EventsAfter(applied, limit) = [k \in 1..m |-> ledger[CHOOSE i \in later : Place(i) = k]]
  BY <1>7 DEF EventsAfter, later, Place
<1>10. EventsAfter(applied, limit) = [k \in 1..m |-> ledger[applied + k]]
  BY <1>8, <1>9
<1>11. m \in Nat /\ applied + m <= size /\ (m = 0 => applied = size)
  BY <1>1, <1>6
<1> QED BY <1>1, <1>10, <1>11 DEF NextRows

\* However many of the next rows are folded, the accounts after them are what
\* the longer prefix says.
LEMMA RowsAreFolded ==
    ASSUME ledger \in Seq(Row), ChainIntact, NEW n \in Nat,
           NEW rows \in [Account -> AccountRow], IsFold(rows, n),
           NEW m \in Nat, n + m <= Len(ledger),
           NEW batch, batch = [k \in 1..m |-> ledger[n + k]]
    PROVE  /\ Folded(rows, batch) \in [Account -> AccountRow]
           /\ IsFold(Folded(rows, batch), n + m)
<1>1. DOMAIN batch = 1..m
  OBVIOUS
<1>2. PICK g : /\ Folded(rows, batch) = g[m]
               /\ g[0] = rows
               /\ \A k \in 1..m : g[k] = Applied(g[k - 1], batch[k])
  <2>1. PICK g : RowByRow(rows, batch, m, g)
    BY <1>1, FoldGoesRowByRow
  <2> QED BY <2>1 DEF RowByRow
<1> DEFINE Good(k) == g[k] \in [Account -> AccountRow] /\ IsFold(g[k], n + k)
           S == {k \in Nat : k <= m => Good(k)}
<1>3. 0 \in S
  <2>1. n + 0 = n
    OBVIOUS
  <2>2. Good(0)
    BY <1>2, <2>1
  <2> QED BY <2>2
<1>4. ASSUME NEW k \in Nat, k \in S PROVE k + 1 \in S
  <2>1. SUFFICES ASSUME k + 1 <= m PROVE Good(k + 1)
    OBVIOUS
  <2>2. Good(k)
    BY <1>4, <2>1
  <2>3. k + 1 \in 1..m /\ (k + 1) - 1 = k /\ n + (k + 1) = (n + k) + 1
    BY <2>1
  <2>4. batch[k + 1] = ledger[(n + k) + 1]
    BY <2>3
  <2>5. (n + k) + 1 \in DOMAIN ledger /\ n + k \in Nat
    BY <2>1
  <2>6. g[k + 1] = Applied(g[k], ledger[(n + k) + 1])
    BY <1>2, <2>3, <2>4
  <2> HIDE DEF S
  <2> QED BY <2>2, <2>3, <2>5, <2>6, NextRowIsApplied
<1> HIDE DEF S, Good
<1>5. Nat \subseteq S
  BY <1>3, <1>4, SetInduction
<1>6. Good(m)
  BY <1>5 DEF S
<1> QED BY <1>2, <1>6 DEF Good

\* A batch of the worker ...
LEMMA BatchIsFolded ==
    ASSUME ledger \in Seq(Row), ChainIntact, applied \in Nat,
           accounts \in [Account -> AccountRow], IsFold(accounts, applied),
           NEW m, NEW batch, NextRows(batch, m)
    PROVE  /\ Folded(accounts, batch) \in [Account -> AccountRow]
           /\ IsFold(Folded(accounts, batch), applied + m)
  BY RowsAreFolded DEF NextRows

\* ... and the whole tail, from any prefix.
LEMMA TailIsFolded ==
    ASSUME ledger \in Seq(Row), ChainIntact, NEW n \in Nat, n <= Len(ledger),
           NEW rows \in [Account -> AccountRow], IsFold(rows, n)
    PROVE  IsFold(Folded(rows, SubSeq(ledger, n + 1, Len(ledger))), Len(ledger))
<1>1. PICK size \in Nat : size = Len(ledger)
  OBVIOUS
<1>2. PICK m \in Nat : n + m = size
  <2>1. size - n \in Nat /\ n + (size - n) = size
    BY <1>1
  <2> QED BY <2>1
<1>3. PICK tail : tail = SubSeq(ledger, n + 1, size)
  OBVIOUS
<1>4. \A i \in n + 1 .. size : ledger[i] \in Row
  BY <1>1
<1>5. n + 1 \in Int /\ size \in Int
  OBVIOUS
<1>6. /\ tail \in Seq(Row)
      /\ Len(tail) = IF n + 1 <= size THEN size - (n + 1) + 1 ELSE 0
      /\ \A i \in 1 .. size - (n + 1) + 1 : tail[i] = ledger[(n + 1) + i - 1]
  BY <1>3, <1>4, <1>5, SubSeqProperties
<1>7. size - (n + 1) + 1 = m /\ Len(tail) = m
  BY <1>2, <1>6
<1>8. \A i \in 1..m : tail[i] = ledger[n + i]
  <2>1. \A i \in 1..m : (n + 1) + i - 1 = n + i
    OBVIOUS
  <2> QED BY <1>6, <1>7, <2>1
<1>9. tail = [k \in 1..m |-> ledger[n + k]]
  BY <1>6, <1>7, <1>8
<1>10. IsFold(Folded(rows, tail), n + m)
  BY <1>1, <1>2, <1>9, RowsAreFolded
<1> QED BY <1>1, <1>2, <1>3, <1>10

LEMMA LatestIsInPrefix ==
    ASSUME NEW a, NEW n \in Nat, OpenedIn(a, n) # {}
    PROVE  Max(OpenedIn(a, n)) \in 1..n /\ Max(AboutIn(a, n)) \in 1..n
<1>1. OpenedIn(a, n) \subseteq 1..n /\ AboutIn(a, n) \subseteq 1..n
  BY DEF OpenedIn, AboutIn
<1>2. OpenedIn(a, n) \subseteq AboutIn(a, n)
  BY DEF OpenedIn, AboutIn
<1>3. ASSUME NEW s \in SUBSET (1..n), s # {} PROVE Max(s) \in 1..n
  <2>1. s \in SUBSET Nat /\ \A y \in s : y <= n
    OBVIOUS
  <2>2. Max(s) \in s
    BY <1>3, <2>1, BoundedHasMax
  <2> QED BY <2>2
<1> QED BY <1>1, <1>2, <1>3

-----------------------------------------------------------------------------
(* A growing ledger. *)

\* What the appender does to the ledger: rows stay, the conflicts change only
\* when a row is added, and new ones are detected by it.
LedgerGrows ==
    /\ \A i \in DOMAIN ledger : i \in DOMAIN ledger' /\ ledger'[i] = ledger[i]
    /\ Len(ledger) <= Len(ledger')
    /\ Len(ledger) = Len(ledger') => conflicts' = conflicts
    /\ Pairs(conflicts) \subseteq Pairs(conflicts')
    /\ \A p \in Pairs(conflicts') : p \in Pairs(conflicts) \/ p[2] > Len(ledger)

\* A conflict keeps its object and its row; a new one is detected by the new row.
LEMMA CommitKeepsPairs ==
    ASSUME NEW ev, NEW seq, NEW status, conflicts \subseteq ConflictRow,
           conflicts' = ConflictsAfter(ev, seq, status)
    PROVE  /\ Pairs(conflicts) \subseteq Pairs(conflicts')
           /\ Pairs(conflicts') \subseteq Pairs(conflicts) \cup {<<ev.object, seq>>}
<1>1. \A c \in ConflictRow : \A e :
         /\ [c EXCEPT !.events = e].object = c.object
         /\ [c EXCEPT !.events = e].detected = c.detected
         /\ [c EXCEPT !.status = "resolved", !.resolution = e].object = c.object
         /\ [c EXCEPT !.status = "resolved", !.resolution = e].detected = c.detected
  BY DEF ConflictRow
<1>2. CASE conflicts' = conflicts
  BY <1>2
<1>3. CASE conflicts' = ResolvedConflict(ev)
  <2> DEFINE New(c) == IF c \in OpenConflicts(ev.object)
                       THEN [c EXCEPT !.status = "resolved", !.resolution = {ev.id}] ELSE c
  <2>1. conflicts' = {New(c) : c \in conflicts}
    BY <1>3 DEF ResolvedConflict
  <2>2. \A c \in conflicts : New(c).object = c.object /\ New(c).detected = c.detected
    BY <1>1
  <2> HIDE DEF New
  <2> QED BY <2>1, <2>2 DEF Pairs
<1>4. CASE conflicts' = OpenedConflict(ev, seq)
  <2>1. CASE OpenConflicts(ev.object) = {}
    <3>1. PICK new : new = [object |-> ev.object, events |-> HeadEventIds(ev.object) \cup {ev.id},
                            detected |-> seq, status |-> "open", resolution |-> {}]
      OBVIOUS
    <3>2. new.object = ev.object /\ new.detected = seq
      BY <3>1
    <3>3. conflicts' = conflicts \cup {new}
      BY <1>4, <2>1, <3>1 DEF OpenedConflict
    <3> QED BY <3>2, <3>3 DEF Pairs
  <2>2. CASE OpenConflicts(ev.object) # {}
    <3> DEFINE New(c) == IF c \in OpenConflicts(ev.object)
                         THEN [c EXCEPT !.events = @ \cup HeadEventIds(ev.object) \cup {ev.id}]
                         ELSE c
    <3>1. conflicts' = {New(c) : c \in conflicts}
      BY <1>4, <2>2 DEF OpenedConflict
    <3>2. \A c \in conflicts : New(c).object = c.object /\ New(c).detected = c.detected
      BY <1>1
    <3> HIDE DEF New
    <3> QED BY <3>1, <3>2 DEF Pairs
  <2> QED BY <2>1, <2>2
<1> QED BY <1>2, <1>3, <1>4 DEF ConflictsAfter

LEMMA WriterGrowsLedger ==
    ASSUME CoreInv, CoreInv', [Next]_vars
    PROVE  LedgerGrows
<1>1. PICK n \in Nat : n = Len(ledger) /\ DOMAIN ledger = 1..n
  BY DEF CoreInv, TypeOK, StoreTypeOK
<1>2. PICK m \in Nat : m = Len(ledger') /\ DOMAIN ledger' = 1..m
  BY DEF CoreInv, TypeOK, StoreTypeOK
<1>3. CASE UNCHANGED store
  BY <1>1, <1>3 DEF LedgerGrows, store
<1>4. ASSUME NEW c \in Caller, Writes(c) PROVE LedgerGrows
  <2>1. PICK ev \in Event, status \in DecidedStatus, error \in ErrorCode :
           Commit(ev, status, error)
    BY <1>4 DEF Writes
  <2>2. /\ DOMAIN ledger' = 1 .. n + 1
        /\ \A i \in DOMAIN ledger : ledger'[i] = ledger[i]
    BY <1>1, <2>1, CommittedRow
  <2>3. n + 1 \in 1..m
    BY <1>2, <2>2
  <2>4. n < m
    BY <2>3
  <2>5. NextServerSequence = n + 1
    BY <1>1, <2>1, CommittedRow
  <2>6. conflicts \subseteq ConflictRow /\ conflicts' = ConflictsAfter(ev, n + 1, status)
    BY <2>1, <2>5 DEF CoreInv, TypeOK, StoreTypeOK, Commit
  <2>7. /\ Pairs(conflicts) \subseteq Pairs(conflicts')
        /\ \A p \in Pairs(conflicts') : p \in Pairs(conflicts) \/ p = <<ev.object, n + 1>>
    BY <2>6, CommitKeepsPairs
  <2>8. \A p : p = <<ev.object, n + 1>> => p[2] > n
    OBVIOUS
  <2> QED BY <1>1, <1>2, <2>2, <2>4, <2>7, <2>8 DEF LedgerGrows
<1> QED BY <1>3, <1>4, StepWrites

\* The fold of a prefix is the same in the longer ledger.
LEMMA FoldIsStable ==
    ASSUME NEW n \in Nat, n <= Len(ledger), ledger \in Seq(Row), LedgerGrows, NEW a
    PROVE  FoldOf(a, n)' = FoldOf(a, n)
<1>1. \A i \in 1..n : ledger'[i] = ledger[i]
  BY DEF LedgerGrows
<1>2. OpenedIn(a, n)' = OpenedIn(a, n)
  BY <1>1 DEF OpenedIn, OpensAt
<1>3. AboutIn(a, n)' = AboutIn(a, n)
  BY <1>1, <1>2 DEF AboutIn, OpensAt, ClosesAt
<1>4. FoldOf(a, n)' =
        IF OpenedIn(a, n)' = {} THEN <<"absent">>
        ELSE <<IF /\ ledger'[Max(AboutIn(a, n)')].event \in Opening
                  /\ accountOf[ledger'[Max(AboutIn(a, n)')].event] = a
               THEN "active" ELSE "closed",
               groupOf[ledger'[Max(OpenedIn(a, n)')].event], Max(AboutIn(a, n)')>>
  <2>1. OpenedIn(a, n)' =
          {i \in 1..n : /\ ledger'[i].status = "accepted"
                        /\ ledger'[i].event \in Opening
                        /\ accountOf[ledger'[i].event] = a}
    BY DEF OpenedIn, OpensAt
  <2>2. AboutIn(a, n)' =
          {i \in 1..n : /\ ledger'[i].status = "accepted"
                        /\ \/ ledger'[i].event \in Opening
                              /\ accountOf[ledger'[i].event] = a
                           \/ ledger'[i].event \in Closing
                              /\ objectId[ledger'[i].event.object] = a
                        /\ \E first \in OpenedIn(a, n)' : first <= i}
    BY DEF AboutIn, OpensAt, ClosesAt
  <2> QED BY <2>1, <2>2, Zenon DEF FoldOf
<1>5. CASE OpenedIn(a, n) = {}
  BY <1>2, <1>4, <1>5, FoldOfSets
<1>6. CASE OpenedIn(a, n) # {}
  <2>1. Max(OpenedIn(a, n)) \in 1..n /\ Max(AboutIn(a, n)) \in 1..n
    BY <1>6, LatestIsInPrefix
  <2>2. /\ ledger'[Max(OpenedIn(a, n))] = ledger[Max(OpenedIn(a, n))]
        /\ ledger'[Max(AboutIn(a, n))] = ledger[Max(AboutIn(a, n))]
    BY <1>1, <2>1
  <2> QED BY <1>2, <1>3, <1>4, <1>6, <2>2, FoldOfSets
<1> QED BY <1>5, <1>6

LEMMA FoldsAreKept ==
    ASSUME ledger \in Seq(Row), LedgerGrows,
           NEW rows, NEW n \in Nat, n <= Len(ledger), IsFold(rows, n)
    PROVE  IsFold(rows, n)'
<1>1. \A a : FoldOf(a, n)' = FoldOf(a, n)
  BY FoldIsStable
<1> QED BY <1>1 DEF IsFold

LEMMA UnchangedGrows == ASSUME ledger \in Seq(Row), UNCHANGED store PROVE LedgerGrows
<1>1. Len(ledger) \in Nat
  OBVIOUS
<1> QED BY <1>1 DEF store, LedgerGrows

-----------------------------------------------------------------------------
(* The tables derived from the accounts. *)

\* The flags are written anew, and nothing else.
LEMMA FlaggingKeepsFold ==
    ASSUME NEW rows \in [Account -> AccountRow], NEW n, IsFold(rows, n)
    PROVE  /\ Flagged(rows) \in [Account -> AccountRow]
           /\ IsFold(Flagged(rows), n)
           /\ \A a \in Account : Flagged(rows)[a].conflicted <=>
                /\ Flagged(rows)[a].status # "absent"
                /\ \E c \in Open : c.object \in AccountObject /\ objectId[c.object] = a
<1> DEFINE Contested(a) == /\ a \in Present(rows)
                           /\ \E c \in Open :
                                c.object \in AccountObject /\ objectId[c.object] = a
<1>1. Flagged(rows) = [a \in Account |-> [rows[a] EXCEPT !.conflicted = Contested(a)]]
  BY DEF Flagged
<1>2. \A a \in Account : Contested(a) \in BOOLEAN
  OBVIOUS
<1>3. \A a \in Account : Contested(a) <=>
        /\ rows[a].status # "absent"
        /\ \E c \in Open : c.object \in AccountObject /\ objectId[c.object] = a
  BY DEF Present
<1> HIDE DEF Contested
<1>4. ASSUME NEW a \in Account
      PROVE  /\ Flagged(rows)[a] \in AccountRow
             /\ AccountState(Flagged(rows)[a]) = AccountState(rows[a])
             /\ Flagged(rows)[a].status = rows[a].status
             /\ Flagged(rows)[a].conflicted = Contested(a)
  <2>1. PICK old \in AccountRow : old = rows[a]
    OBVIOUS
  <2>2. PICK new : new = [old EXCEPT !.conflicted = Contested(a)]
    OBVIOUS
  <2>3. /\ new \in AccountRow /\ new.conflicted = Contested(a)
        /\ new.status = old.status /\ new.group = old.group /\ new.asOf = old.asOf
    BY <1>2, <2>2 DEF AccountRow
  <2>4. Flagged(rows)[a] = new
    BY <1>1, <2>1, <2>2
  <2> QED BY <2>1, <2>3, <2>4 DEF AccountState
<1>5. Flagged(rows) \in [Account -> AccountRow]
  <2>1. Flagged(rows) = [a \in Account |-> Flagged(rows)[a]]
    BY <1>1
  <2> QED BY <1>4, <2>1
<1>6. IsFold(Flagged(rows), n)
  BY <1>4 DEF IsFold
<1> QED BY <1>3, <1>4, <1>5, <1>6

\* The cash position is computed from the rows of accounts that are there, whose
\* as_of_sequence is in the prefix.
LEMMA CashIsTyped ==
    ASSUME NEW rows \in [Account -> AccountRow], NEW n \in Nat, IsFold(rows, n)
    PROVE  CashPosition(rows) \subseteq CashRow
<1>1. ASSUME NEW a \in Present(rows)
      PROVE  rows[a].asOf \in 1..n
  <2>1. a \in Account /\ rows[a].status # "absent"
    BY DEF Present
  <2>2. OpenedIn(a, n) # {}
    BY <2>1, PresentIsOpened
  <2>3. PICK row : row = rows[a]
    OBVIOUS
  <2>4. AccountState(rows[a])[3] = rows[a].asOf
    BY <2>1, <2>3 DEF AccountState
  <2>5. PICK s, g : FoldOf(a, n) = <<s, g, Max(AboutIn(a, n))>>
    BY <2>2, FoldOfSets
  <2>6. FoldOf(a, n)[3] = Max(AboutIn(a, n))
    BY <2>5
  <2>7. AccountState(rows[a]) = FoldOf(a, n)
    BY <2>1 DEF IsFold
  <2> QED BY <2>2, <2>4, <2>6, <2>7, LatestIsInPrefix
<1>2. ASSUME NEW cashed \in CashPosition(rows)
      PROVE  cashed \in CashRow
  <2> DEFINE open == {a \in Present(rows) : rows[a].status # "closed"}
             Dates(g) == {rows[a].asOf : a \in {b \in open : rows[b].group = g}}
  <2>1. PICK g \in {rows[a].group : a \in open} :
           cashed = [group |-> g, asOf |-> Max(Dates(g))]
    BY DEF CashPosition
  <2>2. PICK a \in open : g = rows[a].group
    OBVIOUS
  <2>3. a \in Account /\ rows[a] \in AccountRow
    BY DEF Present
  <2>4. g \in Group
    BY <2>2, <2>3 DEF AccountRow
  <2>5. Dates(g) # {}
    BY <2>2
  <2>6. Dates(g) \in SUBSET Nat /\ \A y \in Dates(g) : y <= n
    BY <1>1
  <2> HIDE DEF Dates
  <2>7. Max(Dates(g)) \in Nat
    BY <2>5, <2>6, BoundedHasMax
  <2> QED BY <2>1, <2>4, <2>7 DEF CashRow
<1> QED BY <1>2

\* An empty table of accounts is what no rows say.
LEMMA NoAccountsIsFold ==
    /\ NoAccounts \in [Account -> AccountRow]
    /\ IsFold(NoAccounts, 0)
    /\ \A a \in Account : NoAccounts[a].status = "absent" /\ ~NoAccounts[a].conflicted
<1>1. PICK g \in Group : g = CHOOSE h \in Group : TRUE
  BY MetadataAssumption
<1>2. PICK none : none = [status |-> "absent", group |-> g, asOf |-> 0, conflicted |-> FALSE]
  OBVIOUS
<1>3. NoAccounts = [a \in Account |-> none]
  BY <1>1, <1>2 DEF NoAccounts
<1>4. none \in AccountRow /\ none.status = "absent" /\ none.conflicted = FALSE
  BY <1>2 DEF AccountRow, AccountStatus
<1>5. \A a : OpenedIn(a, 0) = {}
  BY DEF OpenedIn
<1>6. \A a : FoldOf(a, 0) = <<"absent">>
  BY <1>5, FoldOfSets
<1>7. AccountState(none) = <<"absent">>
  BY <1>4 DEF AccountState
<1> QED BY <1>3, <1>4, <1>6, <1>7 DEF IsFold

-----------------------------------------------------------------------------
(* The invariants. *)

WorkerInv == ProjectionTypeOK /\ AccountsAreFold /\ CaughtUpShowsConflicts

\* What a body says of the ledger: its accounts are those of the prefix that
\* its watermark names.
BodyHolds(s) ==
    /\ s.upTo <= Len(ledger)
    /\ s.hash = RecomputedHash(s.upTo)
    /\ s.applied <= s.upTo
    /\ IsFold(s.accounts, s.applied)
    /\ s.applied = s.upTo => Pairs(s.shown) = OpenAfter(s.upTo)

SnapshotInv ==
    /\ SnapshotTypeOK
    /\ \A s \in snapshots : s \in objects /\ BodyHolds(s)

\* The appender alone keeps the ledger typed and chained, and no conflict is
\* there before a row is.
WriterInv == CoreInv /\ ConflictsAccountedFor

LEMMA WorkerInitially == ReportingInit => WorkerInv /\ SnapshotInv
<1> SUFFICES ASSUME ReportingInit PROVE WorkerInv /\ SnapshotInv
  OBVIOUS
<1>1. /\ ledger = <<>> /\ conflicts = {}
      /\ accounts = NoAccounts /\ cash = {} /\ shown = {} /\ applied = 0
      /\ rebuilding = FALSE /\ objects = {} /\ snapshots = {}
  BY DEF ReportingInit, Init, StoreInit, ProjectionInit, SnapshotInit
<1>2. applied \in Nat /\ applied <= Len(ledger)
  BY <1>1
<1>3. ProjectionTypeOK
  BY <1>1, <1>2, NoAccountsIsFold DEF ProjectionTypeOK
<1>4. AccountsAreFold
  BY <1>1, <1>2, NoAccountsIsFold DEF AccountsAreFold
<1>5. CaughtUpShowsConflicts
  BY <1>1, NoAccountsIsFold DEF CaughtUpShowsConflicts
<1>6. SnapshotInv
  BY <1>1 DEF SnapshotInv, SnapshotTypeOK
<1> QED BY <1>3, <1>4, <1>5, <1>6 DEF WorkerInv

\* The read models stay true while the ledger grows.
LEMMA GrowthKeepsWorker ==
    ASSUME WriterInv, WriterInv', WorkerInv, LedgerGrows, UNCHANGED projectionVars
    PROVE  WorkerInv'
<1>1. /\ accounts' = accounts /\ cash' = cash /\ shown' = shown
      /\ applied' = applied /\ rebuilding' = rebuilding
  BY DEF projectionVars, projectionTables
<1>2. /\ Len(ledger) \in Nat /\ Len(ledger') \in Nat /\ Len(ledger) <= Len(ledger')
      /\ ledger \in Seq(Row)
  BY DEF WriterInv, CoreInv, TypeOK, StoreTypeOK, LedgerGrows
<1>3. applied \in Nat /\ applied <= Len(ledger) /\ IsFold(accounts, applied)
  BY DEF WorkerInv, ProjectionTypeOK, AccountsAreFold
<1>4. PICK rows, n : rows = accounts /\ n = applied
  OBVIOUS
<1>5. IsFold(rows, n)'
  BY <1>2, <1>3, <1>4, FoldsAreKept
<1>6. AccountsAreFold'
  BY <1>1, <1>2, <1>3, <1>4, <1>5 DEF AccountsAreFold
<1>7. applied = Len(ledger') => applied = Len(ledger) /\ conflicts' = conflicts
  BY <1>2, <1>3 DEF LedgerGrows
<1>8. CaughtUpShowsConflicts'
  BY <1>1, <1>7 DEF WorkerInv, CaughtUpShowsConflicts
<1>9. ProjectionTypeOK'
  BY <1>1 DEF WorkerInv, ProjectionTypeOK
<1> QED BY <1>6, <1>8, <1>9 DEF WorkerInv

\* What the worker does not touch.
LEMMA WorkerLeavesLedger ==
    ASSUME WriterInv, UNCHANGED store
    PROVE  /\ LedgerGrows
           /\ ledger' = ledger /\ conflicts' = conflicts
           /\ ledger \in Seq(Row) /\ Len(ledger) \in Nat /\ conflicts \subseteq ConflictRow
<1>1. ledger \in Seq(Row) /\ conflicts \subseteq ConflictRow
  BY DEF WriterInv, CoreInv, TypeOK, StoreTypeOK
<1> QED BY <1>1, UnchangedGrows DEF store

\* A batch, of whatever length, brings the accounts to a later prefix.
LEMMA BatchKeepsWorker ==
    ASSUME WriterInv, WorkerInv, NEW limit \in Nat \ {0}, ApplyBatch(limit)
    PROVE  WorkerInv'
<1>1. /\ LedgerGrows /\ ledger' = ledger /\ conflicts' = conflicts
      /\ ledger \in Seq(Row) /\ Len(ledger) \in Nat /\ conflicts \subseteq ConflictRow
  BY WorkerLeavesLedger DEF ApplyBatch
<1>2. /\ ChainIntact /\ applied \in Nat /\ applied <= Len(ledger)
      /\ accounts \in [Account -> AccountRow] /\ IsFold(accounts, applied)
  BY DEF WriterInv, CoreInv, WorkerInv, ProjectionTypeOK, AccountsAreFold
<1>3. PICK batch : batch = EventsAfter(applied, limit)
  OBVIOUS
<1>4. PICK m : NextRows(batch, m)
  BY <1>1, <1>2, <1>3, BatchIsNextRows
<1>5. PICK folded : folded = Folded(accounts, batch)
  OBVIOUS
<1>6. PICK rows : rows = Flagged(folded)
  OBVIOUS
<1>7. PICK n : n = applied + m
  OBVIOUS
<1>8. /\ accounts' = rows /\ cash' = CashPosition(rows) /\ shown' = Open
      /\ applied' = IF batch = <<>> THEN applied ELSE Last(batch).seq
      /\ rebuilding' = (rebuilding /\ batch # <<>>)
  BY <1>3, <1>5, <1>6 DEF ApplyBatch, Folded
<1>9. n \in Nat /\ n <= Len(ledger) /\ m \in Nat
  BY <1>1, <1>2, <1>4, <1>7 DEF NextRows
<1>10. folded \in [Account -> AccountRow] /\ IsFold(folded, n)
  BY <1>1, <1>2, <1>4, <1>5, <1>7, BatchIsFolded
<1>11. /\ rows \in [Account -> AccountRow] /\ IsFold(rows, n)
       /\ \A a \in Account : rows[a].conflicted <=>
            /\ rows[a].status # "absent"
            /\ \E c \in Open : c.object \in AccountObject /\ objectId[c.object] = a
  BY <1>6, <1>10, FlaggingKeepsFold
<1>12. applied' = n
  <2>1. batch = [k \in 1..m |-> ledger[applied + k]]
    BY <1>4 DEF NextRows
  <2>2. CASE m = 0
    <3>1. batch = <<>>
      BY <2>1, <2>2
    <3> QED BY <1>2, <1>7, <1>8, <2>2, <3>1
  <2>3. CASE m # 0
    <3>1. \A k \in 1..m : applied + k \in DOMAIN ledger
      BY <1>1, <1>2, <1>4, <1>9 DEF NextRows
    <3>2. batch \in [1..m -> Row]
      BY <1>1, <2>1, <3>1
    <3>3. Len(batch) = m /\ batch # <<>> /\ m \in 1..m
      BY <1>9, <2>3, <3>2
    <3>4. Last(batch) = ledger[applied + m]
      BY <2>1, <3>3 DEF Last
    <3>5. ledger[applied + m].seq = applied + m
      BY <1>2, <3>1, <3>3 DEF ChainIntact
    <3> QED BY <1>7, <1>8, <3>3, <3>4, <3>5
  <2> QED BY <2>2, <2>3
<1>13. AccountsAreFold'
  <2>1. IsFold(rows, n)'
    BY <1>1, <1>9, <1>11, FoldsAreKept
  <2> QED BY <1>1, <1>8, <1>9, <1>12, <2>1 DEF AccountsAreFold
<1>14. shown' = {c \in conflicts : c.status = "open"}
  BY <1>8 DEF Open
<1>15. CaughtUpShowsConflicts'
  BY <1>1, <1>8, <1>11, <1>14 DEF CaughtUpShowsConflicts, Open
<1>16. ProjectionTypeOK'
  <2>1. CashPosition(rows) \subseteq CashRow
    BY <1>9, <1>11, CashIsTyped
  <2>2. shown' \subseteq ConflictRow
    BY <1>1, <1>14
  <2>3. rebuilding' \in BOOLEAN
    BY <1>8
  <2> QED BY <1>8, <1>9, <1>11, <1>12, <2>1, <2>2, <2>3 DEF ProjectionTypeOK
<1> QED BY <1>13, <1>15, <1>16 DEF WorkerInv

\* A cleared database is that of no rows; it shows no conflict, which is right
\* if there are no rows, for then there are no conflicts.
LEMMA ClearingKeepsWorker ==
    ASSUME WriterInv, WorkerInv, StartRebuild
    PROVE  WorkerInv'
<1>1. /\ LedgerGrows /\ ledger' = ledger /\ conflicts' = conflicts
      /\ ledger \in Seq(Row) /\ Len(ledger) \in Nat
  BY WorkerLeavesLedger DEF StartRebuild
<1>2. /\ accounts' = NoAccounts /\ cash' = {} /\ shown' = {} /\ applied' = 0
      /\ rebuilding' = TRUE
  BY DEF StartRebuild, Cleared
<1>3. PICK rows, n : rows = NoAccounts /\ n = 0
  OBVIOUS
<1>4. IsFold(rows, n) /\ n \in Nat /\ n <= Len(ledger)
  BY <1>1, <1>3, NoAccountsIsFold
<1>5. IsFold(rows, n)'
  BY <1>1, <1>4, FoldsAreKept
<1>6. AccountsAreFold'
  BY <1>1, <1>2, <1>3, <1>4, <1>5 DEF AccountsAreFold
<1>7. Len(ledger) = 0 => conflicts = {}
  <2>1. \A c \in conflicts : c.detected \in DOMAIN ledger
    BY DEF WriterInv, ConflictsAccountedFor, NamesBothSides
  <2>2. DOMAIN ledger = 1..Len(ledger)
    BY <1>1
  <2> QED BY <2>1, <2>2
<1>8. CaughtUpShowsConflicts'
  BY <1>1, <1>2, <1>7, NoAccountsIsFold DEF CaughtUpShowsConflicts
<1>9. ProjectionTypeOK'
  BY <1>2, NoAccountsIsFold DEF ProjectionTypeOK
<1> QED BY <1>6, <1>8, <1>9 DEF WorkerInv

LEMMA WorkerStepKeeps ==
    ASSUME WriterInv, WriterInv', WorkerInv, ProjectionNext
    PROVE  WorkerInv'
<1>1. ASSUME NEW limit \in Limits \cup {RebuildLimit}, ApplyBatch(limit)
      PROVE  WorkerInv'
  <2>1. limit \in Nat \ {0}
    BY LimitAssumption
  <2> QED BY <1>1, <2>1, BatchKeepsWorker
<1>2. CASE ApplyNextBatch
  BY <1>1, <1>2 DEF ApplyNextBatch
<1>3. CASE StartRebuild
  BY <1>3, ClearingKeepsWorker
<1>4. CASE ContinueRebuild
  BY <1>1, <1>4 DEF ContinueRebuild
<1>5. CASE RebuildStops
  <2>1. /\ ledger' = ledger /\ conflicts' = conflicts /\ rebuilding' = FALSE
        /\ accounts' = accounts /\ cash' = cash /\ shown' = shown /\ applied' = applied
    BY <1>5 DEF RebuildStops, store, projectionTables
  <2>2. LedgerGrows /\ ledger \in Seq(Row) /\ Len(ledger) \in Nat
    BY <1>5, WorkerLeavesLedger DEF RebuildStops
  <2>3. applied \in Nat /\ applied <= Len(ledger) /\ IsFold(accounts, applied)
    BY DEF WorkerInv, ProjectionTypeOK, AccountsAreFold
  <2>4. PICK rows, n : rows = accounts /\ n = applied
    OBVIOUS
  <2>5. IsFold(rows, n)'
    BY <2>2, <2>3, <2>4, FoldsAreKept
  <2>6. AccountsAreFold'
    BY <2>1, <2>3, <2>4, <2>5 DEF AccountsAreFold
  <2>7. ProjectionTypeOK' /\ CaughtUpShowsConflicts'
    BY <2>1 DEF WorkerInv, ProjectionTypeOK, CaughtUpShowsConflicts
  <2> QED BY <2>6, <2>7 DEF WorkerInv
<1> QED BY <1>2, <1>3, <1>4, <1>5 DEF ProjectionNext

\* A longer ledger leaves the same conflicts open after a prefix of it.
LEMMA OpenAfterIsStable ==
    ASSUME WriterInv, WriterInv', LedgerGrows, NEW n \in Nat, n <= Len(ledger)
    PROVE  OpenAfter(n)' = OpenAfter(n)
<1>1. PICK size \in Nat : size = Len(ledger) /\ DOMAIN ledger = 1..size
  BY DEF WriterInv, CoreInv, TypeOK, StoreTypeOK
<1>2. PICK later \in Nat : later = Len(ledger') /\ DOMAIN ledger' = 1..later
  BY DEF WriterInv, CoreInv, TypeOK, StoreTypeOK
<1>3. size <= later /\ \A i \in 1..size : ledger'[i] = ledger[i]
  BY <1>1, <1>2 DEF LedgerGrows
<1>4. \A o, i : i \in 1..size => (AcceptedOn(o, i)' <=> AcceptedOn(o, i))
  BY <1>1, <1>2, <1>3 DEF AcceptedOn
<1>5. ASSUME NEW o, NEW d
      PROVE  (\A i \in DOMAIN ledger' : i > d /\ AcceptedOn(o, i)' => i > n)
                <=> \A i \in DOMAIN ledger : i > d /\ AcceptedOn(o, i) => i > n
  <2>1. \A i \in 1..later : i \in 1..size \/ i > n
    BY <1>1
  <2>2. 1..size \subseteq 1..later
    BY <1>3
  <2> QED BY <1>1, <1>2, <1>4, <2>1, <2>2
<1>6. \A p \in Pairs(conflicts) \cup Pairs(conflicts') : p[2] \in Nat
  <2>1. conflicts \subseteq ConflictRow /\ conflicts' \subseteq ConflictRow
    BY DEF WriterInv, CoreInv, TypeOK, StoreTypeOK
  <2> QED BY <2>1 DEF Pairs, ConflictRow
<1>7. \A p : p \in Pairs(conflicts') /\ p[2] <= n <=> p \in Pairs(conflicts) /\ p[2] <= n
  <2>1. \A p : p[2] \in Nat /\ p[2] > size => ~(p[2] <= n)
    BY <1>1
  <2> QED BY <1>1, <1>6, <2>1 DEF LedgerGrows
<1>8. OpenAfter(n)' =
        {p \in Pairs(conflicts') :
           /\ p[2] <= n
           /\ \A i \in DOMAIN ledger' : i > p[2] /\ AcceptedOn(p[1], i)' => i > n}
  BY DEF OpenAfter, Pairs
<1> QED BY <1>5, <1>7, <1>8 DEF OpenAfter

\* What a body says of the ledger stays true while the ledger grows.
LEMMA BodiesKeepHolding ==
    ASSUME WriterInv, WriterInv', LedgerGrows, NEW s \in Body, BodyHolds(s)
    PROVE  BodyHolds(s)'
<1>1. /\ Len(ledger) \in Nat /\ Len(ledger') \in Nat /\ Len(ledger) <= Len(ledger')
      /\ ledger \in Seq(Row) /\ DOMAIN ledger = 1..Len(ledger)
  BY DEF WriterInv, CoreInv, TypeOK, StoreTypeOK, LedgerGrows
<1>2. s.upTo \in Nat /\ s.applied \in Nat /\ s.upTo <= Len(ledger) /\ s.applied <= Len(ledger)
  BY <1>1 DEF Body, BodyHolds
<1>3. \A i \in 1..s.upTo : ledger'[i] = ledger[i]
  BY <1>1, <1>2 DEF LedgerGrows
<1>4. RecomputedHash(s.upTo)' = RecomputedHash(s.upTo)
  BY <1>3 DEF RecomputedHash
<1>5. PICK rows, n : rows = s.accounts /\ n = s.applied
  OBVIOUS
<1>6. IsFold(rows, n)'
  BY <1>1, <1>2, <1>5, FoldsAreKept DEF BodyHolds
<1>7. PICK up, pairs : up = s.upTo /\ pairs = Pairs(s.shown)
  OBVIOUS
<1>8. OpenAfter(up)' = OpenAfter(up)
  BY <1>2, <1>7, OpenAfterIsStable
<1>9. (s.applied = s.upTo => Pairs(s.shown) = OpenAfter(s.upTo))'
  BY <1>7, <1>8 DEF BodyHolds, Pairs
<1> QED BY <1>1, <1>2, <1>4, <1>5, <1>6, <1>9 DEF BodyHolds

LEMMA SnapshotsInBodies ==
    SnapshotInv <=>
        /\ objects \subseteq Body /\ snapshots \subseteq Body
        /\ \A s \in snapshots : s \in objects /\ BodyHolds(s)
  BY DEF SnapshotInv, SnapshotTypeOK

\* The conflicts that are open now are those that the whole ledger leaves open:
\* nothing is accepted on an object before its conflict is resolved.
LEMMA OpenAreLeftOpen ==
    ASSUME WriterInv, NEW n, n = Len(ledger)
    PROVE  Pairs({c \in conflicts : c.status = "open"}) = OpenAfter(n)
<1>1. n \in Nat /\ DOMAIN ledger = 1..n
  BY DEF WriterInv, CoreInv, TypeOK, StoreTypeOK
<1>2. ASSUME NEW c \in conflicts
      PROVE  /\ c.detected <= n
             /\ c.status = "open" <=> StillFrozen(c)
  <2>1. /\ c.detected \in 1..n
        /\ c.status = "open" => StillFrozen(c)
        /\ c.status = "resolved" => ResolvedByFirst(c)
    BY <1>1 DEF WriterInv, ConflictsAccountedFor, NamesBothSides
  <2>2. c.status \in {"open", "resolved"}
    BY DEF WriterInv, CoreInv, TypeOK, StoreTypeOK, ConflictRow
  <2>3. ResolvedByFirst(c) => ~StillFrozen(c)
    BY DEF ResolvedByFirst, StillFrozen
  <2> QED BY <1>1, <2>1, <2>2, <2>3
<1>3. ASSUME NEW c \in conflicts
      PROVE  StillFrozen(c) <=>
                \A i \in DOMAIN ledger : i > c.detected /\ AcceptedOn(c.object, i) => i > n
  BY <1>1 DEF StillFrozen
<1>4. \A p : p \in OpenAfter(n) <=>
         \E c \in conflicts : /\ p = <<c.object, c.detected>>
                              /\ c.detected <= n
                              /\ StillFrozen(c)
  BY <1>3 DEF OpenAfter, Pairs
<1>5. \A p : p \in Pairs({c \in conflicts : c.status = "open"}) <=>
         \E c \in conflicts : p = <<c.object, c.detected>> /\ c.status = "open"
  BY DEF Pairs
<1> QED BY <1>2, <1>4, <1>5

\* The body of a new snapshot describes the ledger as it is.
LEMMA NewBodyHolds ==
    ASSUME WriterInv, WorkerInv
    PROVE  SnapshotBody \in Body /\ BodyHolds(SnapshotBody)
<1>1. ledger \in Seq(Row) /\ ChainIntact
  BY DEF WriterInv, CoreInv, TypeOK, StoreTypeOK
<1>2. PICK n \in Nat : n = Len(ledger)
  BY <1>1
<1>3. UpToSequence = n
  <2>1. NextServerSequence = n + 1
    BY <1>1, <1>2, NextSequenceIsNextPosition
  <2> QED BY <2>1 DEF UpToSequence
<1>4. PreviousLedgerHash = RecomputedHash(n) /\ PreviousLedgerHash \in Hash
  BY <1>1, <1>2, PreviousHashIsRecomputed, RecomputedHashExtends
<1>5. PICK s : s = SnapshotBody
  OBVIOUS
<1>6. /\ s.upTo = n /\ s.hash = PreviousLedgerHash /\ s.applied = applied
      /\ s.accounts = accounts /\ s.cash = cash /\ s.shown = shown
  BY <1>3, <1>5 DEF SnapshotBody
<1>7. /\ applied \in Nat /\ applied <= n /\ accounts \in [Account -> AccountRow]
      /\ cash \subseteq CashRow /\ shown \subseteq ConflictRow /\ IsFold(accounts, applied)
  BY <1>2 DEF WorkerInv, ProjectionTypeOK, AccountsAreFold
<1>8. SnapshotBody \in Body
  BY <1>3, <1>4, <1>7 DEF SnapshotBody, Body
<1>9. applied = n => Pairs(shown) = OpenAfter(n)
  <2>1. applied = n => shown = {c \in conflicts : c.status = "open"}
    BY <1>2 DEF WorkerInv, CaughtUpShowsConflicts
  <2> QED BY <1>2, <2>1, OpenAreLeftOpen
<1>10. BodyHolds(s)
  BY <1>2, <1>4, <1>6, <1>7, <1>9 DEF BodyHolds
<1> QED BY <1>5, <1>8, <1>10

LEMMA GrowthKeepsSnapshots ==
    ASSUME WriterInv, WriterInv', SnapshotInv, LedgerGrows, UNCHANGED snapshotVars
    PROVE  SnapshotInv'
<1>1. objects' = objects /\ snapshots' = snapshots
  BY DEF snapshotVars
<1>2. objects \subseteq Body /\ snapshots \subseteq Body
      /\ \A s \in snapshots : s \in objects /\ BodyHolds(s)
  BY SnapshotsInBodies
<1>3. \A s \in snapshots : BodyHolds(s)'
  BY <1>2, BodiesKeepHolding
<1>4. \A s \in snapshots' : s \in objects' /\ BodyHolds(s)'
  BY <1>1, <1>2, <1>3
<1> QED BY <1>1, <1>2, <1>4 DEF SnapshotInv, SnapshotTypeOK

LEMMA SnapshotStepKeeps ==
    ASSUME WriterInv, WriterInv', WorkerInv, SnapshotInv, SnapshotNext
    PROVE  WorkerInv' /\ SnapshotInv'
<1>1. /\ UNCHANGED store /\ UNCHANGED projectionVars
      /\ objects' = objects \cup {SnapshotBody}
      /\ snapshots' = snapshots \/ snapshots' = snapshots \cup {SnapshotBody}
  BY DEF SnapshotNext, CreateSnapshot, SnapshotInterrupted, PutObject
<1>2. LedgerGrows
  BY <1>1, WorkerLeavesLedger
<1>3. PICK new : new = SnapshotBody
  OBVIOUS
<1>4. new \in Body /\ BodyHolds(new)
  BY <1>3, NewBodyHolds
<1>5. objects \subseteq Body /\ snapshots \subseteq Body
      /\ \A s \in snapshots : s \in objects /\ BodyHolds(s)
  BY SnapshotsInBodies
<1>6. \A s \in snapshots \cup {new} : s \in Body /\ s \in objects' /\ BodyHolds(s)'
  BY <1>1, <1>2, <1>3, <1>4, <1>5, BodiesKeepHolding
<1>7. snapshots' \subseteq snapshots \cup {new} /\ objects' \subseteq Body
  BY <1>1, <1>3, <1>4, <1>5
<1>8. SnapshotInv'
  BY <1>6, <1>7 DEF SnapshotInv, SnapshotTypeOK
<1> QED BY <1>1, <1>2, <1>8, GrowthKeepsWorker

LEMMA ReportingStep ==
    WriterInv /\ WriterInv' /\ WorkerInv /\ SnapshotInv /\ [ReportingNext]_reportingVars
        => WorkerInv' /\ SnapshotInv'
<1> SUFFICES ASSUME WriterInv, WriterInv', WorkerInv, SnapshotInv,
                    [ReportingNext]_reportingVars
             PROVE  WorkerInv' /\ SnapshotInv'
  OBVIOUS
<1>1. CASE UNCHANGED reportingVars
  <2>1. UNCHANGED store /\ UNCHANGED projectionVars /\ UNCHANGED snapshotVars
    BY <1>1 DEF reportingVars, readVars, vars
  <2> QED BY <2>1, WorkerLeavesLedger, GrowthKeepsWorker, GrowthKeepsSnapshots
<1>2. CASE WriterStep
  <2>1. LedgerGrows
    BY <1>2, WriterGrowsLedger DEF WriterStep, WriterInv
  <2>2. UNCHANGED projectionVars /\ UNCHANGED snapshotVars
    BY <1>2 DEF WriterStep, readVars
  <2> QED BY <2>1, <2>2, GrowthKeepsWorker, GrowthKeepsSnapshots
<1>3. CASE WorkerStep
  <2>1. ProjectionNext /\ UNCHANGED snapshotVars
    BY <1>3 DEF WorkerStep
  <2>2. UNCHANGED store
    BY <2>1 DEF ProjectionNext, ApplyNextBatch, StartRebuild, ContinueRebuild,
                RebuildStops, ApplyBatch
  <2> QED BY <2>1, <2>2, WorkerStepKeeps, WorkerLeavesLedger, GrowthKeepsSnapshots
<1>4. CASE SnapshotStep
  BY <1>4, SnapshotStepKeeps DEF SnapshotStep
<1> QED BY <1>1, <1>2, <1>3, <1>4 DEF ReportingNext

-----------------------------------------------------------------------------
(* The theorems. *)

\* The read side never writes: to the appender every step of a worker is a
\* stutter, so all that is proved of the appender is true of this system.
THEOREM ReadersOnlyRead == ReportingSpec => Spec
<1>1. ReportingInit => Init
  BY DEF ReportingInit
<1>2. [ReportingNext]_reportingVars => [Next]_vars
  <2> SUFFICES ASSUME [ReportingNext]_reportingVars PROVE [Next]_vars
    OBVIOUS
  <2>1. CASE UNCHANGED reportingVars
    BY <2>1 DEF reportingVars
  <2>2. CASE WriterStep
    BY <2>2 DEF WriterStep
  <2>3. CASE WorkerStep
    <3>1. UNCHANGED store
      BY <2>3 DEF WorkerStep, ProjectionNext, ApplyNextBatch, StartRebuild,
                  ContinueRebuild, RebuildStops, ApplyBatch
    <3> QED BY <2>3, <3>1 DEF WorkerStep, vars, callVars
  <2>4. CASE SnapshotStep
    <3>1. UNCHANGED store
      BY <2>4 DEF SnapshotStep, SnapshotNext, CreateSnapshot, SnapshotInterrupted
    <3> QED BY <2>4, <3>1 DEF SnapshotStep, vars, callVars
  <2> QED BY <2>1, <2>2, <2>3, <2>4 DEF ReportingNext
<1> QED BY <1>1, <1>2, PTL DEF ReportingSpec, Spec

LEMMA WriterStaysSound == Spec => []WriterInv
<1>1. Init => CoreInv
  BY CoreInitially
<1>2. CoreInv /\ [Next]_vars => CoreInv'
  BY CoreInductive
<1>3. CoreInv /\ ConflictsAccountedFor => WriterInv
  BY DEF WriterInv
<1> QED BY <1>1, <1>2, <1>3, ConflictsStayAccountedFor, PTL DEF Spec

LEMMA ReadersStaySound == ReportingSpec => [](WriterInv /\ WorkerInv /\ SnapshotInv)
  BY WorkerInitially, ReportingStep, ReadersOnlyRead, WriterStaysSound, PTL
  DEF ReportingSpec

\* The tables of the writer, the worker and the snapshots keep their types.
THEOREM ReportingStaysTyped == ReportingSpec => []ReportingTypeOK
<1>1. WriterInv /\ WorkerInv /\ SnapshotInv => ReportingTypeOK
  BY DEF WriterInv, CoreInv, WorkerInv, SnapshotInv, ReportingTypeOK
<1> QED BY <1>1, ReadersStaySound, PTL

\* applyNextBatch and rebuildAll: for every ledger, every cut into batches and
\* every rebuild that stops half-way, the accounts are what the applied prefix
\* of the ledger says of them.
THEOREM AccountsStayFolds == ReportingSpec => []AccountsAreFold
<1>1. WorkerInv => AccountsAreFold
  BY DEF WorkerInv
<1> QED BY <1>1, ReadersStaySound, PTL

\* syncOpenConflicts reads tables that are ahead of its batch; once the worker
\* has caught up, what it shows is exact.
THEOREM ConflictsAreShown == ReportingSpec => []CaughtUpShowsConflicts
<1>1. WorkerInv => CaughtUpShowsConflicts
  BY DEF WorkerInv
<1> QED BY <1>1, ReadersStaySound, PTL

LEMMA SnapshotsBootstrapNow ==
    ASSUME WriterInv, SnapshotInv
    PROVE  SnapshotsBootstrap
<1> SUFFICES ASSUME NEW s \in snapshots
             PROVE  /\ s \in objects
                    /\ s.upTo <= Len(ledger)
                    /\ s.hash = RecomputedHash(s.upTo)
                    /\ s.applied <= s.upTo
                    /\ IsFold(Bootstrapped(s), Len(ledger))
                    /\ s.applied = s.upTo => Pairs(s.shown) = OpenAfter(s.upTo)
  BY DEF SnapshotsBootstrap
<1>1. s \in Body /\ s \in objects /\ BodyHolds(s)
  BY SnapshotsInBodies
<1>2. ledger \in Seq(Row) /\ ChainIntact /\ Len(ledger) \in Nat
  BY DEF WriterInv, CoreInv, TypeOK, StoreTypeOK
<1>3. /\ s.applied \in Nat /\ s.upTo \in Nat /\ s.accounts \in [Account -> AccountRow]
      /\ s.applied <= Len(ledger) /\ IsFold(s.accounts, s.applied)
  BY <1>1, <1>2 DEF Body, BodyHolds
<1>4. IsFold(Folded(s.accounts, SubSeq(ledger, s.applied + 1, Len(ledger))), Len(ledger))
  BY <1>2, <1>3, TailIsFolded
<1>5. IsFold(Bootstrapped(s), Len(ledger))
  BY <1>4 DEF Bootstrapped, Folded
<1> QED BY <1>1, <1>5 DEF BodyHolds

\* createSnapshot: whenever it is called, however the ledger grows after it and
\* however long the tail is, the rows after its watermark lead from its accounts
\* to those of the ledger; and a body of a worker that had caught up shows the
\* conflicts that were open at its sequence.
THEOREM SnapshotsStayUsable == ReportingSpec => []SnapshotsBootstrap
<1>1. WriterInv /\ SnapshotInv => SnapshotsBootstrap
  BY SnapshotsBootstrapNow
<1> QED BY <1>1, ReadersStaySound, PTL
=============================================================================
