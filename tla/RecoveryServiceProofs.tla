------------------------- MODULE RecoveryServiceProofs -------------------------
(***************************************************************************)
(* Theorems about RecoveryService, for every set of executives, devices,   *)
(* events, ceremonies, custodians and packages, and every threshold.       *)
(***************************************************************************)
EXTENDS RecoveryService, LedgerStoreProofs

-----------------------------------------------------------------------------
(* The inductive invariant, in layers. *)

\* The id of a ceremony is a key, and there are finitely many ceremonies.
CeremoniesKeyed ==
    /\ IsFiniteSet(ceremonies)
    /\ \A c, d \in ceremonies : c.id = d.id => c = d

CoreInv == TypeOK /\ ChainIntact /\ CeremoniesKeyed

\* The windows with their places in the ledger: the first one begins with it,
\* and each later one begins before the two rows that record it.
WindowsInv ==
    /\ AuthorityWindows
    /\ \A x \in Executive :
          /\ KeyVersion(x) >= 1
          /\ keys[x][1].from = 0
          /\ \A v \in 2..KeyVersion(x) : keys[x][v].from + 2 <= Len(ledger)

\* The approvals of a ceremony are of different custodians, and whatever is
\* past "open" has enough of them.
ApprovalsInv ==
    \A c \in ceremonies :
        /\ IsFiniteSet(c.approvals)
        /\ \A a \in c.approvals : a.approver \in Custodian
        /\ \A a, b \in c.approvals : a.approver = b.approver => a = b
        /\ c.status # "open" => MeetsThreshold(c.approvals)

\* Once a ceremony is initiated its target has no enrolled device.
TargetsLockedOut ==
    \A c \in ceremonies, d \in Device :
        devices[d].owner = c.target => devices[d].status # "enrolled"

-----------------------------------------------------------------------------
(* The rows that an execution appends. *)

\* Two rows appended to an intact ledger, the second one chained to the first.
LEMMA TwoRowsKeepChain ==
    ASSUME ledger \in Seq(Row), ChainIntact, NEW n \in Nat, n = Len(ledger),
           NEW performed \in Event, NEW rotated \in Event,
           ledger' = ledger \o RecoveryRows(performed, rotated)
    PROVE  /\ ledger' \in Seq(Row)
           /\ ChainIntact'
           /\ NextServerSequence = n + 1
           /\ DOMAIN ledger = 1..n
           /\ DOMAIN ledger' = 1 .. n + 2
           /\ \A i \in 1..n : ledger'[i] = ledger[i]
           /\ ledger'[n + 1] = RecoveryRows(performed, rotated)[1]
           /\ ledger'[n + 2] = RecoveryRows(performed, rotated)[2]
           /\ ledger'[n + 1].event = performed /\ ledger'[n + 1].status = "accepted"
           /\ ledger'[n + 2].event = rotated /\ ledger'[n + 2].status = "accepted"
<1>1. PICK first : first = NewRow(performed, "accepted", "none")
  OBVIOUS
<1>2. PICK second :
         second = [event |-> rotated, seq |-> first.seq + 1, status |-> "accepted",
                   error |-> "none", prev |-> first.hash,
                   hash |-> LedgerHash(first.hash, first.seq + 1, rotated)]
  OBVIOUS
<1>3. RecoveryRows(performed, rotated) = <<first, second>>
  BY <1>1, <1>2 DEF RecoveryRows
<1>4. ledger' = ledger \o <<first, second>>
  BY <1>3
<1> QED
  BY <1>1, <1>2, <1>3, <1>4, TwoInsertsKeepChain

\* What an execution does to the keys of its target.
LEMMA RotationOfKeys ==
    ASSUME CoreInv, NEW x \in Executive, KeyVersion(x) >= 1, keys' = RotatedKeys(x),
           NEW n \in Nat, n = Len(ledger), NEW k \in Nat, k = KeyVersion(x)
    PROVE  /\ keys' \in [Executive -> Seq(KeyWindow)]
           /\ KeyVersion(x)' = k + 1
           /\ keys'[x][k + 1] = [from |-> n, until |-> OpenEnded]
           /\ \A v \in 1..k : keys'[x][v].from = keys[x][v].from
           /\ \A v \in 1 .. k - 1 : keys'[x][v] = keys[x][v]
           /\ keys'[x][k].until = n
           /\ \A y \in Executive : y # x => keys'[y] = keys[y]
<1>1. CurrentHeadSequence = n
  BY NextSequenceIsNextPosition DEF CurrentHeadSequence, CoreInv, TypeOK, StoreTypeOK
<1>2. keys \in [Executive -> Seq(KeyWindow)] /\ k = Len(keys[x])
  BY DEF CoreInv, TypeOK, StoreTypeOK, KeyVersion
<1>3. KeyReplaced(x, k, n)
  BY <1>1 DEF RotatedKeys, KeyReplaced
<1>4. k >= 1
  OBVIOUS
<1>5. WindowsAfter(x, k, n)
  BY <1>2, <1>3, <1>4, KeysAreReplaced
<1> QED
  BY <1>5 DEF WindowsAfter, KeyVersion

-----------------------------------------------------------------------------
(* Types and the chain. *)

LEMMA CoreInitial == Init => CoreInv
<1> SUFFICES ASSUME Init PROVE CoreInv
  OBVIOUS
<1>1. StoreTypeOK
  <2>1. \A x \in Executive : <<[from |-> 0, until |-> OpenEnded]>> \in Seq(KeyWindow)
    BY DEF KeyWindow
  <2>2. NoHead \in HeadRow
    BY DEF NoHead, HeadRow
  <2> QED
    BY <2>1, <2>2, BootAssumption DEF Init, StoreInit, StoreTypeOK
<1>2. packages \subseteq PackageRow
  BY DEF Init, PackageRow
<1>3. ChainIntact
  BY DEF Init, StoreInit, ChainIntact
<1>4. CeremoniesKeyed
  BY FS_EmptySet DEF Init, CeremoniesKeyed
<1> QED
  BY <1>1, <1>2, <1>3, <1>4 DEF Init, CoreInv, TypeOK

\* A ceremony is replaced by another one of the same id.
LEMMA ReplacedCeremony ==
    ASSUME CeremoniesKeyed, ceremonies \subseteq CeremonyRow,
           NEW c \in ceremonies, NEW d \in CeremonyRow, d.id = c.id,
           ceremonies' = (ceremonies \ {c}) \cup {d}
    PROVE  CeremoniesKeyed' /\ ceremonies' \subseteq CeremonyRow
<1>1. IsFiniteSet(ceremonies \ {c})
  BY FS_RemoveElement DEF CeremoniesKeyed
<1>2. IsFiniteSet(ceremonies')
  BY <1>1, FS_AddElement
<1> QED
  BY <1>2 DEF CeremoniesKeyed

\* initiateCeremony adds one open ceremony and changes no key and no row.
LEMMA InitiateKeepsCore ==
    ASSUME CoreInv, NEW id \in Ceremony, NEW x \in Executive, InitiateCeremony(id, x)
    PROVE  CoreInv'
<1> DEFINE c == [id |-> id, target |-> x, status |-> "open", approvals |-> {}]
<1>1. ledger' = ledger /\ heads' = heads /\ conflicts' = conflicts /\ keys' = keys
      /\ packages' = packages /\ acks' = acks /\ ceremonies' = ceremonies \cup {c}
  BY DEF InitiateCeremony
<1>2. c \in CeremonyRow
  BY DEF CeremonyRow
<1>3. devices' \in [Device -> DeviceRow]
  <2>1. devices \in [Device -> DeviceRow] /\ devices' = Quarantined(x)
    BY DEF InitiateCeremony, CoreInv, TypeOK, StoreTypeOK
  <2>2. ASSUME NEW d \in Device
        PROVE  [devices[d] EXCEPT !.status = "quarantined"] \in DeviceRow
    BY <2>1 DEF DeviceRow, DeviceStatus
  <2> QED
    BY <2>1, <2>2 DEF Quarantined
<1>4. executives' \in [Executive -> ExecutiveStatus]
  BY DEF InitiateCeremony, CoreInv, TypeOK, StoreTypeOK, ExecutiveStatus
<1>5. TypeOK'
  BY <1>1, <1>2, <1>3, <1>4 DEF CoreInv, TypeOK, StoreTypeOK
<1>6. CeremoniesKeyed'
  <2>1. IsFiniteSet(ceremonies')
    BY <1>1, FS_AddElement DEF CoreInv, CeremoniesKeyed
  <2>2. \A e \in ceremonies : e.id # c.id
    BY DEF InitiateCeremony
  <2> HIDE DEF c
  <2> QED
    BY <1>1, <2>1, <2>2 DEF CoreInv, CeremoniesKeyed
<1>7. ChainIntact'
  <2>1. \A k : RecomputedHash(k)' = RecomputedHash(k)
    BY <1>1 DEF RecomputedHash
  <2> QED
    BY <1>1, <2>1 DEF CoreInv, ChainIntact
<1> QED
  BY <1>5, <1>6, <1>7 DEF CoreInv

\* The ceremony with one more approval, whatever its status becomes.
ApprovedCeremony(c, x) ==
    LET approvals == c.approvals \cup {[approver |-> x, version |-> KeyVersion(x)]}
    IN  [c EXCEPT !.approvals = approvals,
                  !.status = IF MeetsThreshold(approvals) THEN "threshold_met" ELSE c.status]

\* approveCeremony touches the one ceremony.
LEMMA ApproveKeepsCore ==
    ASSUME CoreInv, NEW c \in ceremonies, NEW x \in Custodian, ApproveCeremony(c, x)
    PROVE  /\ CoreInv'
           /\ UNCHANGED <<store, packages, acks>>
           /\ ApprovedCeremony(c, x) \in CeremonyRow
           /\ ceremonies' = (ceremonies \ {c}) \cup {ApprovedCeremony(c, x)}
<1> DEFINE a == [approver |-> x, version |-> KeyVersion(x)]
           approvals == c.approvals \cup {a}
           status == IF MeetsThreshold(approvals) THEN "threshold_met" ELSE c.status
<1>1. c \in CeremonyRow /\ x \in Executive /\ keys[x] \in Seq(KeyWindow)
  BY PolicyAssumption DEF CoreInv, TypeOK, StoreTypeOK
<1>2. a \in Approval
  BY <1>1 DEF Approval, KeyVersion
<1>3. ApprovedCeremony(c, x) = [c EXCEPT !.approvals = approvals, !.status = status]
  BY DEF ApprovedCeremony
<1>4. ceremonies' = (ceremonies \ {c}) \cup {ApprovedCeremony(c, x)}
  BY DEF ApproveCeremony, ApprovedCeremony
<1>5. approvals \in SUBSET Approval /\ status \in {"open", "threshold_met", "executed"}
  BY <1>1, <1>2 DEF CeremonyRow
<1>6. ApprovedCeremony(c, x) \in CeremonyRow /\ ApprovedCeremony(c, x).id = c.id
  <2> HIDE DEF approvals, status
  <2> QED
    BY <1>1, <1>3, <1>5 DEF CeremonyRow
<1>7. UNCHANGED <<store, packages, acks>>
  BY DEF ApproveCeremony
<1>8. CeremoniesKeyed' /\ ceremonies' \subseteq CeremonyRow
  BY <1>4, <1>6, ReplacedCeremony DEF CoreInv, TypeOK
<1>9. StoreTypeOK' /\ ChainIntact'
  BY <1>7, UnchangedKeepsStore DEF CoreInv, TypeOK
<1> QED
  BY <1>4, <1>6, <1>7, <1>8, <1>9 DEF CoreInv, TypeOK

\* A step after which the ledger has two more rows, both accepted.
RowsAppended(n, performed, rotated) ==
    /\ DOMAIN ledger = 1..n /\ DOMAIN ledger' = 1 .. n + 2 /\ Len(ledger') = n + 2
    /\ \A i \in 1..n : ledger'[i] = ledger[i]
    /\ ledger'[n + 1].event = performed /\ ledger'[n + 1].status = "accepted"
    /\ ledger'[n + 2].event = rotated /\ ledger'[n + 2].status = "accepted"

\* executeCeremony: the two rows, the keys of the target and the status of the
\* ceremony change together.
LEMMA ExecuteKeepsCore ==
    ASSUME CoreInv, \A x \in Executive : KeyVersion(x) >= 1, NEW c \in ceremonies,
           NEW performed \in Event, NEW rotated \in Event,
           ExecuteCeremony(c, performed, rotated),
           NEW n \in Nat, n = Len(ledger)
    PROVE  /\ CoreInv'
           /\ [c EXCEPT !.status = "executed"] \in CeremonyRow
           /\ RowsAppended(n, performed, rotated)
<1>1. /\ StoreTypeOK /\ ledger \in Seq(Row) /\ ChainIntact
      /\ c \in CeremonyRow /\ c.target \in Executive
  BY DEF CoreInv, TypeOK, StoreTypeOK, CeremonyRow
<1>2. ledger' = ledger \o RecoveryRows(performed, rotated)
  BY DEF ExecuteCeremony
<1>3. /\ ledger' \in Seq(Row) /\ ChainIntact' /\ NextServerSequence = n + 1
      /\ DOMAIN ledger = 1..n /\ DOMAIN ledger' = 1 .. n + 2
      /\ \A i \in 1..n : ledger'[i] = ledger[i]
      /\ ledger'[n + 1] = RecoveryRows(performed, rotated)[1]
      /\ ledger'[n + 2] = RecoveryRows(performed, rotated)[2]
      /\ ledger'[n + 1].event = performed /\ ledger'[n + 1].status = "accepted"
      /\ ledger'[n + 2].event = rotated /\ ledger'[n + 2].status = "accepted"
  BY <1>1, <1>2, TwoRowsKeepChain
<1>4. Len(ledger') = n + 2
  BY <1>3
<1>5. keys' \in [Executive -> Seq(KeyWindow)]
  <2>1. keys' = RotatedKeys(c.target) /\ KeyVersion(c.target) >= 1 /\ KeyVersion(c.target) \in Nat
    BY <1>1 DEF ExecuteCeremony, KeyVersion, StoreTypeOK
  <2> QED
    BY <1>1, <2>1, RotationOfKeys
<1>6. heads' \in [Object -> HeadRow]
  <2>1. heads \in [Object -> HeadRow]
    BY <1>1 DEF StoreTypeOK
  <2>2. /\ [seq |-> n + 1, conflicted |-> FALSE] \in HeadRow
        /\ [seq |-> (n + 1) + 1, conflicted |-> FALSE] \in HeadRow
    BY DEF HeadRow
  <2>3. heads' = [heads EXCEPT
          ![performed.object] = [seq |-> n + 1, conflicted |-> FALSE],
          ![rotated.object] = [seq |-> (n + 1) + 1, conflicted |-> FALSE]]
    BY <1>3 DEF ExecuteCeremony
  <2> QED
    BY <2>1, <2>2, <2>3
<1>7. devices' \in [Device -> DeviceRow]
  <2>1. devices \in [Device -> DeviceRow]
    BY <1>1 DEF StoreTypeOK
  <2>2. rotated.counter \in Nat
    BY EventAssumption DEF ClientEvent
  <2>3. devices' = [devices EXCEPT ![rotated.device].watermark = rotated.counter]
    BY DEF ExecuteCeremony
  <2>4. ASSUME NEW d \in Device PROVE [devices[d] EXCEPT !.watermark = rotated.counter] \in DeviceRow
    BY <2>1, <2>2 DEF DeviceRow
  <2> QED
    BY <2>1, <2>3, <2>4
<1>8. executives' \in [Executive -> ExecutiveStatus] /\ conflicts' \subseteq ConflictRow
  BY <1>1 DEF ExecuteCeremony, StoreTypeOK, ExecutiveStatus
<1>9. packages' \subseteq PackageRow
  <2>1. packages \subseteq PackageRow
    BY DEF CoreInv, TypeOK
  <2>2. Rewrappable(c.target) \subseteq packages
    BY DEF Rewrappable
  <2>3. KeyVersion(c.target) + 1 \in Nat
    BY <1>1 DEF KeyVersion, StoreTypeOK
  <2>4. ASSUME NEW p \in packages
        PROVE  /\ [p EXCEPT !.status = "revoked"] \in PackageRow
               /\ [p EXCEPT !.version = KeyVersion(c.target) + 1] \in PackageRow
    BY <2>1, <2>3 DEF PackageRow
  <2> QED
    BY <2>1, <2>2, <2>4 DEF ExecuteCeremony, RewrappedPackages
<1>10. acks' \subseteq Ack
  <2>1. \A row \in Row : RowAck(row) \in Ack
    BY EventAssumption DEF Row, RowAck, Ack, EventId
  <2>2. /\ RecoveryRows(performed, rotated)[1] \in Row
        /\ RecoveryRows(performed, rotated)[2] \in Row
    <3>1. n + 1 \in 1 .. n + 2 /\ n + 2 \in 1 .. n + 2
      OBVIOUS
    <3> QED
      BY <1>3, <3>1
  <2> QED
    BY <2>1, <2>2 DEF ExecuteCeremony, CoreInv, TypeOK
<1>11. /\ [c EXCEPT !.status = "executed"] \in CeremonyRow
       /\ [c EXCEPT !.status = "executed"].id = c.id
  BY <1>1 DEF CeremonyRow
<1>12. CeremoniesKeyed' /\ ceremonies' \subseteq CeremonyRow
  <2>1. ceremonies' = (ceremonies \ {c}) \cup {[c EXCEPT !.status = "executed"]}
    BY DEF ExecuteCeremony
  <2> QED
    BY <1>11, <2>1, ReplacedCeremony DEF CoreInv, TypeOK
<1> QED
  BY <1>3, <1>4, <1>5, <1>6, <1>7, <1>8, <1>9, <1>10, <1>11, <1>12
     DEF CoreInv, TypeOK, StoreTypeOK, RowsAppended

-----------------------------------------------------------------------------
(* The windows of the keys. *)

LEMMA WindowsInitial == Init => WindowsInv
<1> SUFFICES ASSUME Init PROVE WindowsInv
  OBVIOUS
<1>1. \A x \in Executive : keys[x] = <<[from |-> 0, until |-> OpenEnded]>>
  BY DEF Init, StoreInit
<1>2. ASSUME NEW x \in Executive
      PROVE  /\ KeyVersion(x) = 1 /\ DOMAIN keys[x] = {1}
             /\ keys[x][1].from = 0 /\ keys[x][1].until = OpenEnded
  BY <1>1 DEF KeyVersion
<1>3. 2..1 = {}
  OBVIOUS
<1> QED
  BY <1>2, <1>3 DEF WindowsInv, AuthorityWindows

\* The window of the old key is closed at the head at which the new one's opens,
\* and the two rows that record it follow.
LEMMA ExecuteKeepsWindows ==
    ASSUME CoreInv, WindowsInv, NEW c \in ceremonies,
           NEW performed \in Event, NEW rotated \in Event,
           ExecuteCeremony(c, performed, rotated)
    PROVE  WindowsInv'
<1> DEFINE t == c.target
<1>1. /\ t \in Executive /\ ledger \in Seq(Row)
      /\ \A x \in Executive : keys[x] \in Seq(KeyWindow) /\ KeyVersion(x) >= 1
  BY DEF CoreInv, TypeOK, StoreTypeOK, CeremonyRow, WindowsInv
<1>2. PICK n \in Nat : n = Len(ledger)
  BY <1>1
<1>3. PICK k \in Nat : k = KeyVersion(t)
  BY <1>1 DEF KeyVersion
<1>4. Len(ledger') = n + 2
  BY <1>1, <1>2, ExecuteKeepsCore DEF RowsAppended
<1>5. /\ keys' \in [Executive -> Seq(KeyWindow)]
      /\ KeyVersion(t)' = k + 1
      /\ keys'[t][k + 1] = [from |-> n, until |-> OpenEnded]
      /\ \A v \in 1..k : keys'[t][v].from = keys[t][v].from
      /\ \A v \in 1 .. k - 1 : keys'[t][v] = keys[t][v]
      /\ keys'[t][k].until = n
      /\ \A y \in Executive : y # t => keys'[y] = keys[y]
  <2>1. keys' = RotatedKeys(t)
    BY DEF ExecuteCeremony
  <2> QED
    BY <1>1, <1>2, <1>3, <2>1, RotationOfKeys
<1>6. k >= 1 /\ DOMAIN keys[t] = 1..k /\ DOMAIN keys'[t] = 1 .. k + 1
  BY <1>1, <1>3, <1>5 DEF KeyVersion
<1> HIDE DEF t
<1>7. ASSUME NEW y \in Executive, y # t
      PROVE  /\ \A v \in DOMAIN keys'[y] :
                   IF v = KeyVersion(y)' THEN keys'[y][v].until = OpenEnded
                   ELSE /\ keys'[y][v].from < keys'[y][v].until \/ (v = 1 /\ keys'[y][v].until = 0)
                        /\ keys'[y][v].until = keys'[y][v + 1].from
             /\ KeyVersion(y)' >= 1 /\ keys'[y][1].from = 0
             /\ \A v \in 2..KeyVersion(y)' : keys'[y][v].from + 2 <= Len(ledger')
  <2>1. keys'[y] = keys[y] /\ KeyVersion(y)' = KeyVersion(y)
    BY <1>5, <1>7 DEF KeyVersion
  <2>2. PICK m \in Nat : m = KeyVersion(y) /\ DOMAIN keys[y] = 1..m
    BY <1>1 DEF KeyVersion
  <2>0. keys[y] \in Seq(KeyWindow) /\ \A v \in 1..m : keys[y][v] \in KeyWindow
    BY <1>1, <2>2
  <2>3. \A v \in 1..m : keys[y][v].from \in Nat
    BY <2>0 DEF KeyWindow
  <2>4. \A v \in 2..m : keys[y][v].from + 2 <= n /\ v \in 1..m
    BY <1>2, <2>2 DEF WindowsInv
  <2>5. \A v \in 2..m : keys[y][v].from + 2 <= n + 2
    BY <2>3, <2>4
  <2> QED
    BY <1>4, <2>1, <2>2, <2>5 DEF WindowsInv, AuthorityWindows
<1>8. /\ \A v \in 1..k : keys[t][v].from \in Nat
      /\ keys[t][1].from = 0
      /\ \A v \in 2..k : keys[t][v].from + 2 <= n
      /\ \A v \in 1 .. k - 1 : /\ keys[t][v].from < keys[t][v].until \/ (v = 1 /\ keys[t][v].until = 0)
                               /\ keys[t][v].until = keys[t][v + 1].from
  <2>0. keys[t] \in Seq(KeyWindow) /\ \A v \in 1..k : keys[t][v] \in KeyWindow
    BY <1>1, <1>6
  <2>1. \A v \in 1..k : keys[t][v].from \in Nat
    BY <2>0 DEF KeyWindow
  <2>2. \A v \in 1 .. k - 1 : v \in 1..k /\ v # k
    OBVIOUS
  <2> QED
    BY <1>1, <1>2, <1>3, <1>6, <2>1, <2>2 DEF WindowsInv, AuthorityWindows
<1>9. ASSUME NEW v \in 1 .. k + 1
      PROVE  IF v = k + 1 THEN keys'[t][v].until = OpenEnded
             ELSE /\ keys'[t][v].from < keys'[t][v].until \/ (v = 1 /\ keys'[t][v].until = 0)
                  /\ keys'[t][v].until = keys'[t][v + 1].from
  <2>1. CASE v = k + 1
    BY <1>5, <2>1
  <2>2. CASE v = k
    <3>1. keys'[t][k].from = keys[t][k].from /\ keys[t][k].from \in Nat
      BY <1>5, <1>6, <1>8
    <3>2. keys'[t][k].from < n \/ (k = 1 /\ n = 0)
      BY <1>6, <1>8, <3>1
    <3> QED
      BY <1>5, <2>2, <3>2
  <2>3. CASE v \in 1 .. k - 1
    <3>1. v + 1 \in 1..k /\ v # k + 1
      BY <2>3
    <3>2. keys'[t][v] = keys[t][v] /\ keys'[t][v + 1].from = keys[t][v + 1].from
      BY <1>5, <2>3, <3>1
    <3> QED
      BY <1>8, <2>3, <3>1, <3>2
  <2>4. v = k + 1 \/ v = k \/ v \in 1 .. k - 1
    OBVIOUS
  <2> QED
    BY <2>1, <2>2, <2>3, <2>4
<1>10. keys'[t][1].from = 0
  BY <1>5, <1>6, <1>8
<1>11. ASSUME NEW v \in 2 .. k + 1 PROVE keys'[t][v].from + 2 <= n + 2
  <2>1. CASE v = k + 1
    BY <1>5, <2>1
  <2>2. CASE v \in 2..k
    <3>1. v \in 1..k /\ keys[t][v].from \in Nat /\ keys[t][v].from + 2 <= n
      BY <1>8, <2>2
    <3> QED
      BY <1>5, <3>1
  <2>3. v = k + 1 \/ v \in 2..k
    OBVIOUS
  <2> QED
    BY <2>1, <2>2, <2>3
<1>12. \A y \in Executive :
          /\ \A v \in DOMAIN keys'[y] :
                IF v = KeyVersion(y)' THEN keys'[y][v].until = OpenEnded
                ELSE /\ keys'[y][v].from < keys'[y][v].until \/ (v = 1 /\ keys'[y][v].until = 0)
                     /\ keys'[y][v].until = keys'[y][v + 1].from
          /\ KeyVersion(y)' >= 1 /\ keys'[y][1].from = 0
          /\ \A v \in 2..KeyVersion(y)' : keys'[y][v].from + 2 <= Len(ledger')
  <2>1. k + 1 >= 1
    OBVIOUS
  <2> QED
    BY <1>4, <1>5, <1>6, <1>7, <1>9, <1>10, <1>11, <2>1
<1> QED
  BY <1>12 DEF WindowsInv, AuthorityWindows

\* Whatever leaves the ledger and the keys alone leaves the windows alone.
LEMMA WindowsStay ==
    ASSUME WindowsInv, ledger' = ledger, keys' = keys
    PROVE  WindowsInv'
<1>1. \A x : KeyVersion(x)' = KeyVersion(x)
  BY DEF KeyVersion
<1> QED
  BY <1>1 DEF WindowsInv, AuthorityWindows

-----------------------------------------------------------------------------
(* Types, the chain and the windows, for every behaviour. *)

\* The part of the invariant that the others rest on.
BaseInv == CoreInv /\ WindowsInv

LEMMA BaseInductive ==
    ASSUME BaseInv, [Next]_vars
    PROVE  BaseInv'
<1>1. CASE UNCHANGED vars
  <2>1. StoreTypeOK' /\ ChainIntact'
    BY <1>1, UnchangedKeepsStore DEF BaseInv, CoreInv, TypeOK, vars
  <2>2. /\ ledger' = ledger /\ keys' = keys /\ ceremonies' = ceremonies
        /\ packages' = packages /\ acks' = acks
    BY <1>1 DEF vars, store, recoveryTables
  <2>3. CeremoniesKeyed'
    BY <2>2 DEF BaseInv, CoreInv, CeremoniesKeyed
  <2>4. WindowsInv'
    BY <2>2, WindowsStay DEF BaseInv
  <2> QED
    BY <2>1, <2>2, <2>3, <2>4 DEF BaseInv, CoreInv, TypeOK
<1>2. ASSUME NEW id \in Ceremony, NEW x \in Executive, InitiateCeremony(id, x)
      PROVE  BaseInv'
  <2>1. ledger' = ledger /\ keys' = keys
    BY <1>2 DEF InitiateCeremony
  <2> QED
    BY <1>2, <2>1, InitiateKeepsCore, WindowsStay DEF BaseInv
<1>3. ASSUME NEW c \in ceremonies, NEW x \in Custodian, ApproveCeremony(c, x)
      PROVE  BaseInv'
  <2>1. ledger' = ledger /\ keys' = keys
    BY <1>3 DEF ApproveCeremony, store
  <2> QED
    BY <1>3, <2>1, ApproveKeepsCore, WindowsStay DEF BaseInv
<1>4. ASSUME NEW c \in ceremonies, NEW performed \in Event, NEW rotated \in Event,
             ExecuteCeremony(c, performed, rotated)
      PROVE  BaseInv'
  <2>1. PICK n \in Nat : n = Len(ledger)
    BY DEF BaseInv, CoreInv, TypeOK, StoreTypeOK
  <2>2. CoreInv'
    BY <1>4, <2>1, ExecuteKeepsCore DEF BaseInv, WindowsInv
  <2> QED
    BY <1>4, <2>2, ExecuteKeepsWindows DEF BaseInv
<1> QED
  BY <1>1, <1>2, <1>3, <1>4 DEF Next

LEMMA BaseInvariant == Spec => []BaseInv
<1>1. Init => BaseInv
  BY CoreInitial, WindowsInitial DEF BaseInv
<1>2. BaseInv /\ [Next]_vars => BaseInv'
  BY BaseInductive
<1> QED
  BY <1>1, <1>2, PTL DEF Spec

\* Every table and every signed acknowledgement keeps its type: in particular a
\* rotation writes windows and packages of versions that exist.
THEOREM TypeCorrect == Spec => []TypeOK
<1>1. BaseInv => TypeOK
  BY DEF BaseInv, CoreInv
<1> QED
  BY <1>1, BaseInvariant, PTL

\* The two rows of an execution extend the chain of hashes without a gap.
THEOREM ChainStaysIntact == Spec => []ChainIntact
<1>1. BaseInv => ChainIntact
  BY DEF BaseInv, CoreInv
<1> QED
  BY <1>1, BaseInvariant, PTL

\* Key windows follow each other, whoever is recovered how often.
THEOREM WindowsFollowEachOther == Spec => []AuthorityWindows
<1>1. BaseInv => AuthorityWindows
  BY DEF BaseInv, WindowsInv
<1> QED
  BY <1>1, BaseInvariant, PTL

-----------------------------------------------------------------------------
(* Key packages. *)

LEMMA PackagesInitial == Init => PackagesFollowKeys
<1> SUFFICES ASSUME Init, NEW p \in BootPackage
             PROVE  {q \in packages : q.origin = p /\ q.status = "active"}
                      = {[origin |-> p, version |-> KeyVersion(packageOwner[p]), status |-> "active"]}
  BY DEF PackagesFollowKeys
<1>1. packageOwner[p] \in Executive
  BY PackageAssumption
<1>2. KeyVersion(packageOwner[p]) = 1
  BY <1>1 DEF Init, StoreInit, KeyVersion
<1> QED
  BY <1>2 DEF Init

\* rewrapKeyPackages moves the one active wrapping of each package of the target
\* to the new key and touches no other package.
LEMMA ExecuteKeepsPackages ==
    ASSUME BaseInv, PackagesFollowKeys, NEW c \in ceremonies,
           NEW performed \in Event, NEW rotated \in Event,
           ExecuteCeremony(c, performed, rotated)
    PROVE  PackagesFollowKeys'
<1> DEFINE t == c.target
           Active(p) == {q \in packages : q.origin = p /\ q.status = "active"}
           Moved(q) == [q EXCEPT !.version = KeyVersion(t) + 1]
           Revoked(q) == [q EXCEPT !.status = "revoked"]
<1>1. /\ t \in Executive /\ packages \subseteq PackageRow
      /\ \A x \in Executive : keys[x] \in Seq(KeyWindow) /\ KeyVersion(x) >= 1
  BY DEF BaseInv, CoreInv, TypeOK, StoreTypeOK, CeremonyRow, WindowsInv
<1>2. KeyVersion(t)' = KeyVersion(t) + 1
      /\ \A y \in Executive : y # t => KeyVersion(y)' = KeyVersion(y)
  <2>1. keys' = RotatedKeys(t)
    BY DEF ExecuteCeremony
  <2>2. PICK n \in Nat : n = Len(ledger)
    BY DEF BaseInv, CoreInv, TypeOK, StoreTypeOK
  <2>3. PICK k \in Nat : k = KeyVersion(t)
    BY <1>1 DEF KeyVersion
  <2>4. CoreInv
    BY DEF BaseInv
  <2>5. KeyVersion(t)' = k + 1 /\ \A y \in Executive : y # t => keys'[y] = keys[y]
    BY <1>1, <2>1, <2>2, <2>3, <2>4, RotationOfKeys
  <2> QED
    BY <2>3, <2>5 DEF KeyVersion
<1>3. packages' = (packages \ Rewrappable(t)) \cup {Revoked(q) : q \in Rewrappable(t)}
                     \cup {Moved(q) : q \in Rewrappable(t)}
  BY DEF ExecuteCeremony, RewrappedPackages
<1>4. ASSUME NEW q \in packages
      PROVE  /\ Revoked(q).status = "revoked"
             /\ Moved(q) = [origin |-> q.origin, version |-> KeyVersion(t) + 1, status |-> q.status]
  BY <1>1 DEF PackageRow
<1> HIDE DEF t, Revoked, Moved
<1>5. \A q \in Rewrappable(t) : /\ q \in packages /\ packageOwner[q.origin] = t
                                /\ q.status = "active" /\ q.version = KeyVersion(t)
  BY DEF Rewrappable
<1>6. ASSUME NEW p \in BootPackage
      PROVE  {q \in packages' : q.origin = p /\ q.status = "active"}
                = {[origin |-> p, version |-> KeyVersion(packageOwner[p])', status |-> "active"]}
  <2> DEFINE q0 == [origin |-> p, version |-> KeyVersion(packageOwner[p]), status |-> "active"]
  <2>1. Active(p) = {q0} /\ packageOwner[p] \in Executive
    BY PackageAssumption DEF PackagesFollowKeys
  <2>2. q0 \in packages /\ q0.origin = p /\ q0.status = "active"
        /\ q0.version = KeyVersion(packageOwner[p])
    BY <2>1
  <2>3. \A q \in packages : q.origin = p /\ q.status = "active" => q = q0
    BY <2>1
  <2> HIDE DEF q0, Active
  <2>4. CASE packageOwner[p] # t
    <3>1. q0 \in packages'
      BY <1>3, <1>5, <2>2, <2>4
    <3>2. ASSUME NEW q \in packages', q.origin = p, q.status = "active" PROVE q = q0
      <4>1. CASE q \in packages
        BY <2>3, <3>2, <4>1
      <4>2. CASE \E r \in Rewrappable(t) : q = Revoked(r)
        BY <1>4, <1>5, <3>2, <4>2
      <4>3. CASE \E r \in Rewrappable(t) : q = Moved(r)
        <5>1. PICK r \in Rewrappable(t) : q = Moved(r)
          BY <4>3
        <5>2. r.origin = p /\ packageOwner[r.origin] = t
          BY <1>4, <1>5, <3>2, <5>1
        <5> QED
          BY <2>4, <5>2
      <4> QED
        BY <1>3, <4>1, <4>2, <4>3
    <3>3. q0 = [origin |-> p, version |-> KeyVersion(packageOwner[p])', status |-> "active"]
      BY <1>2, <2>1, <2>4 DEF q0
    <3> QED
      BY <2>2, <3>1, <3>2, <3>3
  <2>5. CASE packageOwner[p] = t
    <3> DEFINE q1 == [origin |-> p, version |-> KeyVersion(t) + 1, status |-> "active"]
    <3>1. q0 \in Rewrappable(t) /\ Moved(q0) = q1
      BY <1>4, <2>2, <2>5 DEF Rewrappable
    <3>2. q1 \in packages' /\ q1.origin = p /\ q1.status = "active"
      BY <1>3, <3>1
    <3>3. ASSUME NEW q \in packages', q.origin = p, q.status = "active" PROVE q = q1
      <4>1. CASE q \in packages \ Rewrappable(t)
        BY <2>3, <3>1, <3>3, <4>1
      <4>2. CASE \E r \in Rewrappable(t) : q = Revoked(r)
        BY <1>4, <1>5, <3>3, <4>2
      <4>3. CASE \E r \in Rewrappable(t) : q = Moved(r)
        <5>1. PICK r \in Rewrappable(t) : q = Moved(r)
          BY <4>3
        <5>2. r \in packages /\ r.origin = p /\ r.status = "active"
          BY <1>4, <1>5, <3>3, <5>1
        <5> QED
          BY <2>3, <3>1, <5>1, <5>2
      <4> QED
        BY <1>3, <4>1, <4>2, <4>3
    <3>4. q1 = [origin |-> p, version |-> KeyVersion(packageOwner[p])', status |-> "active"]
      BY <1>2, <2>5
    <3> HIDE DEF q1
    <3> QED
      BY <3>2, <3>3, <3>4
  <2> QED
    BY <2>4, <2>5
<1> QED
  BY <1>6 DEF PackagesFollowKeys

LEMMA PackagesInductive ==
    ASSUME BaseInv, PackagesFollowKeys, [Next]_vars
    PROVE  PackagesFollowKeys'
<1>1. CASE keys' = keys /\ packages' = packages
  <2>1. \A x : KeyVersion(x)' = KeyVersion(x)
    BY <1>1 DEF KeyVersion
  <2> QED
    BY <1>1, <2>1 DEF PackagesFollowKeys
<1>2. ASSUME NEW c \in ceremonies, NEW performed \in Event, NEW rotated \in Event,
             ExecuteCeremony(c, performed, rotated)
      PROVE  PackagesFollowKeys'
  BY <1>2, ExecuteKeepsPackages
<1>3. \/ keys' = keys /\ packages' = packages
      \/ \E c \in ceremonies, performed, rotated \in Event : ExecuteCeremony(c, performed, rotated)
  BY DEF Next, vars, store, recoveryTables, InitiateCeremony, ApproveCeremony
<1> QED
  BY <1>1, <1>2, <1>3

\* No key material is lost, and none is left behind under a replaced key.
THEOREM PackagesKeepFollowing == Spec => []PackagesFollowKeys
<1>1. BaseInv /\ PackagesFollowKeys /\ [Next]_vars => PackagesFollowKeys'
  BY PackagesInductive
<1> QED
  BY <1>1, PackagesInitial, BaseInvariant, PTL DEF Spec

-----------------------------------------------------------------------------
(* Approvals and the records of rotations. *)

Executed(x) == {c \in ceremonies : c.target = x /\ c.status = "executed"}

\* Counting approvals is counting custodians: nobody approves twice.
LEMMA ApproversCount ==
    ASSUME NEW A, IsFiniteSet(A), \A a \in A : a.approver \in Custodian,
           \A a, b \in A : a.approver = b.approver => a = b
    PROVE  Cardinality({a.approver : a \in A} \cap Custodian) = Cardinality(A)
<1> DEFINE T == {a.approver : a \in A}
           f == [a \in A |-> a.approver]
<1>1. T \cap Custodian = T
  OBVIOUS
<1>2. f \in Bijection(A, T)
  BY DEF Bijection, Injection, Surjection, IsInjective
<1>3. ExistsBijection(A, T)
  BY <1>2 DEF ExistsBijection
<1> HIDE DEF T
<1>4. Cardinality(T) = Cardinality(A)
  BY <1>3, FS_Bijection
<1> QED
  BY <1>1, <1>4 DEF T

LEMMA ApprovalsInductive ==
    ASSUME BaseInv, ApprovalsInv, [Next]_vars
    PROVE  ApprovalsInv'
<1>0. BaseInv'
  BY BaseInductive
<1>1. CASE UNCHANGED vars
  BY <1>1 DEF vars, recoveryTables, ApprovalsInv, MeetsThreshold
<1>2. ASSUME NEW id \in Ceremony, NEW x \in Executive, InitiateCeremony(id, x)
      PROVE  ApprovalsInv'
  <2>1. PICK d : d = [id |-> id, target |-> x, status |-> "open", approvals |-> {}]
    OBVIOUS
  <2>2. ceremonies' = ceremonies \cup {d} /\ d.approvals = {} /\ d.status = "open"
    BY <1>2, <2>1 DEF InitiateCeremony
  <2> QED
    BY <2>2, FS_EmptySet DEF ApprovalsInv, MeetsThreshold
<1>3. ASSUME NEW c \in ceremonies, NEW x \in Custodian, ApproveCeremony(c, x)
      PROVE  ApprovalsInv'
  <2> DEFINE a == [approver |-> x, version |-> KeyVersion(x)]
             d == ApprovedCeremony(c, x)
  <2>1. ceremonies' = (ceremonies \ {c}) \cup {d}
    BY <1>3, ApproveKeepsCore DEF BaseInv
  <2>2. c \in CeremonyRow
    BY DEF BaseInv, CoreInv, TypeOK
  <2>3. /\ d.approvals = c.approvals \cup {a}
        /\ d.status = IF MeetsThreshold(c.approvals \cup {a}) THEN "threshold_met" ELSE c.status
    BY <2>2 DEF CeremonyRow, ApprovedCeremony
  <2>4. \A b \in c.approvals : b.approver # x
    BY <1>3 DEF ApproveCeremony
  <2>5. /\ IsFiniteSet(c.approvals)
        /\ \A b \in c.approvals : b.approver \in Custodian
        /\ \A b, e \in c.approvals : b.approver = e.approver => b = e
        /\ c.status # "open" => MeetsThreshold(c.approvals)
    BY DEF ApprovalsInv
  <2>6. /\ IsFiniteSet(c.approvals \cup {a})
        /\ a \notin c.approvals
        /\ Cardinality(c.approvals \cup {a}) = Cardinality(c.approvals) + 1
        /\ Cardinality(c.approvals) \in Nat
    <3>1. a \notin c.approvals
      BY <2>4
    <3> HIDE DEF a
    <3> QED
      BY <2>5, <3>1, FS_AddElement, FS_CardinalityType
  <2>7. MeetsThreshold(c.approvals) => MeetsThreshold(c.approvals \cup {a})
    <3>1. RequiredApprovals \in Nat
      BY PolicyAssumption, FS_CardinalityType
    <3> HIDE DEF a
    <3> QED
      BY <2>6, <3>1 DEF MeetsThreshold
  <2>8. /\ IsFiniteSet(d.approvals)
        /\ \A b \in d.approvals : b.approver \in Custodian
        /\ \A b, e \in d.approvals : b.approver = e.approver => b = e
        /\ d.status # "open" => MeetsThreshold(d.approvals)
    <3>1. a.approver = x
      OBVIOUS
    <3>2. \A b, e \in d.approvals : b.approver = e.approver => b = e
      BY <2>3, <2>4, <2>5, <3>1
    <3>3. \A b \in d.approvals : b.approver \in Custodian
      BY <2>3, <2>5, <3>1
    <3> QED
      BY <2>3, <2>5, <2>6, <2>7, <3>2, <3>3
  <2> HIDE DEF d
  <2> QED
    BY <2>1, <2>8 DEF ApprovalsInv, MeetsThreshold
<1>4. ASSUME NEW c \in ceremonies, NEW performed \in Event, NEW rotated \in Event,
             ExecuteCeremony(c, performed, rotated)
      PROVE  ApprovalsInv'
  <2> DEFINE d == [c EXCEPT !.status = "executed"]
  <2>1. ceremonies' = (ceremonies \ {c}) \cup {d} /\ c.status = "threshold_met"
    BY <1>4 DEF ExecuteCeremony
  <2>2. c \in CeremonyRow
    BY DEF BaseInv, CoreInv, TypeOK
  <2>3. d.approvals = c.approvals /\ d.status = "executed"
    BY <2>2 DEF CeremonyRow
  <2> HIDE DEF d
  <2> QED
    BY <2>1, <2>3 DEF ApprovalsInv, MeetsThreshold
<1> QED
  BY <1>1, <1>2, <1>3, <1>4 DEF Next

\* What a rotation left behind stays: its window's beginning, its two rows and
\* the ceremony that was executed.
LEMMA RecordStays ==
    ASSUME NEW x \in Executive, NEW v, RotationRecorded(x, v),
           keys'[x][v].from = keys[x][v].from,
           \A c \in ceremonies : c.status = "executed" => c \in ceremonies',
           \A i \in DOMAIN ledger : i \in DOMAIN ledger' /\ ledger'[i] = ledger[i]
    PROVE  RotationRecorded(x, v)'
BY DEF RotationRecorded, AcceptedOn

\* Neither a new ceremony nor an approval touches an executed one.
LEMMA OtherStepsKeepRecords ==
    ASSUME BaseInv, RotationsAreRecorded, ledger' = ledger, keys' = keys,
           {c \in ceremonies' : c.status = "executed"} = {c \in ceremonies : c.status = "executed"}
    PROVE  RotationsAreRecorded'
<1>1. \A x \in Executive : KeyVersion(x)' = KeyVersion(x) /\ Executed(x)' = Executed(x)
  BY DEF KeyVersion, Executed
<1>2. ASSUME NEW x \in Executive, NEW v \in 2..KeyVersion(x)
      PROVE  RotationRecorded(x, v)'
  <2>1. RotationRecorded(x, v)
    BY DEF RotationsAreRecorded
  <2> QED
    BY <2>1, RecordStays
<1>3. \A x \in Executive : Cardinality(Executed(x))' = KeyVersion(x)' - 1
  BY <1>1 DEF RotationsAreRecorded, Executed
<1> QED
  BY <1>1, <1>2, <1>3 DEF RotationsAreRecorded, Executed

LEMMA ExecuteKeepsRecords ==
    ASSUME BaseInv, ApprovalsInv, RotationsAreRecorded, NEW c \in ceremonies,
           NEW performed \in Event, NEW rotated \in Event,
           ExecuteCeremony(c, performed, rotated)
    PROVE  RotationsAreRecorded'
<1> DEFINE t == c.target
           d == [c EXCEPT !.status = "executed"]
<1>1. /\ t \in Executive /\ ledger \in Seq(Row) /\ c \in CeremonyRow /\ CoreInv
      /\ \A x \in Executive : keys[x] \in Seq(KeyWindow) /\ KeyVersion(x) >= 1
  BY DEF BaseInv, CoreInv, TypeOK, StoreTypeOK, CeremonyRow, WindowsInv
<1>2. PICK n \in Nat : n = Len(ledger)
  BY <1>1
<1>3. PICK k \in Nat : k = KeyVersion(t)
  BY <1>1 DEF KeyVersion
<1>4. RowsAppended(n, performed, rotated)
  BY <1>1, <1>2, ExecuteKeepsCore
<1>5. /\ KeyVersion(t)' = k + 1
      /\ keys'[t][k + 1] = [from |-> n, until |-> OpenEnded]
      /\ \A v \in 1..k : keys'[t][v].from = keys[t][v].from
      /\ \A y \in Executive : y # t => keys'[y] = keys[y]
  <2>1. keys' = RotatedKeys(t)
    BY DEF ExecuteCeremony
  <2> QED
    BY <1>1, <1>2, <1>3, <2>1, RotationOfKeys
<1>6. /\ ceremonies' = (ceremonies \ {c}) \cup {d} /\ c.status = "threshold_met"
      /\ performed.type = "RECOVERY_PERFORMED" /\ performed.object = ceremonyObject[c.id]
      /\ rotated.type = "KEY_ROTATED" /\ rotated.object = keyObject[<<t, k + 1>>]
  BY <1>3 DEF ExecuteCeremony, Records
<1>7. d.id = c.id /\ d.target = t /\ d.approvals = c.approvals /\ d.status = "executed"
  BY <1>1 DEF CeremonyRow
<1> HIDE DEF d, t
<1>8. \A e \in ceremonies : e.status = "executed" => e \in ceremonies'
  BY <1>6
<1>9. \A i \in DOMAIN ledger : i \in DOMAIN ledger' /\ ledger'[i] = ledger[i]
  BY <1>4 DEF RowsAppended
<1>10. RotationRecorded(t, k + 1)'
  <2>1. Cardinality({a.approver : a \in d.approvals} \cap Custodian) >= RequiredApprovals
    <3>1. Cardinality({a.approver : a \in c.approvals} \cap Custodian) = Cardinality(c.approvals)
      BY ApproversCount DEF ApprovalsInv
    <3> QED
      BY <1>6, <1>7, <3>1 DEF ApprovalsInv, MeetsThreshold
  <2>2. n + 1 \in DOMAIN ledger' /\ n + 2 \in DOMAIN ledger'
    BY <1>4 DEF RowsAppended
  <2>3. keys'[t][k + 1].from = n
    BY <1>5
  <2>4. d \in ceremonies'
    BY <1>6
  <2> QED
    BY <1>4, <1>6, <1>7, <2>1, <2>2, <2>3, <2>4 DEF RotationRecorded, AcceptedOn, RowsAppended
<1>11. ASSUME NEW x \in Executive, NEW v \in 2..KeyVersion(x)'
       PROVE  RotationRecorded(x, v)'
  <2>1. CASE x = t /\ v = k + 1
    BY <1>10, <2>1
  <2>2. CASE ~(x = t /\ v = k + 1)
    <3>1. v \in 2..KeyVersion(x) /\ keys'[x][v].from = keys[x][v].from
      <4>1. CASE x = t
        <5>1. v \in 2..k /\ v \in 1..k
          BY <1>5, <2>2, <4>1
        <5> QED
          BY <1>3, <1>5, <4>1, <5>1
      <4>2. CASE x # t
        BY <1>5, <4>2 DEF KeyVersion
      <4> QED
        BY <4>1, <4>2
    <3>2. RotationRecorded(x, v)
      BY <3>1 DEF RotationsAreRecorded
    <3> QED
      BY <1>8, <1>9, <3>1, <3>2, RecordStays
  <2> QED
    BY <2>1, <2>2
<1>12. ASSUME NEW x \in Executive PROVE Cardinality(Executed(x)') = KeyVersion(x)' - 1
  <2>1. IsFiniteSet(Executed(x)) /\ Cardinality(Executed(x)) = KeyVersion(x) - 1
    <3>1. IsFiniteSet(ceremonies) /\ Executed(x) \in SUBSET ceremonies
      BY <1>1 DEF CoreInv, CeremoniesKeyed, Executed
    <3> QED
      BY <3>1, FS_Subset DEF RotationsAreRecorded, Executed
  <2>2. CASE x = t
    <3>1. Executed(x)' = Executed(x) \cup {d}
      BY <1>6, <1>7, <2>2 DEF Executed
    <3>2. d \notin Executed(x)
      BY <1>1, <1>6, <1>7 DEF Executed, CoreInv, CeremoniesKeyed
    <3>3. Cardinality(Executed(x)') = Cardinality(Executed(x)) + 1
      BY <2>1, <3>1, <3>2, FS_AddElement
    <3> QED
      BY <1>3, <1>5, <2>1, <2>2, <3>3
  <2>3. CASE x # t
    <3>1. Executed(x)' = Executed(x)
      <4>1. \A e \in ceremonies : e.target = x => e # c
        BY <2>3 DEF t
      <4> QED
        BY <1>6, <1>7, <2>3, <4>1 DEF Executed
    <3>2. KeyVersion(x)' = KeyVersion(x)
      BY <1>5, <2>3 DEF KeyVersion
    <3> QED
      BY <2>1, <3>1, <3>2
  <2> QED
    BY <2>2, <2>3
<1> QED
  BY <1>11, <1>12 DEF RotationsAreRecorded, Executed

LEMMA RecordsInductive ==
    ASSUME BaseInv, ApprovalsInv, RotationsAreRecorded, [Next]_vars
    PROVE  RotationsAreRecorded'
<1>1. CASE UNCHANGED vars
  <2>1. ledger' = ledger /\ keys' = keys /\ ceremonies' = ceremonies
    BY <1>1 DEF vars, store, recoveryTables
  <2> QED
    BY <2>1, OtherStepsKeepRecords
<1>2. ASSUME NEW id \in Ceremony, NEW x \in Executive, InitiateCeremony(id, x)
      PROVE  RotationsAreRecorded'
  <2> DEFINE c == [id |-> id, target |-> x, status |-> "open", approvals |-> {}]
  <2>1. ledger' = ledger /\ keys' = keys /\ ceremonies' = ceremonies \cup {c} /\ c.status = "open"
    BY <1>2 DEF InitiateCeremony
  <2> HIDE DEF c
  <2>2. {e \in ceremonies' : e.status = "executed"} = {e \in ceremonies : e.status = "executed"}
    BY <2>1
  <2> QED
    BY <2>1, <2>2, OtherStepsKeepRecords
<1>3. ASSUME NEW c \in ceremonies, NEW x \in Custodian, ApproveCeremony(c, x)
      PROVE  RotationsAreRecorded'
  <2> DEFINE d == ApprovedCeremony(c, x)
  <2>1. ledger' = ledger /\ keys' = keys /\ ceremonies' = (ceremonies \ {c}) \cup {d}
    BY <1>3, ApproveKeepsCore DEF BaseInv, store
  <2>2. c \in CeremonyRow /\ c.status # "executed"
    BY <1>3 DEF BaseInv, CoreInv, TypeOK, ApproveCeremony
  <2>3. d.status # "executed"
    BY <2>2 DEF ApprovedCeremony, CeremonyRow
  <2> HIDE DEF d
  <2>4. {e \in ceremonies' : e.status = "executed"} = {e \in ceremonies : e.status = "executed"}
    BY <2>1, <2>2, <2>3
  <2> QED
    BY <2>1, <2>4, OtherStepsKeepRecords
<1>4. ASSUME NEW c \in ceremonies, NEW performed \in Event, NEW rotated \in Event,
             ExecuteCeremony(c, performed, rotated)
      PROVE  RotationsAreRecorded'
  BY <1>4, ExecuteKeepsRecords
<1> QED
  BY <1>1, <1>2, <1>3, <1>4 DEF Next

LEMMA RecordsInitial == Init => ApprovalsInv /\ RotationsAreRecorded
<1> SUFFICES ASSUME Init PROVE ApprovalsInv /\ RotationsAreRecorded
  OBVIOUS
<1>1. ceremonies = {} /\ \A x \in Executive : KeyVersion(x) = 1
  BY DEF Init, StoreInit, KeyVersion
<1>2. 2..1 = {}
  OBVIOUS
<1>3. \A x \in Executive : Executed(x) = {}
  BY <1>1 DEF Executed
<1> QED
  BY <1>1, <1>2, <1>3, FS_EmptySet DEF ApprovalsInv, RotationsAreRecorded, Executed

\* Every key but the first has its two rows and its ceremony, approved by enough
\* different custodians, and no ceremony rotates a key twice.
THEOREM RotationsStayRecorded == Spec => []RotationsAreRecorded
<1>1. BaseInv /\ ApprovalsInv /\ RotationsAreRecorded /\ [Next]_vars
        => ApprovalsInv' /\ RotationsAreRecorded'
  BY ApprovalsInductive, RecordsInductive
<1> QED
  BY <1>1, RecordsInitial, BaseInvariant, PTL DEF Spec

-----------------------------------------------------------------------------
(* Signatures under keys that are replaced. *)

\* The rotation of t's key changes the selection of a key for nobody else, and
\* for t only from the head on.
LEMMA RotationKeepsSelection ==
    ASSUME BaseInv, NEW c \in ceremonies, keys' = RotatedKeys(c.target),
           NEW ev \in Event, SignatureVerifies(ev),
           ev.actor # c.target \/ ev.base < Len(ledger)
    PROVE  SignatureVerifies(ev)'
<1>1. /\ c.target \in Executive /\ ledger \in Seq(Row) /\ ChainIntact
      /\ keys \in [Executive -> Seq(KeyWindow)]
  BY DEF BaseInv, CoreInv, TypeOK, StoreTypeOK, CeremonyRow
<1>2. PICK n \in Nat : n = Len(ledger)
  BY <1>1
<1>3. PICK x \in Executive : x = c.target
  BY <1>1
<1>4. PICK k \in Nat : k = Len(keys[x])
  BY <1>1
<1>5. k >= 1 /\ keys[x][k].until = OpenEnded
  <2>1. k >= 1
    BY <1>4 DEF BaseInv, WindowsInv, KeyVersion
  <2>2. k \in DOMAIN keys[x]
    BY <1>1, <1>4, <2>1
  <2> QED
    BY <1>4, <2>1, <2>2 DEF BaseInv, WindowsInv, AuthorityWindows, KeyVersion
<1>6. KeyReplaced(x, k, n)
  <2>1. CurrentHeadSequence = n
    <3>1. NextServerSequence = n + 1
      BY <1>1, <1>2, NextSequenceIsNextPosition
    <3> QED
      BY <3>1 DEF CurrentHeadSequence
  <2> QED
    BY <1>3, <1>4, <2>1 DEF KeyReplaced, RotatedKeys, KeyVersion
<1>7. WindowsAfter(x, k, n)
  BY <1>1, <1>4, <1>5, <1>6, KeysAreReplaced
<1> QED
  BY <1>1, <1>2, <1>3, <1>4, <1>5, <1>7, ReplacementKeepsSelection

LEMMA LockOutInductive ==
    ASSUME BaseInv, TargetsLockedOut, [Next]_vars
    PROVE  TargetsLockedOut'
<1>0. devices \in [Device -> DeviceRow] /\ ceremonies \subseteq CeremonyRow
  BY DEF BaseInv, CoreInv, TypeOK, StoreTypeOK
<1>1. CASE UNCHANGED vars
  BY <1>1 DEF vars, store, recoveryTables, TargetsLockedOut
<1>2. ASSUME NEW id \in Ceremony, NEW x \in Executive, InitiateCeremony(id, x)
      PROVE  TargetsLockedOut'
  <2>1. PICK c : c = [id |-> id, target |-> x, status |-> "open", approvals |-> {}]
    OBVIOUS
  <2>2. ceremonies' = ceremonies \cup {c} /\ c.target = x /\ devices' = Quarantined(x)
    BY <1>2, <2>1 DEF InitiateCeremony
  <2>3. \A d \in Device : /\ devices'[d].owner = devices[d].owner
                          /\ devices'[d].status = devices[d].status
                               \/ devices'[d].status = "quarantined"
                          /\ devices'[d].owner = x => devices'[d].status # "enrolled"
    <3>1. \A d \in Device : /\ [devices[d] EXCEPT !.status = "quarantined"].owner = devices[d].owner
                            /\ [devices[d] EXCEPT !.status = "quarantined"].status = "quarantined"
      BY <1>0 DEF DeviceRow
    <3> QED
      BY <2>2, <3>1 DEF Quarantined
  <2> QED
    BY <2>2, <2>3 DEF TargetsLockedOut
<1>3. ASSUME NEW c \in ceremonies, NEW x \in Custodian, ApproveCeremony(c, x)
      PROVE  TargetsLockedOut'
  <2>1. devices' = devices /\ ceremonies' = (ceremonies \ {c}) \cup {ApprovedCeremony(c, x)}
    BY <1>3, ApproveKeepsCore DEF BaseInv, store
  <2>2. ApprovedCeremony(c, x).target = c.target
    BY <1>0 DEF ApprovedCeremony, CeremonyRow
  <2> QED
    BY <2>1, <2>2 DEF TargetsLockedOut
<1>4. ASSUME NEW c \in ceremonies, NEW performed \in Event, NEW rotated \in Event,
             ExecuteCeremony(c, performed, rotated)
      PROVE  TargetsLockedOut'
  <2>1. PICK d : d = [c EXCEPT !.status = "executed"]
    OBVIOUS
  <2>2. d.target = c.target /\ ceremonies' = (ceremonies \ {c}) \cup {d}
    BY <1>0, <1>4, <2>1 DEF ExecuteCeremony, CeremonyRow
  <2>3. \A e \in Device : /\ devices'[e].owner = devices[e].owner
                          /\ devices'[e].status = devices[e].status
    BY <1>0, <1>4 DEF ExecuteCeremony, DeviceRow
  <2> QED
    BY <2>2, <2>3 DEF TargetsLockedOut
<1> QED
  BY <1>1, <1>2, <1>3, <1>4 DEF Next

\* The rows of an execution are not signed with the key it replaces: its target
\* has no device left to execute with.
LEMMA ExecuteKeepsSignatures ==
    ASSUME BaseInv, TargetsLockedOut, SignaturesStayVerifiable, NEW c \in ceremonies,
           NEW performed \in Event, NEW rotated \in Event,
           ExecuteCeremony(c, performed, rotated)
    PROVE  SignaturesStayVerifiable'
<1>1. /\ ledger \in Seq(Row) /\ CoreInv
      /\ \A x \in Executive : KeyVersion(x) >= 1
  BY DEF BaseInv, CoreInv, TypeOK, StoreTypeOK, WindowsInv
<1>2. PICK n \in Nat : n = Len(ledger)
  BY <1>1
<1>3. RowsAppended(n, performed, rotated)
  BY <1>1, <1>2, ExecuteKeepsCore
<1>4. keys' = RotatedKeys(c.target)
  BY DEF ExecuteCeremony
<1>5. /\ performed.actor # c.target /\ SignatureVerifies(performed)
      /\ rotated.actor # c.target /\ SignatureVerifies(rotated)
  <2>1. performed.device \in Device /\ rotated.device \in Device
    BY EventAssumption DEF ClientEvent
  <2> QED
    BY <2>1 DEF ExecuteCeremony, Executable, CanExecute, TargetsLockedOut
<1>6. SignatureVerifies(performed)' /\ SignatureVerifies(rotated)'
  BY <1>4, <1>5, RotationKeepsSelection
<1>7. ASSUME NEW i \in 1..n, ledger'[i].status # "rejected", ledger'[i].event.base < i
      PROVE  \E ev \in Event : ev = ledger'[i].event /\ SignatureVerifies(ev)'
  <2>1. ledger'[i] = ledger[i] /\ i \in DOMAIN ledger
    BY <1>3 DEF RowsAppended
  <2>2. PICK ev \in Event : ev = ledger[i].event
    BY <1>1, <2>1, RowFields
  <2>3. SignatureVerifies(ev)
    BY <1>7, <2>1, <2>2 DEF SignaturesStayVerifiable
  <2>4. ev.base < Len(ledger)
    <3>1. ev.base \in Nat /\ ev.base < i /\ i <= n
      BY <1>7, <2>1, <2>2, EventAssumption DEF ClientEvent
    <3> QED
      BY <1>2, <3>1
  <2>5. SignatureVerifies(ev)'
    BY <1>4, <2>3, <2>4, RotationKeepsSelection
  <2>6. ledger'[i].event = ev
    BY <2>1, <2>2
  <2> QED
    BY <2>5, <2>6
<1>8. \A i \in 1 .. n + 2 : i = n + 2 \/ i = n + 1 \/ i \in 1..n
  OBVIOUS
<1>9. ledger'[n + 1].event = performed /\ ledger'[n + 2].event = rotated
      /\ DOMAIN ledger' = 1 .. n + 2
  BY <1>3 DEF RowsAppended
<1>10. ASSUME NEW i \in DOMAIN ledger', ledger'[i].status # "rejected", ledger'[i].event.base < i
       PROVE  \E ev \in Event : ev = ledger'[i].event /\ SignatureVerifies(ev)'
  BY <1>6, <1>7, <1>8, <1>9, <1>10
<1> QED
  BY <1>10 DEF SignaturesStayVerifiable, SignatureVerifies, ValidKeys

LEMMA SignaturesInductive ==
    ASSUME BaseInv, TargetsLockedOut, SignaturesStayVerifiable, [Next]_vars
    PROVE  SignaturesStayVerifiable'
<1>1. CASE keys' = keys /\ ledger' = ledger
  <2>1. \A ev : SignatureVerifies(ev)' <=> SignatureVerifies(ev)
    BY <1>1 DEF SignatureVerifies, ValidKeys
  <2> QED
    BY <1>1, <2>1 DEF SignaturesStayVerifiable
<1>2. ASSUME NEW c \in ceremonies, NEW performed \in Event, NEW rotated \in Event,
             ExecuteCeremony(c, performed, rotated)
      PROVE  SignaturesStayVerifiable'
  BY <1>2, ExecuteKeepsSignatures
<1>3. \/ keys' = keys /\ ledger' = ledger
      \/ \E c \in ceremonies, performed, rotated \in Event : ExecuteCeremony(c, performed, rotated)
  BY DEF Next, vars, store, InitiateCeremony, ApproveCeremony
<1> QED
  BY <1>1, <1>2, <1>3

\* Rows keep selecting the key that signed them while keys are replaced, as long
\* as who is recovered cannot execute: this is so in RecoveryService alone, where
\* a target never gets a new device.
THEOREM SignaturesRemainVerifiable == Spec => []SignaturesStayVerifiable
<1>1. Init => TargetsLockedOut /\ SignaturesStayVerifiable
  BY DEF Init, StoreInit, TargetsLockedOut, SignaturesStayVerifiable
<1>2. BaseInv /\ TargetsLockedOut /\ SignaturesStayVerifiable /\ [Next]_vars
        => TargetsLockedOut' /\ SignaturesStayVerifiable'
  BY LockOutInductive, SignaturesInductive
<1> QED
  BY <1>1, <1>2, BaseInvariant, PTL DEF Spec
=============================================================================
