-------------------------- MODULE VorcaroServerProofs --------------------------
(***************************************************************************)
(* The three writers of ledger.db together, for any calls, enrolments and  *)
(* ceremonies between each other.  None of them goes through the others'   *)
(* code, so what each relies on when it writes must be kept by the others: *)
(* the chain, the ids and counters that are spent, the heads, and what has *)
(* been acknowledged.                                                      *)
(*                                                                         *)
(* A step is one of the appender, whose lemmas are cited, or leaves ledger,*)
(* heads and acknowledgements alone (Unrecorded), or records one enrolment *)
(* (EnrolmentRecorded), or the two rows of a recovery (RecoveryRecorded).  *)
(***************************************************************************)
EXTENDS VorcaroServer, LedgerAppenderProofs

-----------------------------------------------------------------------------
(* What the other two writers do to the shared tables. *)

\* No row of devices is ever deleted, or given to another owner.
DevicesStay ==
    \A d \in Device : devices[d].status # "absent" =>
        devices'[d].status # "absent" /\ devices'[d].owner = devices[d].owner

RevokedStay ==
    \A d \in Device : devices[d].status = "revoked" => devices'[d].status = "revoked"

\* Nothing is recorded or acknowledged.
Unrecorded ==
    /\ UNCHANGED <<ledger, heads, conflicts, keys, acks, callVars>>
    /\ devices' \in [Device -> DeviceRow]
    /\ executives' \in [Executive -> ExecutiveStatus]
    /\ DevicesStay /\ RevokedStay

EnrolmentRecorded(ev) ==
    /\ ev.id \notin RowIds
    /\ devices[ev.device].status = "absent"
    /\ SignatureVerifies(ev) /\ ev.intact
    /\ ledger' = Append(ledger, NewRow(ev, "accepted", "none"))
    /\ devices' = [devices EXCEPT ![ev.device] =
                     [status |-> "enrolled", owner |-> ev.actor, watermark |-> ev.counter]]
    /\ heads' = [heads EXCEPT ![ev.object] = [seq |-> NextServerSequence, conflicted |-> FALSE]]
    /\ acks' = acks \cup {RowAck(NewRow(ev, "accepted", "none"))}
    /\ UNCHANGED <<conflicts, executives, keys, callVars>>

\* The row that is chained to first.
RowAfter(first, ev) ==
    [event |-> ev, seq |-> first.seq + 1, status |-> "accepted", error |-> "none",
     prev |-> first.hash, hash |-> LedgerHash(first.hash, first.seq + 1, ev)]

\* A row, and the one that is chained to it.
Pair(performed, rotated) ==
    LET first == NewRow(performed, "accepted", "none")
    IN  <<first, RowAfter(first, rotated)>>

RecoveryRecorded(performed, rotated, x) ==
    /\ Insertable(performed) /\ Insertable(rotated)
    /\ SignatureVerifies(performed) /\ SignatureVerifies(rotated)
    /\ Vouched(performed) /\ Vouched(rotated)
    /\ performed.id # rotated.id
    /\ rotated.counter = performed.counter + 1
    /\ ledger' = ledger \o Pair(performed, rotated)
    /\ heads' = [heads EXCEPT
          ![performed.object] = [seq |-> NextServerSequence, conflicted |-> FALSE],
          ![rotated.object] = [seq |-> NextServerSequence + 1, conflicted |-> FALSE]]
    /\ devices' = [devices EXCEPT ![rotated.device].watermark = rotated.counter]
    /\ KeyReplaced(x, Len(keys[x]), NextServerSequence - 1)
    /\ executives' = [executives EXCEPT ![x] = "active"]
    /\ acks' = acks \cup {RowAck(Pair(performed, rotated)[i]) : i \in {1, 2}}
    /\ UNCHANGED <<conflicts, callVars>>

\* The services read the tables as the appender does.
LEMMA PkiReadsAlike ==
    /\ Pki!NextServerSequence = NextServerSequence
    /\ Pki!PreviousLedgerHash = PreviousLedgerHash
    /\ Pki!RowIds = RowIds
    /\ \A ev : Pki!NewRow(ev, "accepted", "none") = NewRow(ev, "accepted", "none")
    /\ \A row : Pki!RowAck(row) = RowAck(row)
    /\ \A ev : Pki!SignatureVerifies(ev) <=> SignatureVerifies(ev)
<1>1. Pki!NextServerSequence = NextServerSequence
  BY DEF Pki!NextServerSequence, Pki!Max, NextServerSequence, Max
<1>2. Pki!PreviousLedgerHash = PreviousLedgerHash
  BY DEF Pki!PreviousLedgerHash, PreviousLedgerHash, Pki!GenesisHash, GenesisHash
<1> QED
  BY <1>1, <1>2 DEF Pki!RowIds, RowIds, Pki!NewRow, NewRow, Pki!RowAck, RowAck,
     Pki!LedgerHash, LedgerHash, Pki!SignatureVerifies, SignatureVerifies,
     Pki!ValidKeys, ValidKeys, Pki!Max, Max, Pki!OpenEnded, OpenEnded

LEMMA RecoveryReadsAlike ==
    /\ Recovery!NextServerSequence = NextServerSequence
    /\ Recovery!PreviousLedgerHash = PreviousLedgerHash
    /\ \A ev : Recovery!Insertable(ev) <=> Insertable(ev)
    /\ \A ev : Recovery!NewRow(ev, "accepted", "none") = NewRow(ev, "accepted", "none")
    /\ \A row : Recovery!RowAck(row) = RowAck(row)
    /\ \A ev : Recovery!SignatureVerifies(ev) <=> SignatureVerifies(ev)
<1>1. Recovery!NextServerSequence = NextServerSequence
  BY DEF Recovery!NextServerSequence, Recovery!Max, NextServerSequence, Max
<1>2. Recovery!PreviousLedgerHash = PreviousLedgerHash
  BY DEF Recovery!PreviousLedgerHash, PreviousLedgerHash, Recovery!GenesisHash, GenesisHash
<1>3. \A ev : Recovery!Insertable(ev) <=> Insertable(ev)
  BY DEF Recovery!Insertable, Insertable, Recovery!RowIds, RowIds
<1> QED
  BY <1>1, <1>2, <1>3 DEF Recovery!NewRow, NewRow, Recovery!RowAck, RowAck,
     Recovery!LedgerHash, LedgerHash, Recovery!SignatureVerifies, SignatureVerifies,
     Recovery!ValidKeys, ValidKeys, Recovery!Max, Max, Recovery!OpenEnded, OpenEnded

-----------------------------------------------------------------------------
(* The invariant. *)

\* Everything in the ledger was written on a device that has a row, so that the
\* counters of a device that is enrolled now are unused.
RowsHaveDevices ==
    \A i \in DOMAIN ledger : devices[ledger[i].event.device].status # "absent"

\* Each executive has a key, and the last one's window is open.
KeysAreOpen ==
    \A x \in Executive : Len(keys[x]) >= 1 /\ keys[x][Len(keys[x])].until = OpenEnded

\* The ceremonies know their targets, and each executive has a key to replace.
TargetsHaveKeys == ceremonies \subseteq Recovery!CeremonyRow /\ KeysAreOpen

RowsInv == RowsUnique /\ RowsHaveDevices

ServerInv == CoreInv /\ RowsInv /\ HeadsAreLatest /\ AcksPinLedger /\ TargetsHaveKeys

LEMMA ServerInitially == ServerInit => ServerInv
<1> SUFFICES ASSUME ServerInit PROVE ServerInv
  OBVIOUS
<1>1. Init /\ ceremonies = {}
  BY DEF ServerInit, Recovery!Init
<1>2. CoreInv /\ RowsUnique /\ HeadsAreLatest
  BY <1>1, CoreInitially, ObjectsInitially DEF ObjectInv
<1>3. ledger = <<>> /\ acks = {} /\ KeysAreOpen
  BY <1>1 DEF Init, StoreInit, KeysAreOpen
<1>4. RowsHaveDevices /\ AcksPinLedger /\ TargetsHaveKeys
  BY <1>1, <1>3 DEF RowsHaveDevices, AcksPinLedger, TargetsHaveKeys
<1> QED
  BY <1>2, <1>4 DEF ServerInv, RowsInv

-----------------------------------------------------------------------------
(* The steps of the two services, as what they record. *)

LEMMA PkiRecords ==
    ASSUME ServerInv, PkiStep
    PROVE  Unrecorded \/ \E ev \in Event : EnrolmentRecorded(ev)
<1>1. /\ devices \in [Device -> DeviceRow]
      /\ executives \in [Executive -> ExecutiveStatus]
  BY DEF ServerInv, CoreInv, TypeOK, StoreTypeOK
<1>2. UNCHANGED callVars
  BY DEF PkiStep
<1>3. CASE UNCHANGED Pki!store /\ UNCHANGED acks
  BY <1>1, <1>2, <1>3 DEF Pki!store, Unrecorded, DevicesStay, RevokedStay
<1>4. ASSUME NEW h \in challenges, NEW ev \in Event, Pki!CompleteEnrollment(h, ev)
      PROVE  EnrolmentRecorded(ev)
  BY <1>2, <1>4, PkiReadsAlike
     DEF Pki!CompleteEnrollment, Pki!AppendEnrollmentEvent, Pki!Enrollable,
         Pki!EnrollmentHead, EnrolmentRecorded
<1>5. ASSUME NEW d \in Device, Pki!RevokeDevice(d)
      PROVE  Unrecorded
  <2>1. /\ devices[d].status # "absent"
        /\ devices' = [devices EXCEPT ![d].status = "revoked"]
        /\ UNCHANGED <<ledger, heads, conflicts, executives, keys, acks>>
    BY <1>5 DEF Pki!RevokeDevice
  <2>2. devices' \in [Device -> DeviceRow]
    BY <1>1, <2>1 DEF DeviceRow, DeviceStatus
  <2>3. \A b \in Device : /\ devices'[b].status = IF b = d THEN "revoked" ELSE devices[b].status
                          /\ devices'[b].owner = devices[b].owner
    BY <1>1, <2>1 DEF DeviceRow
  <2> QED
    BY <1>1, <1>2, <2>1, <2>2, <2>3 DEF Unrecorded, DevicesStay, RevokedStay
<1>6. ASSUME NEW d \in Device, Pki!RevocationInterrupted(d)
      PROVE  UNCHANGED Pki!store /\ UNCHANGED acks
  BY <1>6 DEF Pki!RevocationInterrupted
<1>7. ASSUME NEW hash \in Token, NEW x \in Executive, Pki!IssueToken(hash, x)
      PROVE  UNCHANGED Pki!store /\ UNCHANGED acks
  BY <1>7 DEF Pki!IssueToken
<1>8. ASSUME NEW id \in Challenge, NEW t \in tokens, NEW d \in Device,
             Pki!BeginEnrollment(id, t, d)
      PROVE  UNCHANGED Pki!store /\ UNCHANGED acks
  BY <1>8 DEF Pki!BeginEnrollment
<1>9. ASSUME Pki!Expire
      PROVE  UNCHANGED Pki!store /\ UNCHANGED acks
  BY <1>9 DEF Pki!Expire
<1> QED
  BY <1>3, <1>4, <1>5, <1>6, <1>7, <1>8, <1>9 DEF PkiStep, Pki!Next

LEMMA RecoveryRecords ==
    ASSUME ServerInv, RecoveryStep
    PROVE  \/ Unrecorded
           \/ \E performed, rotated \in Event, x \in Executive :
                 RecoveryRecorded(performed, rotated, x)
<1>1. /\ devices \in [Device -> DeviceRow]
      /\ executives \in [Executive -> ExecutiveStatus]
      /\ ceremonies \subseteq Recovery!CeremonyRow
  BY DEF ServerInv, CoreInv, TypeOK, StoreTypeOK, TargetsHaveKeys
<1>2. UNCHANGED callVars
  BY DEF RecoveryStep
<1>3. ASSUME NEW id \in Ceremony, NEW x \in Executive, Recovery!InitiateCeremony(id, x)
      PROVE  Unrecorded
  <2>1. /\ executives' = [executives EXCEPT ![x] = "quarantined"]
        /\ devices' = [d \in Device |->
                         IF devices[d].owner = x /\ devices[d].status = "enrolled"
                         THEN [devices[d] EXCEPT !.status = "quarantined"]
                         ELSE devices[d]]
        /\ UNCHANGED <<ledger, heads, conflicts, keys, acks>>
    BY <1>3 DEF Recovery!InitiateCeremony, Recovery!Quarantined
  <2>2. executives' \in [Executive -> ExecutiveStatus]
    BY <1>1, <2>1 DEF ExecutiveStatus
  <2>3. \A d \in Device : [devices[d] EXCEPT !.status = "quarantined"] \in DeviceRow
    BY <1>1 DEF DeviceRow, DeviceStatus
  <2>4. devices' \in [Device -> DeviceRow]
    BY <1>1, <2>1, <2>3
  <2>5. \A d \in Device :
           /\ \/ devices'[d].status = devices[d].status
              \/ devices[d].status = "enrolled" /\ devices'[d].status = "quarantined"
           /\ devices'[d].owner = devices[d].owner
    BY <1>1, <2>1 DEF DeviceRow
  <2>6. DevicesStay /\ RevokedStay
    BY <2>5 DEF DevicesStay, RevokedStay
  <2> QED
    BY <1>2, <2>1, <2>2, <2>4, <2>6 DEF Unrecorded
<1>4. ASSUME NEW c \in ceremonies, NEW x \in Custodian, Recovery!ApproveCeremony(c, x)
      PROVE  Unrecorded
  <2>1. UNCHANGED <<ledger, heads, conflicts, devices, executives, keys, acks>>
    BY <1>4 DEF Recovery!ApproveCeremony, Recovery!store
  <2> QED
    BY <1>1, <1>2, <2>1 DEF Unrecorded, DevicesStay, RevokedStay
<1>5. ASSUME NEW c \in ceremonies, NEW performed \in Event, NEW rotated \in Event,
             Recovery!ExecuteCeremony(c, performed, rotated)
      PROVE  \E x \in Executive : RecoveryRecorded(performed, rotated, x)
  <2>1. c.target \in Executive
    BY <1>1 DEF Recovery!CeremonyRow
  <2>2. Recovery!RecoveryRows(performed, rotated) = Pair(performed, rotated)
    BY RecoveryReadsAlike
       DEF Recovery!RecoveryRows, Pair, RowAfter, Recovery!LedgerHash, LedgerHash
  <2>3. /\ Insertable(performed) /\ Insertable(rotated)
        /\ SignatureVerifies(performed) /\ SignatureVerifies(rotated)
        /\ performed.id # rotated.id
        /\ rotated.counter = performed.counter + 1
        /\ ledger' = ledger \o Pair(performed, rotated)
        /\ heads' = [heads EXCEPT
              ![performed.object] = [seq |-> NextServerSequence, conflicted |-> FALSE],
              ![rotated.object] = [seq |-> NextServerSequence + 1, conflicted |-> FALSE]]
        /\ devices' = [devices EXCEPT ![rotated.device].watermark = rotated.counter]
        /\ executives' = [executives EXCEPT ![c.target] = "active"]
        /\ acks' = acks \cup {RowAck(Pair(performed, rotated)[i]) : i \in {1, 2}}
        /\ UNCHANGED conflicts
    BY <1>5, <2>2, RecoveryReadsAlike DEF Recovery!ExecuteCeremony, Recovery!Executable
  <2>4. KeyReplaced(c.target, Len(keys[c.target]), NextServerSequence - 1)
    BY <1>5, RecoveryReadsAlike
       DEF Recovery!ExecuteCeremony, Recovery!RotatedKeys, Recovery!KeyVersion,
           Recovery!CurrentHeadSequence, Recovery!OpenEnded, OpenEnded, KeyReplaced
  <2>5. Vouched(performed) /\ Vouched(rotated)
    <3>1. /\ devices[performed.device].owner = performed.actor /\ performed.intact
          /\ devices[rotated.device].owner = rotated.actor /\ rotated.intact
      BY <1>5 DEF Recovery!ExecuteCeremony, Recovery!Executable, Recovery!CanExecute
    <3>2. \A ev \in Event : SignatureVerifies(ev) => ev.key \in DOMAIN keys[ev.actor]
      BY SelectedKeyIsValid DEF ServerInv, CoreInv, TypeOK, ValidKeys
    <3> QED
      BY <2>3, <3>1, <3>2 DEF Vouched
  <2>6. RecoveryRecorded(performed, rotated, c.target)
    BY <1>2, <2>3, <2>4, <2>5 DEF RecoveryRecorded
  <2> QED
    BY <2>1, <2>6
<1> QED
  BY <1>3, <1>4, <1>5 DEF RecoveryStep, Recovery!Next

-----------------------------------------------------------------------------
(* What each kind of step keeps. *)

SharedInv == CoreInv /\ RowsInv /\ HeadsAreLatest /\ AcksPinLedger

LEMMA UnrecordedKeeps ==
    ASSUME SharedInv, Unrecorded
    PROVE  SharedInv'
<1>1. /\ ledger' = ledger /\ heads' = heads /\ conflicts' = conflicts /\ keys' = keys
      /\ acks' = acks /\ queue' = queue /\ pending' = pending
      /\ devices' \in [Device -> DeviceRow]
      /\ executives' \in [Executive -> ExecutiveStatus]
      /\ DevicesStay
  BY DEF Unrecorded, callVars
<1>2. TypeOK'
  BY <1>1 DEF SharedInv, CoreInv, TypeOK, StoreTypeOK
<1>3. \A k : RecomputedHash(k)' = RecomputedHash(k)
  BY <1>1 DEF RecomputedHash
<1>4. ChainIntact'
  BY <1>1, <1>3 DEF SharedInv, CoreInv, ChainIntact
<1>5. QueueSound'
  BY <1>1 DEF SharedInv, CoreInv, QueueSound
<1>6. RowsUnique' /\ HeadsAreLatest' /\ AcksPinLedger'
  BY <1>1 DEF SharedInv, RowsInv, RowsUnique, HeadsAreLatest, AcceptedOn, AcksPinLedger
<1>7. RowsHaveDevices'
  <2>1. \A i \in DOMAIN ledger : ledger[i].event.device \in Device
    BY RowFields DEF SharedInv, CoreInv, TypeOK, StoreTypeOK
  <2> QED
    BY <1>1, <2>1 DEF SharedInv, RowsInv, RowsHaveDevices, DevicesStay
<1> QED
  BY <1>2, <1>4, <1>5, <1>6, <1>7 DEF SharedInv, CoreInv, RowsInv

\* A row of the ledger, as its acknowledgement.
LEMMA RowAckType == \A row \in Row : RowAck(row) \in Ack /\ RowAck(row).seq = row.seq
  BY EventAssumption DEF Row, RowAck, Ack, EventId

\* The rows up to n stay; those up to m are new.
RowsAdded(n, m) ==
    /\ n \in Nat /\ m \in Nat
    /\ ledger \in Seq(Row) /\ ledger' \in Seq(Row)
    /\ DOMAIN ledger = 1..n /\ DOMAIN ledger' = 1..m
    /\ n <= m
    /\ \A i \in 1..n : ledger'[i] = ledger[i]

LEMMA OldRowsStayAccepted ==
    ASSUME NEW n, NEW m, RowsAdded(n, m), NEW o, NEW i \in 1..n
    PROVE  AcceptedOn(o, i)' <=> AcceptedOn(o, i)
<1>1. i \in 1..m
  BY DEF RowsAdded
<1> QED
  BY <1>1 DEF RowsAdded, AcceptedOn

LEMMA EnrolmentAddsRow ==
    ASSUME CoreInv, NEW ev \in Event, EnrolmentRecorded(ev)
    PROVE  \E n \in Nat :
             /\ RowsAdded(n, n + 1) /\ ChainIntact'
             /\ NextServerSequence = n + 1
             /\ ledger'[n + 1] = NewRow(ev, "accepted", "none")
             /\ NewRow(ev, "accepted", "none") \in Row
             /\ ledger'[n + 1].event = ev
             /\ ledger'[n + 1].status = "accepted"
             /\ ledger'[n + 1].seq = n + 1
<1>1. ledger \in Seq(Row) /\ ChainIntact
  BY DEF CoreInv, TypeOK, StoreTypeOK
<1>2. "accepted" \in DecidedStatus /\ "none" \in ErrorCode
  BY DEF DecidedStatus, ErrorCode
<1>3. ledger' = Append(ledger, NewRow(ev, "accepted", "none"))
  BY DEF EnrolmentRecorded
<1>4. PICK n \in Nat : n = Len(ledger)
  BY <1>1
<1>5. /\ ledger' \in Seq(Row) /\ ChainIntact'
      /\ DOMAIN ledger = 1..n /\ DOMAIN ledger' = 1 .. n + 1
      /\ \A i \in 1..n : ledger'[i] = ledger[i]
      /\ ledger'[n + 1] = NewRow(ev, "accepted", "none")
  BY <1>1, <1>2, <1>3, <1>4, InsertKeepsChain
<1>6. RowsAdded(n, n + 1)
  BY <1>1, <1>5 DEF RowsAdded
<1>7. /\ NewRow(ev, "accepted", "none") \in Row
      /\ NewRow(ev, "accepted", "none").event = ev
      /\ NewRow(ev, "accepted", "none").status = "accepted"
      /\ NewRow(ev, "accepted", "none").seq = n + 1
      /\ NextServerSequence = n + 1
  BY <1>1, <1>2, <1>4, NewRowProperties, NextSequenceIsNextPosition
<1> QED
  BY <1>5, <1>6, <1>7

LEMMA EnrolmentKeeps ==
    ASSUME SharedInv, NEW ev \in Event, EnrolmentRecorded(ev)
    PROVE  SharedInv'
<1>1. CoreInv /\ TypeOK /\ StoreTypeOK
  BY DEF SharedInv, CoreInv, TypeOK
<1>2. PICK n \in Nat :
         /\ RowsAdded(n, n + 1) /\ ChainIntact'
         /\ NextServerSequence = n + 1
         /\ ledger'[n + 1] = NewRow(ev, "accepted", "none")
         /\ NewRow(ev, "accepted", "none") \in Row
         /\ ledger'[n + 1].event = ev
         /\ ledger'[n + 1].status = "accepted"
         /\ ledger'[n + 1].seq = n + 1
  BY <1>1, EnrolmentAddsRow
<1>3. /\ DOMAIN ledger = 1..n /\ DOMAIN ledger' = 1 .. n + 1
      /\ \A i \in 1..n : ledger'[i] = ledger[i]
      /\ ledger \in Seq(Row) /\ ledger' \in Seq(Row)
  BY <1>2 DEF RowsAdded
<1>4. \A i \in 1 .. n + 1 : i \in 1..n \/ i = n + 1
  OBVIOUS
<1>5. ev.actor \in Executive /\ ev.device \in Device /\ ev.counter \in Nat /\ ev.object \in Object
  BY EventAssumption DEF ClientEvent
<1>6. /\ heads' = [heads EXCEPT ![ev.object] = [seq |-> n + 1, conflicted |-> FALSE]]
      /\ devices' = [devices EXCEPT ![ev.device] =
                       [status |-> "enrolled", owner |-> ev.actor, watermark |-> ev.counter]]
      /\ acks' = acks \cup {RowAck(ledger'[n + 1])}
      /\ conflicts' = conflicts /\ executives' = executives /\ keys' = keys
      /\ queue' = queue /\ pending' = pending
  BY <1>2 DEF EnrolmentRecorded, callVars
<1>7. CoreInv'
  <2>1. [seq |-> n + 1, conflicted |-> FALSE] \in HeadRow
    BY DEF HeadRow
  <2>2. [status |-> "enrolled", owner |-> ev.actor, watermark |-> ev.counter] \in DeviceRow
    BY <1>5 DEF DeviceRow, DeviceStatus
  <2>3. heads' \in [Object -> HeadRow] /\ devices' \in [Device -> DeviceRow]
    BY <1>1, <1>6, <2>1, <2>2 DEF StoreTypeOK
  <2>4. StoreTypeOK'
    BY <1>1, <1>3, <1>6, <2>3 DEF StoreTypeOK
  <2>5. acks' \subseteq Ack
    BY <1>1, <1>2, <1>6, RowAckType DEF TypeOK
  <2>6. QueueSound'
    BY <1>1, <1>6 DEF CoreInv, QueueSound
  <2> QED
    BY <1>1, <1>2, <1>6, <2>4, <2>5, <2>6 DEF CoreInv, TypeOK
<1>8. RowsUnique'
  <2>1. \A i \in 1..n : ledger[i].event.id # ev.id
    BY <1>3 DEF EnrolmentRecorded, RowIds
  <2>2. \A i \in 1..n : ledger[i].event.device # ev.device
    BY <1>3 DEF EnrolmentRecorded, SharedInv, RowsInv, RowsHaveDevices
  <2> QED
    BY <1>2, <1>3, <1>4, <2>1, <2>2 DEF SharedInv, RowsInv, RowsUnique
<1>9. RowsHaveDevices'
  <2>1. \A i \in 1..n : ledger[i].event.device \in Device
    BY <1>3, RowFields
  <2>2. devices'[ev.device].status = "enrolled"
    BY <1>1, <1>5, <1>6 DEF StoreTypeOK
  <2>3. \A d \in Device : d # ev.device => devices'[d] = devices[d]
    BY <1>1, <1>6 DEF StoreTypeOK
  <2> QED
    BY <1>2, <1>3, <1>4, <2>1, <2>2, <2>3 DEF SharedInv, RowsInv, RowsHaveDevices
<1>10. HeadsAreLatest'
  <2>1. ASSUME NEW o \in Object, NEW h, h = heads'[o].seq
        PROVE  /\ h # 0 => AcceptedOn(o, h)'
               /\ \A i \in 1 .. n + 1 : AcceptedOn(o, i)' => i <= h
    <3>1. CASE o = ev.object
      <4>1. h = n + 1
        BY <1>1, <1>6, <2>1, <3>1 DEF StoreTypeOK
      <4>2. AcceptedOn(o, n + 1)'
        BY <1>2, <1>3, <3>1 DEF AcceptedOn
      <4> QED
        BY <4>1, <4>2
    <3>2. CASE o # ev.object
      <4>1. h = heads[o].seq
        BY <1>1, <1>6, <2>1, <3>2 DEF StoreTypeOK
      <4>2. h # 0 => AcceptedOn(o, h) /\ h \in 1..n
        BY <1>3, <4>1 DEF SharedInv, HeadsAreLatest, AcceptedOn
      <4>3. h # 0 => AcceptedOn(o, h)'
        BY <1>2, <4>2, OldRowsStayAccepted
      <4>4. ~AcceptedOn(o, n + 1)'
        BY <1>2, <3>2 DEF AcceptedOn
      <4>5. \A i \in 1..n : AcceptedOn(o, i)' => i <= h
        BY <1>2, <1>3, <4>1, OldRowsStayAccepted DEF SharedInv, HeadsAreLatest
      <4> QED
        BY <1>4, <4>3, <4>4, <4>5
    <3> QED
      BY <3>1, <3>2
  <2> QED
    BY <1>3, <2>1 DEF HeadsAreLatest, AcceptedOn
<1>11. AcksPinLedger'
  <2>1. \A a \in acks : a.seq # 0 => a.seq \in 1..n /\ a = RowAck(ledger[a.seq])
    BY <1>3 DEF SharedInv, AcksPinLedger
  <2>2. \A a \in acks' : a.seq # 0 => a.seq \in 1 .. n + 1 /\ a = RowAck(ledger'[a.seq])
    <3>1. ASSUME NEW a \in acks', a = RowAck(ledger'[n + 1])
          PROVE  a.seq = n + 1
      BY <1>2, <3>1 DEF RowAck
    <3>2. \A i \in 1..n : i \in 1 .. n + 1
      OBVIOUS
    <3> QED
      BY <1>3, <1>6, <2>1, <3>1, <3>2
  <2> QED
    BY <1>3, <2>2 DEF AcksPinLedger, RowAck
<1> QED
  BY <1>7, <1>8, <1>9, <1>10, <1>11 DEF SharedInv, RowsInv

LEMMA PairKeepsChain ==
    ASSUME ledger \in Seq(Row), ChainIntact, NEW n \in Nat, n = Len(ledger),
           NEW performed \in Event, NEW rotated \in Event,
           ledger' = ledger \o Pair(performed, rotated)
    PROVE  /\ ledger' \in Seq(Row)
           /\ ChainIntact'
           /\ NextServerSequence = n + 1
           /\ DOMAIN ledger = 1..n
           /\ DOMAIN ledger' = 1 .. n + 2
           /\ \A i \in 1..n : ledger'[i] = ledger[i]
           /\ ledger'[n + 1] = Pair(performed, rotated)[1]
           /\ ledger'[n + 2] = Pair(performed, rotated)[2]
           /\ ledger'[n + 1].event = performed /\ ledger'[n + 1].status = "accepted"
           /\ ledger'[n + 2].event = rotated /\ ledger'[n + 2].status = "accepted"
<1>1. PICK first : first = NewRow(performed, "accepted", "none")
  OBVIOUS
<1>2. PICK second :
         second = [event |-> rotated, seq |-> first.seq + 1, status |-> "accepted",
                   error |-> "none", prev |-> first.hash,
                   hash |-> LedgerHash(first.hash, first.seq + 1, rotated)]
  OBVIOUS
<1>3. Pair(performed, rotated) = <<first, second>>
  BY <1>1, <1>2 DEF Pair, RowAfter
<1>4. ledger' = ledger \o <<first, second>>
  BY <1>3
<1> QED
  BY <1>1, <1>2, <1>3, <1>4, TwoInsertsKeepChain

LEMMA RecoveryAddsRows ==
    ASSUME CoreInv, NEW performed \in Event, NEW rotated \in Event, NEW x,
           RecoveryRecorded(performed, rotated, x)
    PROVE  \E n \in Nat :
             /\ RowsAdded(n, n + 2) /\ ChainIntact'
             /\ NextServerSequence = n + 1
             /\ ledger'[n + 1].event = performed /\ ledger'[n + 2].event = rotated
             /\ ledger'[n + 1].status = "accepted" /\ ledger'[n + 2].status = "accepted"
             /\ acks' = acks \cup {RowAck(ledger'[n + 1]), RowAck(ledger'[n + 2])}
<1>1. ledger \in Seq(Row) /\ ChainIntact
  BY DEF CoreInv, TypeOK, StoreTypeOK
<1>2. PICK n \in Nat : n = Len(ledger)
  BY <1>1
<1>3. /\ ledger' = ledger \o Pair(performed, rotated)
      /\ acks' = acks \cup {RowAck(Pair(performed, rotated)[1]),
                            RowAck(Pair(performed, rotated)[2])}
  BY DEF RecoveryRecorded
<1>4. /\ ledger' \in Seq(Row) /\ ChainIntact' /\ NextServerSequence = n + 1
      /\ DOMAIN ledger = 1..n /\ DOMAIN ledger' = 1 .. n + 2
      /\ \A i \in 1..n : ledger'[i] = ledger[i]
      /\ ledger'[n + 1] = Pair(performed, rotated)[1]
      /\ ledger'[n + 2] = Pair(performed, rotated)[2]
      /\ ledger'[n + 1].event = performed /\ ledger'[n + 1].status = "accepted"
      /\ ledger'[n + 2].event = rotated /\ ledger'[n + 2].status = "accepted"
  BY <1>1, <1>2, <1>3, PairKeepsChain
<1>5. RowsAdded(n, n + 2)
  BY <1>1, <1>4 DEF RowsAdded
<1> QED
  BY <1>3, <1>4, <1>5

\* The key of x that was open is closed at the head, and another one is open.
LEMMA RecoveryReplacesKey ==
    ASSUME CoreInv, KeysAreOpen, NEW performed \in Event, NEW rotated \in Event,
           NEW x \in Executive, RecoveryRecorded(performed, rotated, x)
    PROVE  /\ \E n, k \in Nat : /\ n = Len(ledger) /\ k >= 1 /\ k = Len(keys[x])
                                /\ keys[x][k].until = OpenEnded
                                /\ WindowsAfter(x, k, n)
           /\ KeysAreOpen'
<1>1. ledger \in Seq(Row) /\ ChainIntact /\ keys \in [Executive -> Seq(KeyWindow)]
  BY DEF CoreInv, TypeOK, StoreTypeOK
<1>2. PICK n \in Nat : n = Len(ledger)
  BY <1>1
<1>3. PICK k \in Nat : k = Len(keys[x])
  BY <1>1
<1>4. k >= 1 /\ keys[x][k].until = OpenEnded
  BY <1>3 DEF KeysAreOpen
<1>5. NextServerSequence - 1 = n
  <2>1. NextServerSequence = n + 1
    BY <1>1, <1>2, NextSequenceIsNextPosition
  <2> QED
    BY <2>1
<1>6. KeyReplaced(x, k, n)
  BY <1>3, <1>5 DEF RecoveryRecorded
<1>7. WindowsAfter(x, k, n)
  BY <1>1, <1>3, <1>4, <1>6, KeysAreReplaced
<1>8. KeysAreOpen'
  <2>1. /\ Len(keys'[x]) = k + 1 /\ k + 1 >= 1
        /\ keys'[x][k + 1].until = OpenEnded
    BY <1>4, <1>7 DEF WindowsAfter
  <2>2. \A y \in Executive : y # x => keys'[y] = keys[y]
    BY <1>7 DEF WindowsAfter
  <2> QED
    BY <2>1, <2>2 DEF KeysAreOpen
<1> QED
  BY <1>2, <1>3, <1>4, <1>7, <1>8

LEMMA RecoveryKeeps ==
    ASSUME SharedInv, TargetsHaveKeys, NEW performed \in Event, NEW rotated \in Event,
           NEW x \in Executive, RecoveryRecorded(performed, rotated, x)
    PROVE  SharedInv' /\ KeysAreOpen'
<1>1. CoreInv /\ TypeOK /\ StoreTypeOK
  BY DEF SharedInv, CoreInv, TypeOK
<1>2. PICK n \in Nat :
         /\ RowsAdded(n, n + 2) /\ ChainIntact'
         /\ NextServerSequence = n + 1
         /\ ledger'[n + 1].event = performed /\ ledger'[n + 2].event = rotated
         /\ ledger'[n + 1].status = "accepted" /\ ledger'[n + 2].status = "accepted"
         /\ acks' = acks \cup {RowAck(ledger'[n + 1]), RowAck(ledger'[n + 2])}
  BY <1>1, RecoveryAddsRows
<1>3. /\ DOMAIN ledger = 1..n /\ DOMAIN ledger' = 1 .. n + 2
      /\ \A i \in 1..n : ledger'[i] = ledger[i]
      /\ ledger \in Seq(Row) /\ ledger' \in Seq(Row)
  BY <1>2 DEF RowsAdded
<1>4. /\ \A i \in 1 .. n + 2 : i \in 1..n \/ i = n + 1 \/ i = n + 2
      /\ n + 1 \in 1 .. n + 2 /\ n + 2 \in 1 .. n + 2 /\ n + 1 # n + 2
      /\ \A i \in 1..n : i \in 1 .. n + 2 /\ i # n + 1 /\ i # n + 2
  OBVIOUS
<1>5. ledger'[n + 1] \in Row /\ ledger'[n + 2] \in Row
  BY <1>3, <1>4
<1>6. ledger'[n + 1].seq = n + 1 /\ ledger'[n + 2].seq = n + 2
  BY <1>2, <1>3, <1>4 DEF ChainIntact
<1>7. /\ performed.device \in Device /\ performed.object \in Object
      /\ rotated.device \in Device /\ rotated.object \in Object /\ rotated.counter \in Nat
      /\ performed.counter \in Nat
  BY EventAssumption DEF ClientEvent
<1>8. /\ heads' = [heads EXCEPT
            ![performed.object] = [seq |-> n + 1, conflicted |-> FALSE],
            ![rotated.object] = [seq |-> (n + 1) + 1, conflicted |-> FALSE]]
      /\ devices' = [devices EXCEPT ![rotated.device].watermark = rotated.counter]
      /\ executives' = [executives EXCEPT ![x] = "active"]
      /\ conflicts' = conflicts /\ queue' = queue /\ pending' = pending
  BY <1>2 DEF RecoveryRecorded, callVars
<1>9. (n + 1) + 1 = n + 2 /\ (n + 1) - 1 = n
  OBVIOUS
<1>10. keys' \in [Executive -> Seq(KeyWindow)] /\ KeysAreOpen'
  BY <1>1, RecoveryReplacesKey DEF TargetsHaveKeys, WindowsAfter
<1>11. CoreInv'
  <2>1. heads' \in [Object -> HeadRow]
    <3>1. /\ [seq |-> n + 1, conflicted |-> FALSE] \in HeadRow
          /\ [seq |-> (n + 1) + 1, conflicted |-> FALSE] \in HeadRow
      BY DEF HeadRow
    <3> QED
      BY <1>1, <1>8, <3>1 DEF StoreTypeOK
  <2>2. devices' \in [Device -> DeviceRow]
    <3>1. devices \in [Device -> DeviceRow]
      BY <1>1 DEF StoreTypeOK
    <3>2. \A d \in Device : [devices[d] EXCEPT !.watermark = rotated.counter] \in DeviceRow
      BY <1>7, <3>1 DEF DeviceRow
    <3> QED
      BY <1>8, <3>1, <3>2
  <2>3. executives' \in [Executive -> ExecutiveStatus]
    BY <1>1, <1>8 DEF StoreTypeOK, ExecutiveStatus
  <2>4. StoreTypeOK'
    BY <1>1, <1>3, <1>8, <1>10, <2>1, <2>2, <2>3 DEF StoreTypeOK
  <2>5. acks' \subseteq Ack
    BY <1>1, <1>2, <1>5, RowAckType DEF TypeOK
  <2>6. QueueSound'
    BY <1>1, <1>8 DEF CoreInv, QueueSound
  <2> QED
    BY <1>1, <1>2, <1>8, <2>4, <2>5, <2>6 DEF CoreInv, TypeOK
<1>12. RowsUnique'
  <2>1. \A i \in 1..n :
           /\ ledger[i].event.id # performed.id /\ ledger[i].event.id # rotated.id
           /\ \/ ledger[i].event.device # performed.device
              \/ ledger[i].event.counter # performed.counter
           /\ \/ ledger[i].event.device # rotated.device
              \/ ledger[i].event.counter # rotated.counter
    BY <1>3 DEF RecoveryRecorded, Insertable, RowIds
  <2>2. performed.id # rotated.id /\ performed.counter # rotated.counter
    BY <1>7 DEF RecoveryRecorded
  <2> QED
    BY <1>2, <1>3, <1>4, <2>1, <2>2 DEF SharedInv, RowsInv, RowsUnique
<1>13. RowsHaveDevices'
  <2>1. \A i \in 1..n : ledger[i].event.device \in Device
    BY <1>3, RowFields
  <2>2. \A d \in Device : devices'[d].status = devices[d].status
    BY <1>1, <1>8 DEF StoreTypeOK, DeviceRow
  <2>3. devices[performed.device].status # "absent" /\ devices[rotated.device].status # "absent"
    BY DEF RecoveryRecorded, Insertable
  <2> QED
    BY <1>2, <1>3, <1>4, <1>7, <2>1, <2>2, <2>3 DEF SharedInv, RowsInv, RowsHaveDevices
<1>14. HeadsAreLatest'
  <2>1. heads \in [Object -> HeadRow]
    BY <1>1 DEF StoreTypeOK
  <2>2. ASSUME NEW o \in Object, NEW h, h = heads'[o].seq
        PROVE  /\ h # 0 => AcceptedOn(o, h)'
               /\ \A i \in 1 .. n + 2 : AcceptedOn(o, i)' => i <= h
    <3>1. CASE o = rotated.object
      <4>1. h = n + 2
        BY <1>8, <1>9, <2>1, <2>2, <3>1
      <4>2. AcceptedOn(o, n + 2)'
        BY <1>2, <1>3, <1>4, <3>1 DEF AcceptedOn
      <4> QED
        BY <4>1, <4>2
    <3>2. CASE o # rotated.object /\ o = performed.object
      <4>1. h = n + 1
        BY <1>8, <2>1, <2>2, <3>2
      <4>2. AcceptedOn(o, n + 1)' /\ ~AcceptedOn(o, n + 2)'
        BY <1>2, <1>3, <1>4, <3>2 DEF AcceptedOn
      <4> QED
        BY <1>4, <4>1, <4>2
    <3>3. CASE o # rotated.object /\ o # performed.object
      <4>1. h = heads[o].seq
        BY <1>8, <2>1, <2>2, <3>3
      <4>2. h # 0 => AcceptedOn(o, h) /\ h \in 1..n
        BY <1>3, <4>1 DEF SharedInv, HeadsAreLatest, AcceptedOn
      <4>3. h # 0 => AcceptedOn(o, h)'
        BY <1>2, <4>2, OldRowsStayAccepted
      <4>4. ~AcceptedOn(o, n + 1)' /\ ~AcceptedOn(o, n + 2)'
        BY <1>2, <3>3 DEF AcceptedOn
      <4>5. \A i \in 1..n : AcceptedOn(o, i)' => i <= h
        BY <1>2, <1>3, <4>1, OldRowsStayAccepted DEF SharedInv, HeadsAreLatest
      <4> QED
        BY <1>4, <4>3, <4>4, <4>5
    <3> QED
      BY <3>1, <3>2, <3>3
  <2> QED
    BY <1>3, <2>2 DEF HeadsAreLatest, AcceptedOn
<1>15. AcksPinLedger'
  <2>1. \A a \in acks : a.seq # 0 => a.seq \in 1..n /\ a = RowAck(ledger[a.seq])
    BY <1>3 DEF SharedInv, AcksPinLedger
  <2>2. RowAck(ledger'[n + 1]).seq = n + 1 /\ RowAck(ledger'[n + 2]).seq = n + 2
    BY <1>6 DEF RowAck
  <2>3. \A a \in acks' : a.seq # 0 => a.seq \in 1 .. n + 2 /\ a = RowAck(ledger'[a.seq])
    BY <1>2, <1>3, <1>4, <2>1, <2>2
  <2> QED
    BY <1>3, <2>3 DEF AcksPinLedger, RowAck
<1> QED
  BY <1>10, <1>11, <1>12, <1>13, <1>14, <1>15 DEF SharedInv, RowsInv

LEMMA AppenderKeeps ==
    ASSUME SharedInv, [Next]_vars
    PROVE  SharedInv' /\ keys' = keys /\ RevokedStay
<1>1. CoreInv /\ CoreInv' /\ AcksPinLedger'
  BY CoreInductive, AcksInductive DEF SharedInv
<1>2. CASE UNCHANGED store
  <2>1. ledger' = ledger /\ heads' = heads /\ devices' = devices /\ keys' = keys
    BY <1>2 DEF store
  <2>2. RowsInv' /\ HeadsAreLatest'
    BY <2>1 DEF SharedInv, RowsInv, RowsUnique, RowsHaveDevices, HeadsAreLatest, AcceptedOn
  <2> QED
    BY <1>1, <2>1, <2>2 DEF SharedInv, RevokedStay
<1>3. ASSUME NEW c \in Caller, Writes(c)
      PROVE  SharedInv' /\ keys' = keys /\ RevokedStay
  <2>1. RowsUnique' /\ HeadsAreLatest'
    BY <1>1, <1>3, WritesKeepRowsUnique, WritesKeepHeads DEF SharedInv, RowsInv
  <2>2. PICK ev \in Event, status \in DecidedStatus, error \in ErrorCode :
           Insertable(ev) /\ Commit(ev, status, error)
    BY <1>3 DEF Writes
  <2>3. PICK n \in Nat : n = Len(ledger)
    BY <1>1 DEF CoreInv, TypeOK, StoreTypeOK
  <2>4. /\ ledger \in Seq(Row) /\ DOMAIN ledger = 1..n /\ DOMAIN ledger' = 1 .. n + 1
        /\ \A i \in 1..n : ledger'[i] = ledger[i]
        /\ ledger'[n + 1].event = ev
    BY <1>1, <2>2, <2>3, CommittedRow
  <2>5. \A d \in Device : devices'[d].status = devices[d].status
    BY <1>1, <2>2 DEF Commit, MoveWatermark, CoreInv, TypeOK, StoreTypeOK, DeviceRow
  <2>6. \A i \in 1 .. n + 1 : i \in 1..n \/ i = n + 1
    OBVIOUS
  <2>7. ev.device \in Device /\ \A i \in 1..n : ledger[i].event.device \in Device
    BY <2>4, RowFields, EventAssumption DEF ClientEvent
  <2>8. RowsHaveDevices'
    BY <2>2, <2>4, <2>5, <2>6, <2>7 DEF SharedInv, RowsInv, RowsHaveDevices, Insertable
  <2>9. keys' = keys
    BY <2>2 DEF Commit
  <2> QED
    BY <1>1, <2>1, <2>5, <2>8, <2>9 DEF SharedInv, RowsInv, RevokedStay
<1> QED
  BY <1>1, <1>2, <1>3, StepWrites

LEMMA CeremoniesKeepType ==
    ASSUME TargetsHaveKeys, CoreInv, RecoveryStep
    PROVE  ceremonies' \subseteq Recovery!CeremonyRow
<1>1. ceremonies \subseteq Recovery!CeremonyRow
  BY DEF TargetsHaveKeys
<1>2. ASSUME NEW id \in Ceremony, NEW x \in Executive, Recovery!InitiateCeremony(id, x)
      PROVE  ceremonies' \subseteq Recovery!CeremonyRow
  <2>1. [id |-> id, target |-> x, status |-> "open", approvals |-> {}] \in Recovery!CeremonyRow
    BY DEF Recovery!CeremonyRow
  <2> QED
    BY <1>1, <1>2, <2>1 DEF Recovery!InitiateCeremony
<1>3. ASSUME NEW c \in ceremonies, NEW x \in Custodian, Recovery!ApproveCeremony(c, x)
      PROVE  ceremonies' \subseteq Recovery!CeremonyRow
  <2>1. PICK approvals, status :
           /\ approvals = c.approvals \cup {[approver |-> x, version |-> Recovery!KeyVersion(x)]}
           /\ status = IF Recovery!MeetsThreshold(approvals) THEN "threshold_met" ELSE c.status
           /\ ceremonies' = (ceremonies \ {c}) \cup
                {[c EXCEPT !.approvals = approvals, !.status = status]}
    BY <1>3 DEF Recovery!ApproveCeremony
  <2>2. x \in Executive /\ Recovery!KeyVersion(x) \in Nat
    BY CustodianAssumption DEF Recovery!KeyVersion, CoreInv, TypeOK, StoreTypeOK
  <2>3. approvals \in SUBSET Recovery!Approval
    BY <1>1, <2>1, <2>2 DEF Recovery!CeremonyRow, Recovery!Approval
  <2>4. status \in {"open", "threshold_met", "executed"}
    BY <1>1, <2>1 DEF Recovery!CeremonyRow
  <2>5. [c EXCEPT !.approvals = approvals, !.status = status] \in Recovery!CeremonyRow
    BY <1>1, <2>3, <2>4 DEF Recovery!CeremonyRow
  <2> QED
    BY <1>1, <2>1, <2>5
<1>4. ASSUME NEW c \in ceremonies, NEW performed \in Event, NEW rotated \in Event,
             Recovery!ExecuteCeremony(c, performed, rotated)
      PROVE  ceremonies' \subseteq Recovery!CeremonyRow
  <2>1. [c EXCEPT !.status = "executed"] \in Recovery!CeremonyRow
    BY <1>1 DEF Recovery!CeremonyRow
  <2> QED
    BY <1>1, <1>4, <2>1 DEF Recovery!ExecuteCeremony
<1> QED
  BY <1>2, <1>3, <1>4 DEF RecoveryStep, Recovery!Next

LEMMA ServerInductive ==
    ASSUME ServerInv, [ServerNext]_serverVars
    PROVE  ServerInv'
<1>1. SharedInv /\ TargetsHaveKeys
  BY DEF ServerInv, SharedInv
<1>2. CASE AppenderStep \/ UNCHANGED serverVars
  <2>1. [Next]_vars /\ ceremonies' = ceremonies
    BY <1>2 DEF AppenderStep, serverVars, recoveryTables
  <2>2. SharedInv' /\ keys' = keys
    BY <1>1, <2>1, AppenderKeeps
  <2>3. TargetsHaveKeys'
    BY <1>1, <2>1, <2>2 DEF TargetsHaveKeys, KeysAreOpen
  <2> QED
    BY <2>2, <2>3 DEF ServerInv, SharedInv
<1>3. CASE PkiStep
  <2>1. SharedInv' /\ keys' = keys
    BY <1>1, <1>3, PkiRecords, UnrecordedKeeps, EnrolmentKeeps
       DEF Unrecorded, EnrolmentRecorded
  <2>2. TargetsHaveKeys'
    BY <1>1, <1>3, <2>1 DEF PkiStep, recoveryTables, TargetsHaveKeys, KeysAreOpen
  <2> QED
    BY <2>1, <2>2 DEF ServerInv, SharedInv
<1>4. CASE RecoveryStep
  <2>1. SharedInv' /\ KeysAreOpen'
    <3>1. CASE Unrecorded
      BY <1>1, <3>1, UnrecordedKeeps DEF Unrecorded, TargetsHaveKeys, KeysAreOpen
    <3>2. ASSUME NEW performed \in Event, NEW rotated \in Event, NEW x \in Executive,
                 RecoveryRecorded(performed, rotated, x)
          PROVE  SharedInv' /\ KeysAreOpen'
      BY <1>1, <3>2, RecoveryKeeps
    <3> QED
      BY <1>4, <3>1, <3>2, RecoveryRecords
  <2>2. TargetsHaveKeys'
    BY <1>1, <1>4, <2>1, CeremoniesKeepType DEF SharedInv, TargetsHaveKeys
  <2> QED
    BY <2>1, <2>2 DEF ServerInv, SharedInv
<1> QED
  BY <1>2, <1>3, <1>4 DEF ServerNext

LEMMA ServerInvariant == ServerSpec => []ServerInv
<1>1. ServerInit => ServerInv
  BY ServerInitially
<1>2. ServerInv /\ [ServerNext]_serverVars => ServerInv'
  BY ServerInductive
<1> QED
  BY <1>1, <1>2, PTL DEF ServerSpec

-----------------------------------------------------------------------------
(* The theorems. *)

\* Three writers with three copies of the statements extend one chain.
THEOREM WritersShareChain == ServerSpec => []ChainIntact
<1>1. ServerInv => ChainIntact
  BY DEF ServerInv, CoreInv
<1> QED
  BY <1>1, ServerInvariant, PTL

\* No event id and no device counter is recorded twice, whoever records it: a
\* counter the appender rejected, a recovery cannot spend.
THEOREM WritersRecordOnce == ServerSpec => []RowsUnique
<1>1. ServerInv => RowsUnique
  BY DEF ServerInv, RowsInv
<1> QED
  BY <1>1, ServerInvariant, PTL

\* Enrolments and recoveries move the heads of their objects as the appender
\* does: each is the latest accepted row.
THEOREM WritersKeepHeadsLatest == ServerSpec => []HeadsAreLatest
<1>1. ServerInv => HeadsAreLatest
  BY DEF ServerInv
<1> QED
  BY <1>1, ServerInvariant, PTL

\* What any writer has signed stays true, whatever the others record.
THEOREM WritersKeepAcks == ServerSpec => []AcksPinLedger
<1>1. ServerInv => AcksPinLedger
  BY DEF ServerInv
<1> QED
  BY <1>1, ServerInvariant, PTL

-----------------------------------------------------------------------------
(* What a step may not do. *)

LEMMA EnrolmentKeepsRevoked ==
    ASSUME CoreInv, NEW ev \in Event, EnrolmentRecorded(ev)
    PROVE  RevokedStay
<1>1. devices \in [Device -> DeviceRow]
  BY DEF CoreInv, TypeOK, StoreTypeOK
<1>2. ASSUME NEW d \in Device, devices[d].status = "revoked"
      PROVE  devices'[d] = devices[d]
  BY <1>1, <1>2 DEF EnrolmentRecorded
<1> QED
  BY <1>2 DEF RevokedStay

LEMMA RecoveryKeepsRevoked ==
    ASSUME CoreInv, NEW performed \in Event, NEW rotated \in Event, NEW x,
           RecoveryRecorded(performed, rotated, x)
    PROVE  RevokedStay
<1>1. devices \in [Device -> DeviceRow]
  BY DEF CoreInv, TypeOK, StoreTypeOK
<1>2. \A d \in Device : devices'[d].status = devices[d].status
  BY <1>1 DEF RecoveryRecorded, DeviceRow
<1> QED
  BY <1>2 DEF RevokedStay

\* A device that was revoked stays so, whichever of the writers acts: enrolment
\* wants a device without a row, and a recovery quarantines enrolled ones only.
LEMMA StepsKeepRevoked ==
    ASSUME ServerInv, [ServerNext]_serverVars
    PROVE  RevokedStay
<1>1. SharedInv /\ CoreInv
  BY DEF ServerInv, SharedInv
<1>2. CASE AppenderStep \/ UNCHANGED serverVars
  <2>1. [Next]_vars
    BY <1>2 DEF AppenderStep, serverVars
  <2> QED
    BY <1>1, <2>1, AppenderKeeps
<1>3. CASE PkiStep
  BY <1>1, <1>3, PkiRecords, EnrolmentKeepsRevoked DEF Unrecorded
<1>4. CASE RecoveryStep
  BY <1>1, <1>4, RecoveryRecords, RecoveryKeepsRevoked DEF Unrecorded
<1> QED
  BY <1>2, <1>3, <1>4 DEF ServerNext

\* Revocation is for good: neither an enrolment nor the recovery of its owner,
\* who becomes active again, makes the device anything else.
THEOREM RevocationOutlivesRecovery == ServerSpec => RevokedForGood
<1>1. ServerInv /\ [ServerNext]_serverVars =>
         [\A d \in Device :
            devices[d].status = "revoked" => devices'[d].status = "revoked"]_(Pki!vars)
  BY StepsKeepRevoked DEF RevokedStay
<1> QED
  BY <1>1, ServerInvariant, PTL DEF ServerSpec, RevokedForGood, Pki!RevokedForGood

-----------------------------------------------------------------------------
(* Signatures under keys that are replaced. *)

\* What the property asks of row i, which holds the event ev.
Verifiable(ev, i) == SignatureVerifies(ev) \/ ReplacesKeyOf(ev.actor, i)

\* The rows beyond the n-th are verifiable after the step.
NewRowsVerify(n, m) ==
    \A i \in n + 1 .. m : ledger'[i].status # "rejected" =>
        \E ev \in Event : ev = ledger'[i].event /\ Verifiable(ev, i)'

\* No key is withdrawn, and the windows begin where they began.
WindowsStay ==
    \A x \in Executive : \A v \in DOMAIN keys[x] :
        v \in DOMAIN keys'[x] /\ keys'[x][v].from = keys[x][v].from

LEMMA ReplacementsStay ==
    ASSUME WindowsStay, NEW x \in Executive, NEW i \in Nat, ReplacesKeyOf(x, i)
    PROVE  ReplacesKeyOf(x, i)'
<1>1. PICK v \in DOMAIN keys[x] \ {1} : i \in {keys[x][v].from + 1, keys[x][v].from + 2}
  BY DEF ReplacesKeyOf
<1>2. v \in DOMAIN keys'[x] \ {1} /\ keys'[x][v].from = keys[x][v].from
  BY DEF WindowsStay
<1> QED
  BY <1>1, <1>2 DEF ReplacesKeyOf

\* A row is as verifiable as before if the selection of keys is the same for what
\* is based on less than the head.
LEMMA RowsStayVerifiable ==
    ASSUME OnlySelfRecoveryOutdates, NEW n \in Nat, NEW m \in Nat, RowsAdded(n, m),
           NewRowsVerify(n, m), WindowsStay,
           \A ev \in Event : SignatureVerifies(ev) /\ ev.base < n => SignatureVerifies(ev)'
    PROVE  OnlySelfRecoveryOutdates'
<1>1. /\ DOMAIN ledger = 1..n /\ DOMAIN ledger' = 1..m /\ ledger \in Seq(Row)
      /\ \A i \in 1..n : ledger'[i] = ledger[i]
  BY DEF RowsAdded
<1>2. ASSUME NEW i \in 1..n, ledger'[i].status # "rejected", ledger'[i].event.base < i
      PROVE  \E ev \in Event : ev = ledger'[i].event /\ Verifiable(ev, i)'
  <2>1. PICK ev \in Event : ev = ledger[i].event
    BY <1>1, RowFields
  <2>2. ledger'[i].event = ev /\ Verifiable(ev, i)
    BY <1>1, <1>2, <2>1 DEF OnlySelfRecoveryOutdates, Verifiable
  <2>3. ev.base \in Nat /\ ev.base < i /\ ev.actor \in Executive
    BY <1>2, <2>2, EventAssumption DEF ClientEvent
  <2>4. ev.base < n
    BY <2>3
  <2>5. CASE SignatureVerifies(ev)
    BY <2>2, <2>4, <2>5 DEF Verifiable
  <2>6. CASE ReplacesKeyOf(ev.actor, i)
    <3>1. ReplacesKeyOf(ev.actor, i)'
      BY <2>3, <2>6, ReplacementsStay
    <3> QED
      BY <2>2, <3>1 DEF Verifiable
  <2> QED
    BY <2>2, <2>5, <2>6 DEF Verifiable
<1>3. \A i \in 1..m : i \in 1..n \/ i \in n + 1 .. m
  OBVIOUS
<1>4. ASSUME NEW i \in DOMAIN ledger', ledger'[i].status # "rejected", ledger'[i].event.base < i
      PROVE  \E ev \in Event : ev = ledger'[i].event /\ Verifiable(ev, i)'
  BY <1>1, <1>2, <1>3, <1>4 DEF NewRowsVerify
<1>5. ASSUME NEW i \in DOMAIN ledger', ledger'[i].status # "rejected", ledger'[i].event.base < i
      PROVE  Verifiable(ledger[i].event, i)'
  <2>1. PICK ev \in Event : ev = ledger'[i].event /\ Verifiable(ev, i)'
    BY <1>4, <1>5
  <2> QED
    BY <2>1 DEF Verifiable, SignatureVerifies, ValidKeys, ReplacesKeyOf
<1> QED
  BY <1>5 DEF OnlySelfRecoveryOutdates, Verifiable

\* What was verified with keys that a step leaves alone is verifiable after it.
LEMMA SameKeysVerify ==
    ASSUME OnlySelfRecoveryOutdates, NEW n \in Nat, RowsAdded(n, n + 1), keys' = keys,
           NEW ev \in Event, ledger'[n + 1].event = ev,
           ledger'[n + 1].status # "rejected" => SignatureVerifies(ev)
    PROVE  OnlySelfRecoveryOutdates'
<1>1. \A e : SignatureVerifies(e)' <=> SignatureVerifies(e)
  BY DEF SignatureVerifies, ValidKeys
<1>2. \A i \in n + 1 .. n + 1 : i = n + 1
  OBVIOUS
<1>3. NewRowsVerify(n, n + 1)
  BY <1>1, <1>2 DEF NewRowsVerify, Verifiable
<1>4. WindowsStay
  BY DEF WindowsStay
<1> QED
  BY <1>1, <1>3, <1>4, RowsStayVerifiable

LEMMA UntouchedRowsVerify ==
    OnlySelfRecoveryOutdates /\ UNCHANGED <<ledger, keys>> => OnlySelfRecoveryOutdates'
BY DEF OnlySelfRecoveryOutdates, SignatureVerifies, ValidKeys, ReplacesKeyOf

LEMMA AppenderKeepsSignatures ==
    ASSUME SharedInv, OnlySelfRecoveryOutdates, [Next]_vars
    PROVE  OnlySelfRecoveryOutdates'
<1>1. CoreInv /\ CoreInv'
  BY CoreInductive DEF SharedInv
<1>2. CASE UNCHANGED store
  BY <1>2, UntouchedRowsVerify DEF store
<1>3. ASSUME NEW c \in Caller, Writes(c)
      PROVE  OnlySelfRecoveryOutdates'
  <2>1. PICK ev \in Event, status \in DecidedStatus, error \in ErrorCode :
           Justified(ev, status) /\ Commit(ev, status, error)
    BY <1>3 DEF Writes
  <2>2. PICK n \in Nat : n = Len(ledger)
    BY <1>1 DEF CoreInv, TypeOK, StoreTypeOK
  <2>3. /\ DOMAIN ledger = 1..n /\ DOMAIN ledger' = 1 .. n + 1
        /\ ledger \in Seq(Row) /\ ledger' \in Seq(Row)
        /\ \A i \in 1..n : ledger'[i] = ledger[i]
        /\ ledger'[n + 1].event = ev /\ ledger'[n + 1].status = status
    <3>1. ledger' \in Seq(Row)
      BY <1>1 DEF CoreInv, TypeOK, StoreTypeOK
    <3> QED
      BY <1>1, <2>1, <2>2, <3>1, CommittedRow
  <2>4. RowsAdded(n, n + 1)
    BY <2>3 DEF RowsAdded
  <2>5. keys' = keys /\ (status # "rejected" => SignatureVerifies(ev))
    BY <2>1 DEF Commit, Justified
  <2> QED
    BY <2>3, <2>4, <2>5, SameKeysVerify
<1> QED
  BY <1>1, <1>2, <1>3, StepWrites

LEMMA EnrolmentKeepsSignatures ==
    ASSUME SharedInv, OnlySelfRecoveryOutdates, NEW ev \in Event, EnrolmentRecorded(ev)
    PROVE  OnlySelfRecoveryOutdates'
<1>1. PICK n \in Nat : RowsAdded(n, n + 1) /\ ledger'[n + 1].event = ev
  BY EnrolmentAddsRow DEF SharedInv
<1>2. keys' = keys /\ SignatureVerifies(ev)
  BY DEF EnrolmentRecorded
<1> QED
  BY <1>1, <1>2, SameKeysVerify

LEMMA RecoveryKeepsWindows ==
    ASSUME CoreInv, KeysAreOpen, NEW performed \in Event, NEW rotated \in Event,
           NEW x \in Executive, RecoveryRecorded(performed, rotated, x)
    PROVE  WindowsStay
<1>1. PICK h, k \in Nat : k = Len(keys[x]) /\ WindowsAfter(x, k, h)
  BY RecoveryReplacesKey
<1>2. /\ keys[x] \in Seq(KeyWindow) /\ DOMAIN keys[x] = 1..k
      /\ keys'[x] \in Seq(KeyWindow) /\ DOMAIN keys'[x] = 1 .. k + 1
  BY <1>1 DEF WindowsAfter, CoreInv, TypeOK, StoreTypeOK
<1>3. \A v \in 1..k : v \in 1 .. k + 1 /\ keys'[x][v].from = keys[x][v].from
  BY <1>1 DEF WindowsAfter
<1>4. \A y \in Executive : y # x => keys'[y] = keys[y]
  BY <1>1 DEF WindowsAfter
<1> QED
  BY <1>2, <1>3, <1>4 DEF WindowsStay

\* The two rows of a recovery of x are signed by somebody whose key stays as it
\* is, or by x herself; and the selection for x changes from the head on.
LEMMA RecoveryKeepsSignatures ==
    ASSUME SharedInv, KeysAreOpen, OnlySelfRecoveryOutdates,
           NEW performed \in Event, NEW rotated \in Event, NEW x \in Executive,
           RecoveryRecorded(performed, rotated, x)
    PROVE  OnlySelfRecoveryOutdates'
<1>1. CoreInv /\ keys \in [Executive -> Seq(KeyWindow)]
  BY DEF SharedInv, CoreInv, TypeOK, StoreTypeOK
<1>2. PICK n \in Nat : /\ RowsAdded(n, n + 2)
                      /\ ledger'[n + 1].event = performed /\ ledger'[n + 2].event = rotated
  BY <1>1, RecoveryAddsRows
<1>3. PICK h, k \in Nat : /\ h = Len(ledger) /\ k >= 1 /\ k = Len(keys[x])
                         /\ keys[x][k].until = OpenEnded
                         /\ WindowsAfter(x, k, h)
  BY <1>1, RecoveryReplacesKey
<1>4. h = n
  <2>1. ledger \in Seq(Row) /\ DOMAIN ledger = 1..n
    BY <1>2 DEF RowsAdded
  <2> QED
    BY <1>3, <2>1
<1>5. ReplacesKeyOf(x, n + 1)' /\ ReplacesKeyOf(x, n + 2)'
  <2>1. k + 1 \in DOMAIN keys'[x] \ {1} /\ keys'[x][k + 1].from = n
    BY <1>3, <1>4 DEF WindowsAfter
  <2> QED
    BY <2>1 DEF ReplacesKeyOf
<1>6. WindowsStay
  BY <1>1, RecoveryKeepsWindows
<1>7. \A ev \in Event : SignatureVerifies(ev) /\ (ev.actor # x \/ ev.base < n)
                         => SignatureVerifies(ev)'
  BY <1>1, <1>3, <1>4, ReplacementKeepsSelection
<1>8. Verifiable(performed, n + 1)' /\ Verifiable(rotated, n + 2)'
  BY <1>5, <1>7 DEF RecoveryRecorded, Verifiable
<1>9. \A i \in n + 1 .. n + 2 : i = n + 1 \/ i = n + 2
  OBVIOUS
<1>10. NewRowsVerify(n, n + 2)
  BY <1>2, <1>8, <1>9 DEF NewRowsVerify
<1> QED
  BY <1>2, <1>6, <1>7, <1>10, RowsStayVerifiable

LEMMA StepsKeepSignatures ==
    ASSUME ServerInv, OnlySelfRecoveryOutdates, [ServerNext]_serverVars
    PROVE  OnlySelfRecoveryOutdates'
<1>1. SharedInv /\ KeysAreOpen
  BY DEF ServerInv, SharedInv, TargetsHaveKeys
<1>2. CASE AppenderStep \/ UNCHANGED serverVars
  <2>1. [Next]_vars
    BY <1>2 DEF AppenderStep, serverVars
  <2> QED
    BY <1>1, <2>1, AppenderKeepsSignatures
<1>3. CASE Unrecorded
  BY <1>3, UntouchedRowsVerify DEF Unrecorded
<1> QED
  BY <1>1, <1>2, <1>3, PkiRecords, RecoveryRecords, EnrolmentKeepsSignatures,
     RecoveryKeepsSignatures DEF ServerNext

\* Whatever the three writers do between each other, every row that took effect
\* stays verifiable with the key that signed it, except the rows of a ceremony
\* that its target executed herself (executeCeremony, findExecutiveKey).
THEOREM OthersRowsStayVerifiable == ServerSpec => []OnlySelfRecoveryOutdates
<1>1. ServerInit => OnlySelfRecoveryOutdates
  BY DEF ServerInit, Init, StoreInit, OnlySelfRecoveryOutdates
<1>2. ServerInv /\ OnlySelfRecoveryOutdates /\ [ServerNext]_serverVars
        => OnlySelfRecoveryOutdates'
  BY StepsKeepSignatures
<1> QED
  BY <1>1, <1>2, ServerInvariant, PTL DEF ServerSpec

-----------------------------------------------------------------------------
(* What a row rests on, whoever wrote it. *)

LEMMA RowsStayVouched ==
    ASSUME EffectsAreVerified, RowsHaveDevices, DevicesStay, WindowsStay,
           NEW n \in Nat, NEW m \in Nat, RowsAdded(n, m),
           \A i \in n + 1 .. m : \E ev \in Event : ev = ledger'[i].event /\ Vouched(ev)'
    PROVE  EffectsAreVerified'
<1>1. /\ DOMAIN ledger = 1..n /\ DOMAIN ledger' = 1..m /\ ledger \in Seq(Row)
      /\ \A i \in 1..n : ledger'[i] = ledger[i]
  BY DEF RowsAdded
<1>2. ASSUME NEW i \in 1..n, ledger'[i].status # "rejected"
      PROVE  \E ev \in Event : ev = ledger'[i].event /\ Vouched(ev)'
  <2>1. PICK ev \in Event : ev = ledger[i].event
    BY <1>1, RowFields
  <2>2. ledger'[i].event = ev /\ Vouched(ev) /\ devices[ev.device].status # "absent"
    BY <1>1, <1>2, <2>1 DEF EffectsAreVerified, RowsHaveDevices, Vouched
  <2>3. ev.device \in Device /\ ev.actor \in Executive
    BY EventAssumption DEF ClientEvent
  <2>4. Vouched(ev)'
    BY <2>2, <2>3 DEF Vouched, DevicesStay, WindowsStay
  <2> QED
    BY <2>2, <2>4
<1>3. \A i \in 1..m : i \in 1..n \/ i \in n + 1 .. m
  OBVIOUS
<1>4. ASSUME NEW i \in DOMAIN ledger', ledger'[i].status # "rejected"
      PROVE  \E ev \in Event : ev = ledger'[i].event /\ Vouched(ev)'
  BY <1>1, <1>2, <1>3, <1>4
<1>5. ASSUME NEW i \in DOMAIN ledger', ledger'[i].status # "rejected"
      PROVE  Vouched(ledger[i].event)'
  <2>1. PICK ev \in Event : ev = ledger'[i].event /\ Vouched(ev)'
    BY <1>4, <1>5
  <2> QED
    BY <2>1 DEF Vouched
<1> QED
  BY <1>5 DEF EffectsAreVerified, Vouched

LEMMA UnrecordedKeepsEffects ==
    ASSUME SharedInv, EffectsAreVerified, Unrecorded
    PROVE  EffectsAreVerified'
<1>1. PICK n \in Nat : RowsAdded(n, n)
  BY DEF SharedInv, CoreInv, TypeOK, StoreTypeOK, Unrecorded, RowsAdded
<1>2. \A i \in n + 1 .. n : FALSE
  OBVIOUS
<1>3. DevicesStay /\ WindowsStay /\ RowsHaveDevices
  BY DEF Unrecorded, WindowsStay, SharedInv, RowsInv
<1> QED
  BY <1>1, <1>2, <1>3, RowsStayVouched

LEMMA EnrolmentKeepsEffects ==
    ASSUME SharedInv, EffectsAreVerified, NEW ev \in Event, EnrolmentRecorded(ev)
    PROVE  EffectsAreVerified'
<1>1. CoreInv /\ devices \in [Device -> DeviceRow] /\ RowsHaveDevices
  BY DEF SharedInv, CoreInv, TypeOK, StoreTypeOK, RowsInv
<1>2. PICK n \in Nat : RowsAdded(n, n + 1) /\ ledger'[n + 1].event = ev
  BY <1>1, EnrolmentAddsRow
<1>3. DevicesStay /\ devices'[ev.device].owner = ev.actor
  BY <1>1, EventAssumption DEF EnrolmentRecorded, DevicesStay, ClientEvent
<1>4. WindowsStay
  BY DEF EnrolmentRecorded, WindowsStay
<1>5. ev.key \in DOMAIN keys[ev.actor]
  BY <1>1, SelectedKeyIsValid DEF EnrolmentRecorded, CoreInv, TypeOK, ValidKeys
<1>6. Vouched(ev)'
  BY <1>3, <1>5 DEF EnrolmentRecorded, Vouched
<1>7. \A i \in n + 1 .. n + 1 : i = n + 1
  OBVIOUS
<1> QED
  BY <1>1, <1>2, <1>3, <1>4, <1>6, <1>7, RowsStayVouched

LEMMA RecoveryKeepsEffects ==
    ASSUME SharedInv, KeysAreOpen, EffectsAreVerified,
           NEW performed \in Event, NEW rotated \in Event, NEW x \in Executive,
           RecoveryRecorded(performed, rotated, x)
    PROVE  EffectsAreVerified'
<1>1. CoreInv /\ devices \in [Device -> DeviceRow] /\ RowsHaveDevices
  BY DEF SharedInv, CoreInv, TypeOK, StoreTypeOK, RowsInv
<1>2. PICK n \in Nat : /\ RowsAdded(n, n + 2)
                      /\ ledger'[n + 1].event = performed /\ ledger'[n + 2].event = rotated
  BY <1>1, RecoveryAddsRows
<1>3. \A d \in Device : /\ devices'[d].owner = devices[d].owner
                        /\ devices'[d].status = devices[d].status
  BY <1>1 DEF RecoveryRecorded, DeviceRow
<1>4. DevicesStay /\ WindowsStay
  BY <1>1, <1>3, RecoveryKeepsWindows DEF DevicesStay
<1>5. \A ev \in Event : Vouched(ev) => Vouched(ev)'
  <2>1. \A ev \in Event : ev.device \in Device /\ ev.actor \in Executive
    BY EventAssumption DEF ClientEvent
  <2>2. \A y \in Executive : DOMAIN keys[y] \subseteq DOMAIN keys'[y]
    BY <1>4 DEF WindowsStay
  <2> QED
    BY <1>3, <2>1, <2>2 DEF Vouched
<1>6. Vouched(performed)' /\ Vouched(rotated)'
  BY <1>5 DEF RecoveryRecorded
<1>7. \A i \in n + 1 .. n + 2 : i = n + 1 \/ i = n + 2
  OBVIOUS
<1> QED
  BY <1>1, <1>2, <1>4, <1>6, <1>7, RowsStayVouched

LEMMA StepsKeepEffects ==
    ASSUME ServerInv, EffectsAreVerified, [ServerNext]_serverVars
    PROVE  EffectsAreVerified'
<1>1. SharedInv /\ KeysAreOpen
  BY DEF ServerInv, SharedInv, TargetsHaveKeys
<1>2. CASE AppenderStep \/ UNCHANGED serverVars
  <2>1. [Next]_vars
    BY <1>2 DEF AppenderStep, serverVars
  <2> QED
    BY <1>1, <2>1, EffectsInductive DEF SharedInv
<1> QED
  BY <1>1, <1>2, PkiRecords, RecoveryRecords, UnrecordedKeepsEffects,
     EnrolmentKeepsEffects, RecoveryKeepsEffects DEF ServerNext

\* No row took effect that its actor did not sign, with a key of hers and on a
\* device of hers, whichever of the three writers checked that (appendNow,
\* completeEnrollment, executeCeremony); and a device does not change hands.
THEOREM EffectsStayVerified == ServerSpec => []EffectsAreVerified
<1>1. ServerInit => EffectsAreVerified
  BY DEF ServerInit, Init, StoreInit, EffectsAreVerified
<1>2. ServerInv /\ EffectsAreVerified /\ [ServerNext]_serverVars => EffectsAreVerified'
  BY StepsKeepEffects
<1> QED
  BY <1>1, <1>2, ServerInvariant, PTL DEF ServerSpec

-----------------------------------------------------------------------------
(* The append-only ledger. *)

\* Rows stay where they are, and acknowledgements are not taken back.
StepExtends ==
    /\ DOMAIN ledger \subseteq DOMAIN ledger'
    /\ \A i \in DOMAIN ledger : ledger'[i] = ledger[i]
    /\ acks \subseteq acks'

LEMMA StepsExtend ==
    ASSUME ServerInv, [ServerNext]_serverVars
    PROVE  StepExtends
<1>1. CoreInv
  BY DEF ServerInv
<1>2. CASE AppenderStep \/ UNCHANGED serverVars
  <2>1. [Next]_vars
    BY <1>2 DEF AppenderStep, serverVars
  <2> QED
    BY <1>1, <2>1, EntriesKept, AcksGrow DEF StepExtends
<1>3. CASE Unrecorded
  BY <1>3 DEF Unrecorded, StepExtends
<1>4. ASSUME NEW ev \in Event, EnrolmentRecorded(ev)
      PROVE  StepExtends
  <2>1. acks \subseteq acks'
    BY <1>4 DEF EnrolmentRecorded
  <2>2. PICK n \in Nat : RowsAdded(n, n + 1)
    BY <1>1, <1>4, EnrolmentAddsRow
  <2> QED
    BY <2>1, <2>2 DEF RowsAdded, StepExtends
<1>5. ASSUME NEW performed \in Event, NEW rotated \in Event, NEW x \in Executive,
             RecoveryRecorded(performed, rotated, x)
      PROVE  StepExtends
  <2>1. acks \subseteq acks'
    BY <1>5 DEF RecoveryRecorded
  <2>2. PICK n \in Nat : RowsAdded(n, n + 2)
    BY <1>1, <1>5, RecoveryAddsRows
  <2> QED
    BY <2>1, <2>2 DEF RowsAdded, StepExtends
<1> QED
  BY <1>2, <1>3, <1>4, <1>5, PkiRecords, RecoveryRecords DEF ServerNext

LEMMA ServerStepExtendsLedger ==
    ASSUME ServerInv, ServerInv', [ServerNext]_serverVars
    PROVE  Promise!LedgerNext
<1>1. StepExtends
  BY StepsExtend
<1>2. Promise!Extends
  BY <1>1 DEF StepExtends, Promise!Extends, Entries, RowAck
<1>3. Promise!OneEntryEach'
  BY DEF ServerInv, RowsInv, RowsUnique, Promise!OneEntryEach, Entries, RowAck
<1>4. Receipts \subseteq Receipts'
  BY <1>1 DEF StepExtends, Receipts
<1>5. \A a \in Receipts' : \E i \in DOMAIN Entries' : a = Entries'[i]
  BY DEF ServerInv, Receipts, Entries, AcksPinLedger, RowAck
<1> QED
  BY <1>2, <1>3, <1>4, <1>5 DEF Promise!LedgerNext, Promise!Issue

\* The three writers together are an append-only ledger: what AppendOnlyLedger
\* promises to the holder of a receipt, the server keeps, and not the appender
\* alone.
THEOREM WritersKeepPromise == ServerSpec => WritersImplementLedger
<1>1. ServerInit => Promise!LedgerInit
  BY DEF ServerInit, Init, StoreInit, Promise!LedgerInit, Entries, Receipts
<1>2. ServerInv /\ ServerInv' /\ [ServerNext]_serverVars => Promise!LedgerNext
  BY ServerStepExtendsLedger
<1> QED
  BY <1>1, <1>2, ServerInvariant, PTL
     DEF ServerSpec, WritersImplementLedger, ImplementsLedger, Promise!LedgerSpec
=============================================================================
