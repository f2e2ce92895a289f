------------------------------ MODULE LedgerStore ------------------------------
(***************************************************************************)
(* The tables of ledger.db that every writer of the server shares, and the *)
(* statements those writers build their transactions from.  LedgerAppender,*)
(* PkiService and RecoveryService all write these tables through one       *)
(* connection of a single-threaded process, so one transaction is one step.*)
(*                                                                         *)
(* Abstractions of data:                                                   *)
(*   - a signature is the version of the actor's key that made it (0: none *)
(*     of the server's keys verifies it);                                  *)
(*   - a ledger hash is the content it commits to, that is, hashing is     *)
(*     collision-free;                                                     *)
(*   - a certificate fingerprint is the device it was issued to (devices.  *)
(*     certificate_fingerprint is UNIQUE and never updated);               *)
(*   - timestamps, payload bytes and risk scores are left out.             *)
(*                                                                         *)
(* A definition named Bug... is a mutation of the definition after it: it  *)
(* is used by no specification and shows which property would notice it.   *)
(***************************************************************************)
EXTENDS Integers, Sequences, FiniteSetsExt

CONSTANTS Device,         \* device ids
          Executive,      \* executive ids
          Object,         \* pairs (object_type, object_id)
          Event,          \* the client events that may be submitted
          BootDevices,    \* rows of devices in the initial database
          BootExecutives  \* rows of executives in the initial database

-----------------------------------------------------------------------------
(* Rows. *)

EventType == {"OBJECT_CHANGED", "CONFLICT_RESOLVED", "DEVICE_ENROLLED",
              "RECOVERY_PERFORMED", "KEY_ROTATED"}

\* OBJECT_CHANGED stands for every event type the server treats alike.
ClientEvent == [id : STRING, type : EventType, actor : Executive,
                device : Device, counter : Nat, base : Nat, object : Object,
                key : Nat, intact : BOOLEAN]

EventId == {ev.id : ev \in Event}

DeviceStatus == {"absent", "enrolled", "revoked", "quarantined"}
ExecutiveStatus == {"absent", "active", "quarantined", "deactivated"}
DecidedStatus == {"pending", "accepted", "rejected", "conflicted"}

ErrorCode == {"none", "CERT_REVOKED", "CERT_UNKNOWN", "EXECUTIVE_INACTIVE",
              "REPLAY_COUNTER", "BAD_SIGNATURE", "BAD_PAYLOAD_HASH", "CONFLICT",
              "POLICY_DENIED", "APPROVALS_REQUIRED", "POLICY_VERSION_MISMATCH"}

DeviceRow == [status : DeviceStatus, owner : Executive, watermark : Nat]

ASSUME EventAssumption == Event \subseteq ClientEvent
ASSUME BootAssumption == /\ BootDevices \in [Device -> DeviceRow]
                         /\ BootExecutives \in [Executive -> ExecutiveStatus]

LedgerHash(prev, seq, ev) == Append(prev, <<seq, ev>>)
GenesisHash == <<>>
Hash == Seq(Nat \X Event)

Row == [event : Event, seq : Nat, status : DecidedStatus, error : ErrorCode,
        prev : Hash, hash : Hash]

\* valid_until_sequence IS NULL
OpenEnded == -1
KeyWindow == [from : Nat, until : Nat \cup {OpenEnded}]

\* seq = 0 and not conflicted: the object has no row in object_heads.
HeadRow == [seq : Nat, conflicted : BOOLEAN]
NoHead == [seq |-> 0, conflicted |-> FALSE]

\* resolution is the set of at most one event id (NULL is the empty set).
ConflictRow == [object : Object, events : SUBSET EventId, detected : Nat,
                status : {"open", "resolved"}, resolution : SUBSET EventId]

-----------------------------------------------------------------------------
VARIABLES ledger,      \* ledger_events, in insertion order
          heads,       \* object_heads
          conflicts,   \* conflicts
          devices,     \* devices
          executives,  \* executives.status
          keys         \* executive_keys: versions 1, 2, ... of each executive

store == <<ledger, heads, conflicts, devices, executives, keys>>

StoreTypeOK ==
    /\ ledger \in Seq(Row)
    /\ heads \in [Object -> HeadRow]
    /\ conflicts \subseteq ConflictRow
    /\ devices \in [Device -> DeviceRow]
    /\ executives \in [Executive -> ExecutiveStatus]
    /\ keys \in [Executive -> Seq(KeyWindow)]

StoreInit ==
    /\ ledger = <<>>
    /\ heads = [o \in Object |-> NoHead]
    /\ conflicts = {}
    /\ devices = BootDevices
    /\ executives = BootExecutives
    /\ keys = [x \in Executive |-> <<[from |-> 0, until |-> OpenEnded]>>]

-----------------------------------------------------------------------------
(* SELECTs. *)

RowIds == {ledger[i].event.id : i \in DOMAIN ledger}

\* SELECT COALESCE(MAX(server_sequence), 0) + 1
NextServerSequence ==
    Max({0} \cup {ledger[i].seq : i \in DOMAIN ledger}) + 1

\* Mutation: the chain skips rows that were not accepted.
BugPreviousLedgerHash ==
    LET chained == {i \in DOMAIN ledger : ledger[i].status = "accepted"}
    IN  IF chained = {} THEN GenesisHash ELSE ledger[Max(chained)].hash

\* ORDER BY server_sequence DESC LIMIT 1, or the genesis hash
PreviousLedgerHash ==
    IF ledger = <<>> THEN GenesisHash
    ELSE LET top == CHOOSE i \in DOMAIN ledger :
                      \A j \in DOMAIN ledger : ledger[j].seq <= ledger[i].seq
         IN  ledger[top].hash

\* Mutation: the beginning of the window is not compared.
BugValidKeys(x, base) ==
    {v \in DOMAIN keys[x] : keys[x][v].until = OpenEnded \/ keys[x][v].until >= base}

\* The versions of x's key whose window contains the base sequence.
ValidKeys(x, base) ==
    {v \in DOMAIN keys[x] :
        /\ keys[x][v].from <= base
        /\ keys[x][v].until = OpenEnded \/ keys[x][v].until >= base}

\* ORDER BY key_version DESC LIMIT 1, then the signature check
SignatureVerifies(ev) ==
    /\ ValidKeys(ev.actor, ev.base) # {}
    /\ ev.key = Max(ValidKeys(ev.actor, ev.base))

OpenConflicts(o) == {c \in conflicts : c.object = o /\ c.status = "open"}

HeadEventIds(o) ==
    {ledger[i].event.id : i \in {j \in DOMAIN ledger : ledger[j].seq = heads[o].seq}}

\* Mutation: no UNIQUE (device_id, device_event_counter).
BugInsertable(ev) ==
    /\ ev.id \notin RowIds
    /\ executives[ev.actor] # "absent"
    /\ devices[ev.device].status # "absent"

\* PRIMARY KEY, UNIQUE (device_id, device_event_counter), foreign keys
Insertable(ev) ==
    /\ ev.id \notin RowIds
    /\ \A i \in DOMAIN ledger :
          ~(/\ ledger[i].event.device = ev.device
            /\ ledger[i].event.counter = ev.counter)
    /\ executives[ev.actor] # "absent"
    /\ devices[ev.device].status # "absent"

-----------------------------------------------------------------------------
(* The INSERT of a ledger row, and the acknowledgement signed for it. *)

NewRow(ev, status, error) ==
    [event |-> ev, seq |-> NextServerSequence, status |-> status,
     error |-> error, prev |-> PreviousLedgerHash,
     hash |-> LedgerHash(PreviousLedgerHash, NextServerSequence, ev)]

\* seq = 0 and an empty hash: the acknowledgement names no ledger row.
Ack == [id : EventId, status : DecidedStatus, seq : Nat, hash : Hash,
        error : ErrorCode]

RowAck(row) == [id |-> row.event.id, status |-> row.status, seq |-> row.seq,
                hash |-> row.hash, error |-> row.error]

-----------------------------------------------------------------------------
(* Invariants of the shared tables. *)

AcceptedOn(o, i) ==
    /\ i \in DOMAIN ledger
    /\ ledger[i].event.object = o
    /\ ledger[i].status = "accepted"

\* The chain recomputed from the events of the first n rows.
RecomputedHash(n) == [i \in 1..n |-> <<i, ledger[i].event>>]

\* The ledger is gapless, and the hash each row stores is the one a verifier
\* recomputes from genesis over the rows before it (computeLedgerHash,
\* nextServerSequence, previousLedgerHash).
ChainIntact ==
    \A i \in DOMAIN ledger :
        /\ ledger[i].seq = i
        /\ ledger[i].prev = RecomputedHash(i - 1)
        /\ ledger[i].hash = RecomputedHash(i)

\* No event is recorded twice and no device counter is spent twice, although
\* the replay check relies on a watermark that is not monotone.
RowsUnique ==
    \A i, j \in DOMAIN ledger : i # j =>
        /\ ledger[i].event.id # ledger[j].event.id
        /\ \/ ledger[i].event.device # ledger[j].event.device
           \/ ledger[i].event.counter # ledger[j].event.counter

\* object_heads points at the latest accepted event of each object
\* (updateObjectHead against the rows inserted by the same transactions).
HeadsAreLatest ==
    \A o \in Object :
        /\ heads[o].seq # 0 => AcceptedOn(o, heads[o].seq)
        /\ \A i \in DOMAIN ledger : AcceptedOn(o, i) => i <= heads[o].seq

\* An object is flagged exactly while it has an open conflict, and it has at
\* most one (updateObjectHead against openConflict and resolveConflict).
ConflictFlagged ==
    \A o \in Object :
        /\ heads[o].conflicted <=> OpenConflicts(o) # {}
        /\ \A c, d \in OpenConflicts(o) : c = d

\* The accepted event that was the head of o when row n was inserted.
HeadBefore(o, h, n) ==
    /\ AcceptedOn(o, h)
    /\ h < n
    /\ \A i \in h+1 .. n-1 : ~AcceptedOn(o, i)

\* A row took effect only if its actor owns the device, its payload is intact and
\* one of the actor's keys signed it.  Each writer has checks of its own
\* for that (appendNow, completeEnrollment, executeCeremony).
EffectsAreVerified ==
    \A i \in DOMAIN ledger : ledger[i].status # "rejected" =>
        /\ devices[ledger[i].event.device].owner = ledger[i].event.actor
        /\ ledger[i].event.intact
        /\ ledger[i].event.key \in DOMAIN keys[ledger[i].event.actor]

\* The two rows that conflict names: the challenger and the head it missed.
NamesBothSides(c) ==
    /\ c.detected \in DOMAIN ledger
    /\ ledger[c.detected].status = "conflicted"
    /\ \E h \in DOMAIN ledger :
          /\ HeadBefore(c.object, h, c.detected)
          /\ ledger[c.detected].event.base < h
          /\ c.events = {ledger[h].event.id, ledger[c.detected].event.id}

\* Nothing is accepted on the object since the conflict was detected.
StillFrozen(c) ==
    \A i \in DOMAIN ledger : i > c.detected => ~AcceptedOn(c.object, i)

\* The first row accepted on the object since then is the resolution.
ResolvedByFirst(c) ==
    \E k \in DOMAIN ledger :
        /\ k > c.detected
        /\ AcceptedOn(c.object, k)
        /\ ledger[k].event.type = "CONFLICT_RESOLVED"
        /\ c.resolution = {ledger[k].event.id}
        /\ \A i \in c.detected .. k-1 : ~AcceptedOn(c.object, i)

\* A conflict names both sides, and nothing is accepted on its object until it
\* is resolved, by an accepted CONFLICT_RESOLVED event of that object.
\* (openConflict and resolveConflict against the rows of the ledger.)
ConflictsAccountedFor ==
    \A c \in conflicts :
        /\ NamesBothSides(c)
        /\ c.status = "open" => StillFrozen(c)
        /\ c.status = "resolved" => ResolvedByFirst(c)

\* Optimistic concurrency: whoever wrote an accepted event had seen every
\* earlier accepted event of the object (the base check of appendNow).
NoLostUpdate ==
    \A i, j \in DOMAIN ledger :
        /\ i < j
        /\ AcceptedOn(ledger[j].event.object, i)
        /\ ledger[j].status = "accepted"
        /\ ledger[j].event.type # "CONFLICT_RESOLVED"
        => ledger[j].event.base >= i
=============================================================================
