----------------------------- MODULE RecoveryService -----------------------------
(***************************************************************************)
(* RecoveryService (server/src/recovery/service.ts): custodians replace    *)
(* the signing key of an executive in a ceremony.  Each method is one      *)
(* transaction that does not await, so it is one step, and one that throws *)
(* leaves everything as it was and is not an action.                       *)
(*                                                                         *)
(* The key a ceremony brings is named by the version it becomes; keys[x]   *)
(* holds the rows of executive_keys, and Len(keys[x]) is also the          *)
(* key_version and signing_public_key of executives.                       *)
(***************************************************************************)
EXTENDS LedgerStore

CONSTANTS Ceremony,           \* ceremony ids
          Custodian,          \* custodianIds of the recovery policy
          RequiredApprovals,  \* requiredApprovals of the recovery policy
          BootPackage,        \* key packages of the initial database
          packageOwner,       \* the executive each of them is wrapped for
          ceremonyObject,     \* the object ("executive_key", id) of a ceremony
          keyObject           \* the object ("executive_key", x:v) of version v of x

\* The constructor refuses any other policy.
ASSUME PolicyAssumption ==
    /\ IsFiniteSet(Custodian)
    /\ RequiredApprovals \in 1..Cardinality(Custodian)
    /\ Custodian \subseteq Executive
ASSUME PackageAssumption == packageOwner \in [BootPackage -> Executive]
ASSUME ObjectAssumption ==
    /\ IsFiniteSet(Ceremony)
    /\ ceremonyObject \in [Ceremony -> Object]
    /\ keyObject \in [Executive \X (2..Cardinality(Ceremony) + 1) -> Object]

Approval == [approver : Executive, version : Nat]

\* The status 'aborted' is never written.
CeremonyRow == [id : Ceremony, target : Executive,
                status : {"open", "threshold_met", "executed"},
                approvals : SUBSET Approval]

\* Rewrapping keeps recovery_wrapped_key, so every package descends from one of
\* the initial database, its origin.
PackageRow == [origin : BootPackage, version : Nat, status : {"active", "revoked"}]

VARIABLES ceremonies,  \* recovery_ceremonies with their recovery_approvals
          packages,    \* key_packages
          acks         \* every acknowledgement the server has signed (history)

recoveryTables == <<ceremonies, packages>>
vars == <<store, recoveryTables, acks>>

TypeOK ==
    /\ StoreTypeOK
    /\ ceremonies \subseteq CeremonyRow
    /\ packages \subseteq PackageRow
    /\ acks \subseteq Ack

Init ==
    /\ StoreInit
    /\ ceremonies = {}
    /\ packages = {[origin |-> p, version |-> 1, status |-> "active"] : p \in BootPackage}
    /\ acks = {}

-----------------------------------------------------------------------------
(* Ceremonies and approvals. *)

KeyVersion(x) == Len(keys[x])
CurrentHeadSequence == NextServerSequence - 1

\* Mutation: the devices get a status that only executives have.
BugDeactivated(x) ==
    [d \in Device |-> IF devices[d].owner = x /\ devices[d].status = "enrolled"
                      THEN [devices[d] EXCEPT !.status = "deactivated"]
                      ELSE devices[d]]

\* Mutation: every device of the target is quarantined, whatever its status.
BugQuarantined(x) ==
    [d \in Device |-> IF devices[d].owner = x /\ devices[d].status # "absent"
                      THEN [devices[d] EXCEPT !.status = "quarantined"]
                      ELSE devices[d]]

Quarantined(x) ==
    [d \in Device |-> IF devices[d].owner = x /\ devices[d].status = "enrolled"
                      THEN [devices[d] EXCEPT !.status = "quarantined"]
                      ELSE devices[d]]

\* initiateCeremony: nothing prevents a second ceremony for the same target.
InitiateCeremony(id, x) ==
    /\ \A c \in ceremonies : c.id # id
    /\ executives[x] \notin {"absent", "deactivated"}
    /\ ceremonies' = ceremonies \cup
          {[id |-> id, target |-> x, status |-> "open", approvals |-> {}]}
    /\ executives' = [executives EXCEPT ![x] = "quarantined"]
    /\ devices' = Quarantined(x)
    /\ UNCHANGED <<ledger, heads, conflicts, keys, packages, acks>>

\* Mutation: one approval short of the threshold is enough.
BugMeetsThreshold(approvals) == Cardinality(approvals) + 1 >= RequiredApprovals

MeetsThreshold(approvals) == Cardinality(approvals) >= RequiredApprovals

\* approveCeremony: the approval is signed with the custodian's current key, and
\* each custodian approves once (PRIMARY KEY).
ApproveCeremony(c, x) ==
    /\ c.status \in {"open", "threshold_met"}
    /\ executives[x] # "absent"
    /\ \A a \in c.approvals : a.approver # x
    /\ LET approvals == c.approvals \cup {[approver |-> x, version |-> KeyVersion(x)]}
           status == IF MeetsThreshold(approvals) THEN "threshold_met" ELSE c.status
       IN  ceremonies' = (ceremonies \ {c}) \cup
              {[c EXCEPT !.approvals = approvals, !.status = status]}
    /\ UNCHANGED <<store, packages, acks>>

-----------------------------------------------------------------------------
(* The execution of a ceremony. *)

\* assertExecutionEvent: the two events record this ceremony, by one executive
\* on one device.
Records(c, performed, rotated) ==
    /\ performed.type = "RECOVERY_PERFORMED"
    /\ performed.object = ceremonyObject[c.id]
    /\ rotated.type = "KEY_ROTATED"
    /\ rotated.object = keyObject[<<c.target, KeyVersion(c.target) + 1>>]
    /\ performed.actor = rotated.actor
    /\ performed.device = rotated.device

\* assertDeviceCanExecute
CanExecute(ev) ==
    /\ devices[ev.device].status = "enrolled"
    /\ devices[ev.device].owner = ev.actor
    /\ executives[ev.actor] = "active"
    /\ ev.counter > devices[ev.device].watermark

\* assertConsecutiveCounters, assertEventSignature and assertPayloadHash
Executable(performed, rotated) ==
    /\ CanExecute(performed)
    /\ CanExecute(rotated)
    /\ rotated.counter = performed.counter + 1
    /\ SignatureVerifies(performed) /\ performed.intact
    /\ SignatureVerifies(rotated) /\ rotated.intact

\* appendAcceptedEvent, twice in one transaction
RecoveryRows(performed, rotated) ==
    LET first == NewRow(performed, "accepted", "none")
    IN  <<first,
          [event |-> rotated, seq |-> first.seq + 1, status |-> "accepted",
           error |-> "none", prev |-> first.hash,
           hash |-> LedgerHash(first.hash, first.seq + 1, rotated)]>>

\* Mutation: the window of the old key stays open.
BugRotatedKeys(x) ==
    [keys EXCEPT ![x] = Append(@, [from |-> CurrentHeadSequence, until |-> OpenEnded])]

\* The window of the old key ends at the head, the new one's begins there.
RotatedKeys(x) ==
    [keys EXCEPT ![x] =
        Append([@ EXCEPT ![KeyVersion(x)].until = CurrentHeadSequence],
               [from |-> CurrentHeadSequence, until |-> OpenEnded])]

\* The active packages wrapped for the key that is replaced.
Rewrappable(x) ==
    {p \in packages : /\ packageOwner[p.origin] = x
                      /\ p.version = KeyVersion(x)
                      /\ p.status = "active"}

\* Mutation: the packages of the old key stay active.
BugRewrappedPackages(x) ==
    packages \cup {[p EXCEPT !.version = KeyVersion(x) + 1] : p \in Rewrappable(x)}

\* rewrapKeyPackages
RewrappedPackages(x) ==
    (packages \ Rewrappable(x))
      \cup {[p EXCEPT !.status = "revoked"] : p \in Rewrappable(x)}
      \cup {[p EXCEPT !.version = KeyVersion(x) + 1] : p \in Rewrappable(x)}

\* executeCeremony: the rows go into the ledger as they are, without the policy,
\* the base sequence or the conflicts of their objects being looked at.
ExecuteCeremony(c, performed, rotated) ==
    /\ c.status = "threshold_met"
    /\ Records(c, performed, rotated)
    /\ Executable(performed, rotated)
    /\ Insertable(performed) /\ Insertable(rotated)
    /\ performed.id # rotated.id
    /\ ledger' = ledger \o RecoveryRows(performed, rotated)
    /\ heads' = [heads EXCEPT
          ![performed.object] = [seq |-> NextServerSequence, conflicted |-> FALSE],
          ![rotated.object] = [seq |-> NextServerSequence + 1, conflicted |-> FALSE]]
    /\ devices' = [devices EXCEPT ![rotated.device].watermark = rotated.counter]
    /\ keys' = RotatedKeys(c.target)
    /\ executives' = [executives EXCEPT ![c.target] = "active"]
    /\ packages' = RewrappedPackages(c.target)
    /\ ceremonies' = (ceremonies \ {c}) \cup {[c EXCEPT !.status = "executed"]}
    /\ acks' = acks \cup {RowAck(RecoveryRows(performed, rotated)[i]) : i \in {1, 2}}
    /\ UNCHANGED conflicts

Next ==
    \/ \E id \in Ceremony, x \in Executive : InitiateCeremony(id, x)
    \/ \E c \in ceremonies :
          \/ \E x \in Custodian : ApproveCeremony(c, x)
          \/ \E performed, rotated \in Event : ExecuteCeremony(c, performed, rotated)

Spec == Init /\ [][Next]_vars

-----------------------------------------------------------------------------
(* Properties. *)

\* The windows of an executive's keys follow each other: each begins where the
\* one before it ends, later than that one began, and only the last is open.
AuthorityWindows ==
    \A x \in Executive : \A v \in DOMAIN keys[x] :
        IF v = KeyVersion(x) THEN keys[x][v].until = OpenEnded
        ELSE /\ keys[x][v].from < keys[x][v].until \/ (v = 1 /\ keys[x][v].until = 0)
             /\ keys[x][v].until = keys[x][v + 1].from

\* The rows that record how version v of x's key came about: the two that
\* follow the head at which its window begins.
RotationRecorded(x, v) ==
    LET h == keys[x][v].from
    IN  \E c \in ceremonies :
          /\ c.status = "executed"
          /\ c.target = x
          /\ Cardinality({a.approver : a \in c.approvals} \cap Custodian) >= RequiredApprovals
          /\ AcceptedOn(ceremonyObject[c.id], h + 1)
          /\ ledger[h + 1].event.type = "RECOVERY_PERFORMED"
          /\ AcceptedOn(keyObject[<<x, v>>], h + 2)
          /\ ledger[h + 2].event.type = "KEY_ROTATED"

\* Every key but the first is accounted for in the ledger and by a ceremony with
\* enough custodians, one ceremony for each key (executeCeremony: seven writes).
RotationsAreRecorded ==
    /\ \A x \in Executive : \A v \in 2..KeyVersion(x) : RotationRecorded(x, v)
    /\ \A x \in Executive :
          Cardinality({c \in ceremonies : c.target = x /\ c.status = "executed"})
            = KeyVersion(x) - 1

\* No key material is lost or left behind: of each package there is exactly one
\* active wrapping, for the current key of its owner (rewrapKeyPackages).
PackagesFollowKeys ==
    \A p \in BootPackage :
        {q \in packages : q.origin = p /\ q.status = "active"}
          = {[origin |-> p, version |-> KeyVersion(packageOwner[p]), status |-> "active"]}

\* PLAN.md: "Events signed before revocation remain valid".  Whoever verifies a
\* row that takes effect later, against the key windows of that time, selects
\* the key that signed it, provided its base is an earlier row's sequence.
SignaturesStayVerifiable ==
    \A i \in DOMAIN ledger :
        /\ ledger[i].status # "rejected"
        /\ ledger[i].event.base < i
        => SignatureVerifies(ledger[i].event)

\* SERVER_IMPLEMENTATION_PLAN.md: "the execute endpoint verifies the approval
\* signatures itself".
ExecutionVerifiesApprovals ==
    [][\A c \in ceremonies, d \in ceremonies' :
          c.id = d.id /\ c.status # "executed" /\ d.status = "executed" =>
             MeetsThreshold({a \in c.approvals : a.version = KeyVersion(a.approver)})]_vars
=============================================================================
