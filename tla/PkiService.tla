------------------------------- MODULE PkiService -------------------------------
(***************************************************************************)
(* PkiService (server/src/pki/enrollment.ts): enrolment tokens and         *)
(* challenges, the enrolment of a device, its revocation, and the          *)
(* revocation lists served to clients.                                     *)
(*                                                                         *)
(* Every method runs without awaiting, so it is one step; what it writes   *)
(* outside the transaction (the revocation log of the certificate          *)
(* authority) survives a rollback or a crash.  A call that throws and      *)
(* leaves everything as it was is not an action.  Issuing a token and      *)
(* beginning an enrolment are two statements without a transaction: the    *)
(* row, and its entry in the audit log.                                    *)
(*                                                                         *)
(* A token or challenge is named by its hash or id.  The clock matters     *)
(* only through expiry, which may happen at any time.                      *)
(***************************************************************************)
EXTENDS LedgerStore

CONSTANTS Token,         \* token hashes
          Challenge,     \* challenge ids
          deviceObject,  \* the object ("device", d) of each device d
          MaxRevocations, \* BOUND: revocation lists, and calls that fail before one
          MaxUnaudited   \* BOUND: calls that end between a row and its audit entry

ASSUME DeviceObjectAssumption == deviceObject \in [Device -> Object]
ASSUME MaxRevocationsAssumption == MaxRevocations \in Nat /\ MaxUnaudited \in Nat
\* Only revokeDevice marks a device revoked, and it writes a list as well: where
\* there is no list yet, no device is revoked.
ASSUME BootRevocationAssumption == \A d \in Device : BootDevices[d].status # "revoked"

TokenRow == [hash : Token, owner : Executive, expired : BOOLEAN, consumed : BOOLEAN]
ChallengeRow == [id : Challenge, token : Token, owner : Executive, device : Device,
                 expired : BOOLEAN, consumed : BOOLEAN]

\* What an entry of audit_log says: the event and its subject.  The chain of
\* hashes is that of the ledger; the entries of other services are left out.
AuditEntry ==
    ({"enrollment_token_issued"} \X Token) \cup
    ({"enrollment_challenge_issued"} \X Challenge) \cup
    ({"device_enrolled"} \X Device) \cup
    ({"device_revoked"} \X Device \X Nat)

VARIABLES tokens,       \* enrollment_tokens
          challenges,   \* enrollment_challenges
          revocations,  \* revocation_list_versions: version v is revocations[v]
          caRevoked,    \* devices in the revocation log of the CA, a file
          audit,        \* audit_log
          unaudited,    \* calls that ended before their audit entry (history)
          acks          \* every acknowledgement the server has signed (history)

auditVars == <<audit, unaudited>>
pkiTables == <<tokens, challenges, revocations, caRevoked, auditVars>>
vars == <<store, pkiTables, acks>>

TypeOK ==
    /\ StoreTypeOK
    /\ tokens \subseteq TokenRow
    /\ challenges \subseteq ChallengeRow
    /\ revocations \in Seq(SUBSET Device)
    /\ caRevoked \subseteq Device
    /\ audit \subseteq AuditEntry
    /\ unaudited \in Nat
    /\ acks \subseteq Ack

Init ==
    /\ StoreInit
    /\ tokens = {}
    /\ challenges = {}
    /\ revocations = <<>>
    /\ caRevoked = {}
    /\ audit = {}
    /\ unaudited = 0
    /\ acks = {}

-----------------------------------------------------------------------------
(* Tokens and challenges. *)

Usable(row) == ~row.consumed /\ ~row.expired

Marked(rows, row, consumed, expired) ==
    (rows \ {row}) \cup {[row EXCEPT !.consumed = consumed, !.expired = expired]}

\* writeAuditLog as a statement of its own: it may fail, or the process die
\* before it, while the row it speaks of is there.
AuditAlone(entry) ==
    \/ audit' = audit \cup {entry} /\ UNCHANGED unaudited
    \/ unaudited < MaxUnaudited /\ unaudited' = unaudited + 1 /\ UNCHANGED audit

\* writeAuditLog in the transaction of what it speaks of
AuditWithin(entry) == audit' = audit \cup {entry} /\ UNCHANGED unaudited

\* issueEnrollmentToken: the token is new (PRIMARY KEY), its owner exists.
IssueToken(hash, x) ==
    /\ \A t \in tokens : t.hash # hash
    /\ executives[x] # "absent"
    /\ tokens' = tokens \cup {[hash |-> hash, owner |-> x, expired |-> FALSE,
                               consumed |-> FALSE]}
    /\ AuditAlone(<<"enrollment_token_issued", hash>>)
    /\ UNCHANGED <<store, challenges, revocations, caRevoked, acks>>

\* beginEnrollment: any number of challenges may be issued for one token.
BeginEnrollment(id, t, d) ==
    /\ Usable(t)
    /\ \A h \in challenges : h.id # id
    /\ challenges' = challenges \cup
          {[id |-> id, token |-> t.hash, owner |-> t.owner, device |-> d,
            expired |-> FALSE, consumed |-> FALSE]}
    /\ AuditAlone(<<"enrollment_challenge_issued", id>>)
    /\ UNCHANGED <<store, tokens, revocations, caRevoked, acks>>

\* The clock reaches expires_at of a row.
Expire ==
    /\ \/ /\ \E t \in tokens : tokens' = Marked(tokens, t, t.consumed, TRUE)
          /\ UNCHANGED challenges
       \/ /\ \E h \in challenges : challenges' = Marked(challenges, h, h.consumed, TRUE)
          /\ UNCHANGED tokens
    /\ UNCHANGED <<store, revocations, caRevoked, auditVars, acks>>

-----------------------------------------------------------------------------
(* Enrolment. *)

\* Mutation: the event is not compared with the challenge's executive.
BugMatches(ev, h) ==
    /\ ev.type = "DEVICE_ENROLLED"
    /\ ev.device = h.device
    /\ ev.object = deviceObject[h.device]

\* assertEnrollmentEventMatchesChallenge
Matches(ev, h) ==
    /\ ev.type = "DEVICE_ENROLLED"
    /\ ev.actor = h.owner
    /\ ev.device = h.device
    /\ ev.object = deviceObject[h.device]

\* Mutation: an existing row of the device is replaced.
BugEnrollable(ev) ==
    /\ ev.id \notin RowIds
    /\ executives[ev.actor] # "absent"

\* The constraints of the INSERTs into devices and ledger_events.  A counter of
\* a device without a row cannot have been used.
Enrollable(ev) ==
    /\ devices[ev.device].status = "absent"
    /\ ev.id \notin RowIds
    /\ executives[ev.actor] # "absent"

Consumed(h) ==
    /\ tokens' = {IF t.hash = h.token THEN [t EXCEPT !.consumed = TRUE] ELSE t : t \in tokens}
    /\ challenges' = Marked(challenges, h, TRUE, h.expired)

\* Mutation: the head of the device object is left alone.
BugEnrollmentHead(ev) == heads

\* The upsert of object_heads: whatever the head was, conflicted becomes 0.
EnrollmentHead(ev) ==
    [heads EXCEPT ![ev.object] = [seq |-> NextServerSequence, conflicted |-> FALSE]]

\* appendEnrollmentEvent
AppendEnrollmentEvent(ev) ==
    /\ Enrollable(ev)
    /\ devices' = [devices EXCEPT ![ev.device] =
                     [status |-> "enrolled", owner |-> ev.actor, watermark |-> ev.counter]]
    /\ ledger' = Append(ledger, NewRow(ev, "accepted", "none"))
    /\ heads' = EnrollmentHead(ev)
    /\ acks' = acks \cup {RowAck(NewRow(ev, "accepted", "none"))}
    /\ UNCHANGED <<conflicts, executives, keys>>

\* completeEnrollment, the device having proved that it holds its key.  The
\* token is looked at only as the one the challenge was issued for.
CompleteEnrollment(h, ev) ==
    /\ Usable(h)
    /\ Matches(ev, h)
    /\ SignatureVerifies(ev)
    /\ ev.intact
    /\ AppendEnrollmentEvent(ev)
    /\ Consumed(h)
    /\ AuditWithin(<<"device_enrolled", h.device>>)
    /\ UNCHANGED <<revocations, caRevoked>>

-----------------------------------------------------------------------------
(* Revocation. *)

RevokedDevices == {d \in Device : devices[d].status = "revoked"}

\* Mutation: the list is written before the device is marked.
BugNextRevocationList(d) == RevokedDevices

\* writeRevocationList, after the UPDATE of devices
NextRevocationList(d) == RevokedDevices \cup {d}

\* Mutation: the log names the executive instead of the device.
BugLogOwner(d) == caRevoked' = caRevoked \cup {devices[d].owner}

\* Mutation: the CA is told nothing.
BugAskCA(d) == UNCHANGED caRevoked

\* revokeDeviceCertificate
AskCA(d) == caRevoked' = caRevoked \cup {d}

\* revokeDevice: whatever the status of the device was.
RevokeDevice(d) ==
    /\ Len(revocations) < MaxRevocations
    /\ devices[d].status # "absent"
    /\ AskCA(d)
    /\ devices' = [devices EXCEPT ![d].status = "revoked"]
    /\ revocations' = Append(revocations, NextRevocationList(d))
    /\ AuditWithin(<<"device_revoked", d, Len(revocations) + 1>>)
    /\ UNCHANGED <<ledger, heads, conflicts, executives, keys, tokens, challenges, acks>>

\* Mutation: the audit log has a connection of its own, and keeps the entry.
BugRevocationInterrupted(d) ==
    /\ Cardinality(caRevoked) < MaxRevocations
    /\ devices[d].status # "absent"
    /\ AskCA(d)
    /\ AuditWithin(<<"device_revoked", d, Len(revocations) + 1>>)
    /\ UNCHANGED <<store, tokens, challenges, revocations, acks>>

\* The CA has logged the revocation when the transaction fails or the process
\* dies: the tables are as before.
RevocationInterrupted(d) ==
    /\ Cardinality(caRevoked) < MaxRevocations
    /\ devices[d].status # "absent"
    /\ AskCA(d)
    /\ UNCHANGED <<store, tokens, challenges, revocations, auditVars, acks>>

Next ==
    \/ \E hash \in Token, x \in Executive : IssueToken(hash, x)
    \/ \E id \in Challenge, t \in tokens, d \in Device : BeginEnrollment(id, t, d)
    \/ Expire
    \/ \E h \in challenges, ev \in Event : CompleteEnrollment(h, ev)
    \/ \E d \in Device : RevokeDevice(d) \/ RevocationInterrupted(d)

Spec == Init /\ [][Next]_vars

-----------------------------------------------------------------------------
(* Properties. *)

EnrolledBy(i, d) ==
    /\ AcceptedOn(deviceObject[d], i)
    /\ ledger[i].event.type = "DEVICE_ENROLLED"
    /\ ledger[i].event.device = d

\* Every device that was not there at the start has one enrolment: one
\* accepted DEVICE_ENROLLED row, by its owner, and one consumed challenge,
\* issued for a token of that owner which is consumed as well.
\* (completeEnrollment: four writes in two tables of one transaction.)
DevicesHaveEvidence ==
    \A d \in Device : BootDevices[d].status = "absent" =>
        LET rows == {i \in DOMAIN ledger : EnrolledBy(i, d)}
            used == {h \in challenges : h.device = d /\ h.consumed}
        IN  IF devices[d].status = "absent" THEN rows = {} /\ used = {}
            ELSE \E i \in DOMAIN ledger, h \in challenges, t \in tokens :
                    /\ rows = {i}
                    /\ used = {h}
                    /\ ledger[i].event.actor = devices[d].owner
                    /\ h.owner = devices[d].owner
                    /\ t.hash = h.token /\ t.owner = h.owner /\ t.consumed

\* A revoked device never comes back, whatever is enrolled or recovered later
\* (the PRIMARY KEY of devices; the status filter of initiateCeremony).
RevokedForGood ==
    [][\A d \in Device :
          devices[d].status = "revoked" => devices'[d].status = "revoked"]_vars

\* The newest revocation list names exactly the revoked devices, and no list
\* drops a device that an earlier one named (revokeDevice, writeRevocationList).
RevocationListsAreComplete ==
    /\ IF revocations = <<>> THEN RevokedDevices = {}
       ELSE revocations[Len(revocations)] = RevokedDevices
    /\ \A v, w \in DOMAIN revocations : v < w => revocations[v] \subseteq revocations[w]

\* No device is marked revoked that the CA does not know to be revoked: the log
\* is written first, and a crash between the two leaves the safe side.
CaKnowsRevoked == RevokedDevices \subseteq caRevoked

\* The devices that entries about version v speak of.
RevokedIn(v) == {d \in Device : <<"device_revoked", d, v>> \in audit}

\* Rows of tokens and challenges that no entry speaks of.
Unrecorded ==
    {t \in tokens : <<"enrollment_token_issued", t.hash>> \notin audit} \cup
    {h \in challenges : <<"enrollment_challenge_issued", h.id>> \notin audit}

\* The audit log tells what happened and nothing else, across failures: each
\* device that came has its entry, each revocation list names the device its
\* one entry is about, no entry remains of what was rolled back, and a token or
\* challenge is unrecorded only if its call ended between its two statements.
AuditMatchesTables ==
    /\ \A d \in Device :
          <<"device_enrolled", d>> \in audit
             <=> BootDevices[d].status = "absent" /\ devices[d].status # "absent"
    /\ \A v \in DOMAIN revocations : \E d \in revocations[v] : RevokedIn(v) = {d}
    /\ RevokedIn(Len(revocations) + 1) = {}
    /\ Cardinality(Unrecorded) = unaudited

\* CA_AUTHORITY.md: "Tokens are one-time".
TokensAreOneTime ==
    \A g, h \in challenges : g.consumed /\ h.consumed /\ g.token = h.token => g = h
=============================================================================
