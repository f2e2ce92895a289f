---------------------------- MODULE PkiServiceProofs ----------------------------
(***************************************************************************)
(* Theorems about PkiService, for every set of devices, executives, events,*)
(* tokens and challenges, and whatever the two bounds are.                 *)
(***************************************************************************)
EXTENDS PkiService, LedgerStoreProofs

-----------------------------------------------------------------------------
(* The inductive invariant, in layers. *)

\* Hashes and ids are keys, and each challenge descends from a token of the same
\* owner, which is consumed no later than the challenge.
RowsKeyed ==
    /\ IsFiniteSet(tokens) /\ IsFiniteSet(challenges)
    /\ \A t, u \in tokens : t.hash = u.hash => t = u
    /\ \A g, h \in challenges : g.id = h.id => g = h
    /\ \A h \in challenges : \E t \in tokens :
          t.hash = h.token /\ t.owner = h.owner /\ (h.consumed => t.consumed)

CoreInv == TypeOK /\ ChainIntact /\ RowsKeyed

\* What the audit log says of subjects that exist, and that it says nothing of
\* tokens, challenges and lists to come.
IssuedHashes == {t.hash : t \in tokens}
IssuedIds == {h.id : h \in challenges}

UnrecordedHashes == {x \in IssuedHashes : <<"enrollment_token_issued", x>> \notin audit}
UnrecordedIds == {x \in IssuedIds : <<"enrollment_challenge_issued", x>> \notin audit}

EntriesHaveSubjects ==
    /\ \A x \in Token : <<"enrollment_token_issued", x>> \in audit => x \in IssuedHashes
    /\ \A x \in Challenge : <<"enrollment_challenge_issued", x>> \in audit => x \in IssuedIds

UnrecordedCounted ==
    Cardinality(UnrecordedHashes) + Cardinality(UnrecordedIds) = unaudited

EnrolmentsAudited ==
    \A d \in Device :
        /\ BootDevices[d].status # "absent" => devices[d].status # "absent"
        /\ <<"device_enrolled", d>> \in audit
             <=> BootDevices[d].status = "absent" /\ devices[d].status # "absent"

RevocationsAudited ==
    /\ \A v \in DOMAIN revocations : \E d \in revocations[v] : RevokedIn(v) = {d}
    /\ \A v \in Nat : v > Len(revocations) => RevokedIn(v) = {}

-----------------------------------------------------------------------------
(* What the steps do to the rows of tokens and challenges. *)

\* A row of a table is replaced by another one with the same key.
TokenReplaced(t, u) ==
    /\ u.hash = t.hash /\ u.owner = t.owner /\ (t.consumed => u.consumed)
    /\ tokens' = (tokens \ {t}) \cup {u}

ChallengeReplaced(h, g) ==
    /\ g.id = h.id /\ g.token = h.token /\ g.owner = h.owner /\ g.device = h.device
    /\ challenges' = (challenges \ {h}) \cup {g}

LEMMA ReplacedTokenKeyed ==
    ASSUME CoreInv, NEW t \in tokens, NEW u \in TokenRow, TokenReplaced(t, u)
    PROVE  /\ tokens' \subseteq TokenRow /\ IsFiniteSet(tokens')
           /\ \A x, y \in tokens' : x.hash = y.hash => x = y
           /\ \A x \in tokens : \E y \in tokens' :
                 y.hash = x.hash /\ y.owner = x.owner /\ (x.consumed => y.consumed)
           /\ IssuedHashes' = IssuedHashes
<1>1. IsFiniteSet(tokens \ {t}) /\ IsFiniteSet((tokens \ {t}) \cup {u})
  BY FS_RemoveElement, FS_AddElement DEF CoreInv, RowsKeyed
<1>2. tokens' \subseteq TokenRow
  BY DEF TokenReplaced, CoreInv, TypeOK
<1>3. \A x, y \in tokens' : x.hash = y.hash => x = y
  BY DEF TokenReplaced, CoreInv, RowsKeyed
<1>4. \A x \in tokens : \E y \in tokens' :
         y.hash = x.hash /\ y.owner = x.owner /\ (x.consumed => y.consumed)
  <2>1. ASSUME NEW x \in tokens
        PROVE  \E y \in tokens' : y.hash = x.hash /\ y.owner = x.owner /\ (x.consumed => y.consumed)
    <3>1. CASE x = t
      BY <3>1 DEF TokenReplaced
    <3>2. CASE x # t
      BY <3>2 DEF TokenReplaced
    <3> QED
      BY <3>1, <3>2
  <2> QED
    BY <2>1
<1>5. IssuedHashes' = IssuedHashes
  BY DEF IssuedHashes, TokenReplaced
<1> QED
  BY <1>1, <1>2, <1>3, <1>4, <1>5 DEF TokenReplaced

LEMMA ReplacedChallengeKeyed ==
    ASSUME CoreInv, NEW h \in challenges, NEW g \in ChallengeRow, ChallengeReplaced(h, g)
    PROVE  /\ challenges' \subseteq ChallengeRow /\ IsFiniteSet(challenges')
           /\ \A x, y \in challenges' : x.id = y.id => x = y
           /\ IssuedIds' = IssuedIds
<1>1. IsFiniteSet(challenges \ {h}) /\ IsFiniteSet((challenges \ {h}) \cup {g})
  BY FS_RemoveElement, FS_AddElement DEF CoreInv, RowsKeyed
<1>2. challenges' \subseteq ChallengeRow
  BY DEF ChallengeReplaced, CoreInv, TypeOK
<1>3. \A x, y \in challenges' : x.id = y.id => x = y
  BY DEF ChallengeReplaced, CoreInv, RowsKeyed
<1>4. IssuedIds' = IssuedIds
  BY DEF IssuedIds, ChallengeReplaced
<1> QED
  BY <1>1, <1>2, <1>3, <1>4 DEF ChallengeReplaced

\* Expiry replaces one row of one of the two tables.
LEMMA ExpireReplaces ==
    ASSUME CoreInv, Expire
    PROVE  \/ /\ \E t \in tokens, u \in TokenRow : TokenReplaced(t, u)
              /\ challenges' = challenges
           \/ /\ \E h \in challenges, g \in ChallengeRow :
                    ChallengeReplaced(h, g) /\ g.consumed = h.consumed
              /\ tokens' = tokens
<1>1. tokens \subseteq TokenRow /\ challenges \subseteq ChallengeRow
  BY DEF CoreInv, TypeOK
<1>2. ASSUME NEW t \in tokens, tokens' = Marked(tokens, t, t.consumed, TRUE)
      PROVE  \E u \in TokenRow : TokenReplaced(t, u)
  <2>1. PICK u : u = [t EXCEPT !.consumed = t.consumed, !.expired = TRUE]
    OBVIOUS
  <2>2. u \in TokenRow /\ u.hash = t.hash /\ u.owner = t.owner /\ u.consumed = t.consumed
    BY <1>1, <2>1 DEF TokenRow
  <2> QED
    BY <1>2, <2>1, <2>2 DEF Marked, TokenReplaced
<1>3. ASSUME NEW h \in challenges, challenges' = Marked(challenges, h, h.consumed, TRUE)
      PROVE  \E g \in ChallengeRow : ChallengeReplaced(h, g) /\ g.consumed = h.consumed
  <2>1. PICK g : g = [h EXCEPT !.consumed = h.consumed, !.expired = TRUE]
    OBVIOUS
  <2>2. /\ g \in ChallengeRow /\ g.id = h.id /\ g.token = h.token /\ g.owner = h.owner
        /\ g.device = h.device /\ g.consumed = h.consumed
    BY <1>1, <2>1 DEF ChallengeRow
  <2> QED
    BY <1>3, <2>1, <2>2 DEF Marked, ChallengeReplaced
<1> QED
  BY <1>2, <1>3 DEF Expire

\* completeEnrollment consumes the challenge and the one token it was issued for.
LEMMA CompleteReplaces ==
    ASSUME CoreInv, NEW h \in challenges, NEW ev \in Event, CompleteEnrollment(h, ev)
    PROVE  /\ \E t \in tokens, u \in TokenRow :
                 TokenReplaced(t, u) /\ u.hash = h.token /\ u.owner = h.owner /\ u.consumed
           /\ \E g \in ChallengeRow : ChallengeReplaced(h, g) /\ g.consumed
<1>1. h \in ChallengeRow /\ tokens \subseteq TokenRow
  BY DEF CoreInv, TypeOK
<1>2. PICK t \in tokens : t.hash = h.token /\ t.owner = h.owner
  BY DEF CoreInv, RowsKeyed
<1>3. PICK u : u = [t EXCEPT !.consumed = TRUE]
  OBVIOUS
<1>4. u \in TokenRow /\ u.hash = t.hash /\ u.owner = t.owner /\ u.consumed
  BY <1>1, <1>3 DEF TokenRow
<1>5. tokens' = (tokens \ {t}) \cup {u}
  <2>1. \A x \in tokens : x.hash = h.token <=> x = t
    BY <1>2 DEF CoreInv, RowsKeyed
  <2>2. tokens' = {IF x.hash = h.token THEN [x EXCEPT !.consumed = TRUE] ELSE x : x \in tokens}
    BY DEF CompleteEnrollment, Consumed
  <2>3. tokens' = {IF x = t THEN u ELSE x : x \in tokens}
    BY <1>3, <2>1, <2>2
  <2> QED
    BY <2>3
<1>6. PICK g : g = [h EXCEPT !.consumed = TRUE, !.expired = h.expired]
  OBVIOUS
<1>7. /\ g \in ChallengeRow /\ g.id = h.id /\ g.token = h.token /\ g.owner = h.owner
      /\ g.device = h.device /\ g.consumed
  BY <1>1, <1>6 DEF ChallengeRow
<1>8. challenges' = (challenges \ {h}) \cup {g}
  BY <1>6 DEF CompleteEnrollment, Consumed, Marked
<1> QED
  BY <1>2, <1>4, <1>5, <1>7, <1>8 DEF TokenReplaced, ChallengeReplaced

-----------------------------------------------------------------------------
(* Types, the chain and the keys of the rows. *)

LEMMA CoreInitial == Init => CoreInv
<1> SUFFICES ASSUME Init PROVE CoreInv
  OBVIOUS
<1>1. StoreTypeOK
  <2>1. \A x \in Executive : <<[from |-> 0, until |-> OpenEnded]>> \in Seq(KeyWindow)
    BY DEF KeyWindow
  <2>2. NoHead \in HeadRow
    BY DEF NoHead, HeadRow
  <2> QED
    BY <2>1, <2>2, BootAssumption DEF Init, StoreInit, StoreTypeOK
<1>2. ChainIntact
  BY DEF Init, StoreInit, ChainIntact
<1>3. RowsKeyed
  BY FS_EmptySet DEF Init, RowsKeyed
<1> QED
  BY <1>1, <1>2, <1>3 DEF Init, CoreInv, TypeOK

\* The entries that the methods write are entries.
LEMMA AloneKeepsType ==
    ASSUME audit \subseteq AuditEntry, unaudited \in Nat, NEW entry \in AuditEntry,
           AuditAlone(entry)
    PROVE  audit' \subseteq AuditEntry /\ unaudited' \in Nat
BY DEF AuditAlone

LEMMA IssueKeepsCore ==
    ASSUME CoreInv, NEW hash \in Token, NEW x \in Executive, IssueToken(hash, x)
    PROVE  CoreInv'
<1>1. PICK u : u = [hash |-> hash, owner |-> x, expired |-> FALSE, consumed |-> FALSE]
  OBVIOUS
<1>2. /\ u \in TokenRow /\ u.hash = hash /\ tokens' = tokens \cup {u}
      /\ \A t \in tokens : t.hash # u.hash
  BY <1>1 DEF IssueToken, TokenRow
<1>3. /\ UNCHANGED store /\ challenges' = challenges /\ revocations' = revocations
      /\ caRevoked' = caRevoked /\ acks' = acks
  BY DEF IssueToken
<1>4. StoreTypeOK' /\ ChainIntact'
  BY <1>3, UnchangedKeepsStore DEF CoreInv, TypeOK
<1>5. audit' \subseteq AuditEntry /\ unaudited' \in Nat
  <2>1. <<"enrollment_token_issued", hash>> \in AuditEntry
    BY DEF AuditEntry
  <2> QED
    BY <2>1, AloneKeepsType DEF IssueToken, CoreInv, TypeOK
<1>6. RowsKeyed'
  <2>1. IsFiniteSet(tokens')
    BY <1>2, FS_AddElement DEF CoreInv, RowsKeyed
  <2>2. \A s, t \in tokens' : s.hash = t.hash => s = t
    BY <1>2 DEF CoreInv, RowsKeyed
  <2>3. tokens \subseteq tokens'
    BY <1>2
  <2> QED
    BY <1>3, <2>1, <2>2, <2>3 DEF CoreInv, RowsKeyed
<1> QED
  BY <1>2, <1>3, <1>4, <1>5, <1>6 DEF CoreInv, TypeOK

LEMMA BeginKeepsCore ==
    ASSUME CoreInv, NEW id \in Challenge, NEW t \in tokens, NEW d \in Device,
           BeginEnrollment(id, t, d)
    PROVE  CoreInv'
<1>0. t \in TokenRow
  BY DEF CoreInv, TypeOK
<1>1. PICK g : g = [id |-> id, token |-> t.hash, owner |-> t.owner, device |-> d,
                    expired |-> FALSE, consumed |-> FALSE]
  OBVIOUS
<1>2. /\ g \in ChallengeRow /\ g.id = id /\ g.token = t.hash /\ g.owner = t.owner /\ ~g.consumed
      /\ challenges' = challenges \cup {g}
      /\ \A h \in challenges : h.id # g.id
  BY <1>0, <1>1 DEF BeginEnrollment, ChallengeRow, TokenRow
<1>3. /\ UNCHANGED store /\ tokens' = tokens /\ revocations' = revocations
      /\ caRevoked' = caRevoked /\ acks' = acks
  BY DEF BeginEnrollment
<1>4. StoreTypeOK' /\ ChainIntact'
  BY <1>3, UnchangedKeepsStore DEF CoreInv, TypeOK
<1>5. audit' \subseteq AuditEntry /\ unaudited' \in Nat
  <2>1. <<"enrollment_challenge_issued", id>> \in AuditEntry
    BY DEF AuditEntry
  <2> QED
    BY <2>1, AloneKeepsType DEF BeginEnrollment, CoreInv, TypeOK
<1>6. RowsKeyed'
  <2>1. IsFiniteSet(challenges')
    BY <1>2, FS_AddElement DEF CoreInv, RowsKeyed
  <2>2. \A h, k \in challenges' : h.id = k.id => h = k
    BY <1>2 DEF CoreInv, RowsKeyed
  <2> QED
    BY <1>2, <1>3, <2>1, <2>2 DEF CoreInv, RowsKeyed
<1> QED
  BY <1>2, <1>3, <1>4, <1>5, <1>6 DEF CoreInv, TypeOK

LEMMA ExpireKeepsCore ==
    ASSUME CoreInv, Expire
    PROVE  CoreInv'
<1>1. /\ UNCHANGED store /\ revocations' = revocations /\ caRevoked' = caRevoked
      /\ audit' = audit /\ unaudited' = unaudited /\ acks' = acks
  BY DEF Expire, auditVars
<1>2. StoreTypeOK' /\ ChainIntact'
  BY <1>1, UnchangedKeepsStore DEF CoreInv, TypeOK
<1>3. tokens' \subseteq TokenRow /\ challenges' \subseteq ChallengeRow /\ RowsKeyed'
  <2>1. ASSUME NEW t \in tokens, NEW u \in TokenRow, TokenReplaced(t, u), challenges' = challenges
        PROVE  tokens' \subseteq TokenRow /\ challenges' \subseteq ChallengeRow /\ RowsKeyed'
    <3>1. /\ tokens' \subseteq TokenRow /\ IsFiniteSet(tokens')
          /\ \A x, y \in tokens' : x.hash = y.hash => x = y
          /\ \A x \in tokens : \E y \in tokens' :
                y.hash = x.hash /\ y.owner = x.owner /\ (x.consumed => y.consumed)
      BY <2>1, ReplacedTokenKeyed
    <3>2. \A h \in challenges : \E y \in tokens' :
             y.hash = h.token /\ y.owner = h.owner /\ (h.consumed => y.consumed)
      BY <3>1 DEF CoreInv, RowsKeyed
    <3> QED
      BY <2>1, <3>1, <3>2 DEF CoreInv, TypeOK, RowsKeyed
  <2>2. ASSUME NEW h \in challenges, NEW g \in ChallengeRow, ChallengeReplaced(h, g),
               g.consumed = h.consumed, tokens' = tokens
        PROVE  tokens' \subseteq TokenRow /\ challenges' \subseteq ChallengeRow /\ RowsKeyed'
    <3>1. /\ challenges' \subseteq ChallengeRow /\ IsFiniteSet(challenges')
          /\ \A x, y \in challenges' : x.id = y.id => x = y
      BY <2>2, ReplacedChallengeKeyed
    <3>2. \A k \in challenges' : \E y \in tokens :
             y.hash = k.token /\ y.owner = k.owner /\ (k.consumed => y.consumed)
      BY <2>2 DEF ChallengeReplaced, CoreInv, RowsKeyed
    <3> QED
      BY <2>2, <3>1, <3>2 DEF CoreInv, TypeOK, RowsKeyed
  <2> QED
    BY <2>1, <2>2, ExpireReplaces
<1> QED
  BY <1>1, <1>2, <1>3 DEF CoreInv, TypeOK

\* One accepted row is appended, and the ledger is otherwise as before.
RowAppended(n, ev) ==
    /\ DOMAIN ledger = 1..n /\ DOMAIN ledger' = 1 .. n + 1
    /\ \A i \in 1..n : ledger'[i] = ledger[i]
    /\ ledger'[n + 1].event = ev /\ ledger'[n + 1].status = "accepted"

\* completeEnrollment: the row, the device, the token and the challenge.
LEMMA CompleteKeepsCore ==
    ASSUME CoreInv, NEW h \in challenges, NEW ev \in Event, CompleteEnrollment(h, ev),
           NEW n \in Nat, n = Len(ledger)
    PROVE  CoreInv' /\ RowAppended(n, ev)
<1>1. StoreTypeOK /\ ledger \in Seq(Row) /\ ChainIntact
  BY DEF CoreInv, TypeOK, StoreTypeOK
<1>2. "accepted" \in DecidedStatus /\ "none" \in ErrorCode
  BY DEF DecidedStatus, ErrorCode
<1>3. ledger' = Append(ledger, NewRow(ev, "accepted", "none"))
  BY DEF CompleteEnrollment, AppendEnrollmentEvent
<1>4. /\ ledger' \in Seq(Row) /\ ChainIntact'
      /\ DOMAIN ledger = 1..n /\ DOMAIN ledger' = 1 .. n + 1
      /\ \A i \in 1..n : ledger'[i] = ledger[i]
      /\ ledger'[n + 1] = NewRow(ev, "accepted", "none")
  BY <1>1, <1>2, <1>3, InsertKeepsChain
<1>5. /\ NewRow(ev, "accepted", "none") \in Row
      /\ NewRow(ev, "accepted", "none").event = ev
      /\ NewRow(ev, "accepted", "none").status = "accepted"
  BY <1>1, <1>2, NewRowProperties
<1>6. RowAppended(n, ev)
  BY <1>4, <1>5 DEF RowAppended
<1>7. ev.actor \in Executive /\ ev.device \in Device /\ ev.counter \in Nat /\ ev.object \in Object
  BY EventAssumption DEF ClientEvent
<1>8. heads' \in [Object -> HeadRow] /\ devices' \in [Device -> DeviceRow]
  <2>1. NextServerSequence \in Nat
    BY <1>1, NextSequenceIsNextPosition
  <2>2. [seq |-> NextServerSequence, conflicted |-> FALSE] \in HeadRow
    BY <2>1 DEF HeadRow
  <2>3. heads' = [heads EXCEPT ![ev.object] = [seq |-> NextServerSequence, conflicted |-> FALSE]]
    BY DEF CompleteEnrollment, AppendEnrollmentEvent, EnrollmentHead
  <2>4. [status |-> "enrolled", owner |-> ev.actor, watermark |-> ev.counter] \in DeviceRow
    BY <1>7 DEF DeviceRow, DeviceStatus
  <2>5. devices' = [devices EXCEPT ![ev.device] =
                      [status |-> "enrolled", owner |-> ev.actor, watermark |-> ev.counter]]
    BY DEF CompleteEnrollment, AppendEnrollmentEvent
  <2> QED
    BY <1>1, <1>7, <2>2, <2>3, <2>4, <2>5 DEF StoreTypeOK
<1>9. conflicts' = conflicts /\ executives' = executives /\ keys' = keys
      /\ revocations' = revocations /\ caRevoked' = caRevoked
  BY DEF CompleteEnrollment, AppendEnrollmentEvent
<1>10. StoreTypeOK'
  BY <1>1, <1>4, <1>8, <1>9 DEF StoreTypeOK
<1>11. acks' \subseteq Ack
  <2>1. \A row \in Row : RowAck(row) \in Ack
    BY EventAssumption DEF Row, RowAck, Ack, EventId
  <2> QED
    BY <1>5, <2>1 DEF CompleteEnrollment, AppendEnrollmentEvent, CoreInv, TypeOK
<1>12. audit' \subseteq AuditEntry /\ unaudited' \in Nat
  <2>1. h.device \in Device
    BY DEF CoreInv, TypeOK, ChallengeRow
  <2>2. <<"device_enrolled", h.device>> \in AuditEntry
    BY <2>1 DEF AuditEntry
  <2> QED
    BY <2>2 DEF CompleteEnrollment, AuditWithin, CoreInv, TypeOK
<1>13. tokens' \subseteq TokenRow /\ challenges' \subseteq ChallengeRow /\ RowsKeyed'
  <2>1. PICK t \in tokens, u \in TokenRow :
            TokenReplaced(t, u) /\ u.hash = h.token /\ u.owner = h.owner /\ u.consumed
    BY CompleteReplaces
  <2>2. PICK g \in ChallengeRow : ChallengeReplaced(h, g) /\ g.consumed
    BY CompleteReplaces
  <2>3. /\ tokens' \subseteq TokenRow /\ IsFiniteSet(tokens')
        /\ \A x, y \in tokens' : x.hash = y.hash => x = y
        /\ \A x \in tokens : \E y \in tokens' :
              y.hash = x.hash /\ y.owner = x.owner /\ (x.consumed => y.consumed)
    BY <2>1, ReplacedTokenKeyed
  <2>4. /\ challenges' \subseteq ChallengeRow /\ IsFiniteSet(challenges')
        /\ \A x, y \in challenges' : x.id = y.id => x = y
    BY <2>2, ReplacedChallengeKeyed
  <2>5. ASSUME NEW k \in challenges'
        PROVE  \E y \in tokens' : y.hash = k.token /\ y.owner = k.owner /\ (k.consumed => y.consumed)
    <3>1. CASE k = g
      BY <2>1, <2>2, <3>1 DEF TokenReplaced, ChallengeReplaced
    <3>2. CASE k \in challenges
      BY <2>3, <3>2 DEF CoreInv, RowsKeyed
    <3> QED
      BY <2>2, <3>1, <3>2 DEF ChallengeReplaced
  <2> QED
    BY <2>3, <2>4, <2>5 DEF RowsKeyed
<1> QED
  BY <1>4, <1>6, <1>9, <1>10, <1>11, <1>12, <1>13 DEF CoreInv, TypeOK

LEMMA RevokeKeepsCore ==
    ASSUME CoreInv, NEW d \in Device, RevokeDevice(d)
    PROVE  CoreInv'
<1>1. /\ ledger' = ledger /\ heads' = heads /\ conflicts' = conflicts /\ executives' = executives
      /\ keys' = keys /\ tokens' = tokens /\ challenges' = challenges /\ acks' = acks
  BY DEF RevokeDevice
<1>2. devices' \in [Device -> DeviceRow]
  <2>1. devices \in [Device -> DeviceRow] /\ devices' = [devices EXCEPT ![d].status = "revoked"]
    BY DEF RevokeDevice, CoreInv, TypeOK, StoreTypeOK
  <2>2. [devices[d] EXCEPT !.status = "revoked"] \in DeviceRow
    BY <2>1 DEF DeviceRow, DeviceStatus
  <2> QED
    BY <2>1, <2>2
<1>3. StoreTypeOK'
  BY <1>1, <1>2 DEF CoreInv, TypeOK, StoreTypeOK
<1>4. ChainIntact'
  <2>1. \A k : RecomputedHash(k)' = RecomputedHash(k)
    BY <1>1 DEF RecomputedHash
  <2> QED
    BY <1>1, <2>1 DEF CoreInv, ChainIntact
<1>5. revocations' \in Seq(SUBSET Device) /\ caRevoked' \subseteq Device
  <2>1. NextRevocationList(d) \in SUBSET Device
    BY DEF NextRevocationList, RevokedDevices
  <2> QED
    BY <2>1 DEF RevokeDevice, AskCA, CoreInv, TypeOK
<1>6. audit' \subseteq AuditEntry /\ unaudited' \in Nat
  <2>1. Len(revocations) + 1 \in Nat
    BY DEF CoreInv, TypeOK
  <2>2. <<"device_revoked", d, Len(revocations) + 1>> \in AuditEntry
    BY <2>1 DEF AuditEntry
  <2> QED
    BY <2>2 DEF RevokeDevice, AuditWithin, CoreInv, TypeOK
<1>7. RowsKeyed'
  BY <1>1 DEF CoreInv, RowsKeyed
<1> QED
  BY <1>1, <1>3, <1>4, <1>5, <1>6, <1>7 DEF CoreInv, TypeOK

LEMMA CoreInductive ==
    ASSUME CoreInv, [Next]_vars
    PROVE  CoreInv'
<1>1. CASE UNCHANGED <<store, tokens, challenges, revocations, auditVars, acks>>
           /\ caRevoked' \subseteq Device
  <2>1. StoreTypeOK' /\ ChainIntact'
    BY <1>1, UnchangedKeepsStore DEF CoreInv, TypeOK
  <2>2. RowsKeyed'
    BY <1>1 DEF CoreInv, RowsKeyed
  <2> QED
    BY <1>1, <2>1, <2>2 DEF CoreInv, TypeOK, auditVars
<1>2. CASE UNCHANGED vars
  BY <1>1, <1>2 DEF vars, pkiTables, CoreInv, TypeOK
<1>3. ASSUME NEW d \in Device, RevocationInterrupted(d)
      PROVE  CoreInv'
  BY <1>1, <1>3 DEF RevocationInterrupted, AskCA, CoreInv, TypeOK
<1>4. ASSUME NEW h \in challenges, NEW ev \in Event, CompleteEnrollment(h, ev)
      PROVE  CoreInv'
  <2>1. PICK n \in Nat : n = Len(ledger)
    BY DEF CoreInv, TypeOK, StoreTypeOK
  <2> QED
    BY <1>4, <2>1, CompleteKeepsCore
<1> QED
  BY <1>2, <1>3, <1>4, IssueKeepsCore, BeginKeepsCore, ExpireKeepsCore, RevokeKeepsCore DEF Next

LEMMA CoreInvariant == Spec => []CoreInv
BY CoreInitial, CoreInductive, PTL DEF Spec

\* Every table keeps its type, through failures of revokeDevice included.
THEOREM TypeCorrect == Spec => []TypeOK
<1>1. CoreInv => TypeOK
  BY DEF CoreInv
<1> QED
  BY <1>1, CoreInvariant, PTL

\* Enrolments append to the chain of hashes as the appender does.
THEOREM ChainStaysIntact == Spec => []ChainIntact
<1>1. CoreInv => ChainIntact
  BY DEF CoreInv
<1> QED
  BY <1>1, CoreInvariant, PTL

-----------------------------------------------------------------------------
(* Revocation. *)

\* Devices change when one is enrolled and when one is revoked.
LEMMA DeviceSteps ==
    ASSUME CoreInv, [Next]_vars
    PROVE  \/ devices' = devices /\ revocations' = revocations /\ caRevoked \subseteq caRevoked'
           \/ \E d \in Device : RevokeDevice(d)
           \/ \E h \in challenges, ev \in Event : CompleteEnrollment(h, ev)
<1>1. CASE UNCHANGED vars
  BY <1>1 DEF vars, store, pkiTables
<1>2. ASSUME NEW hash \in Token, NEW x \in Executive, IssueToken(hash, x)
      PROVE  devices' = devices /\ revocations' = revocations /\ caRevoked \subseteq caRevoked'
  BY <1>2 DEF IssueToken, store
<1>3. ASSUME NEW id \in Challenge, NEW t \in tokens, NEW d \in Device, BeginEnrollment(id, t, d)
      PROVE  devices' = devices /\ revocations' = revocations /\ caRevoked \subseteq caRevoked'
  BY <1>3 DEF BeginEnrollment, store
<1>4. ASSUME Expire
      PROVE  devices' = devices /\ revocations' = revocations /\ caRevoked \subseteq caRevoked'
  BY <1>4 DEF Expire, store
<1>5. ASSUME NEW d \in Device, RevocationInterrupted(d)
      PROVE  devices' = devices /\ revocations' = revocations /\ caRevoked \subseteq caRevoked'
  BY <1>5 DEF RevocationInterrupted, AskCA, store
<1> QED
  BY <1>1, <1>2, <1>3, <1>4, <1>5 DEF Next

\* An enrolment fills an empty row and touches no other device.
LEMMA EnrolmentOfDevice ==
    ASSUME CoreInv, NEW h \in challenges, NEW ev \in Event, CompleteEnrollment(h, ev)
    PROVE  /\ h.device \in Device /\ ev.device = h.device /\ ev.actor = h.owner
           /\ devices[h.device].status = "absent"
           /\ devices'[h.device].status = "enrolled" /\ devices'[h.device].owner = h.owner
           /\ \A d \in Device : d # h.device => devices'[d] = devices[d]
           /\ RevokedDevices' = RevokedDevices
<1>1. devices \in [Device -> DeviceRow] /\ h.device \in Device
  BY DEF CoreInv, TypeOK, StoreTypeOK, ChallengeRow
<1>2. ev.device = h.device /\ ev.actor = h.owner /\ devices[h.device].status = "absent"
  BY DEF CompleteEnrollment, Matches, AppendEnrollmentEvent, Enrollable
<1>3. devices' = [devices EXCEPT ![h.device] =
                    [status |-> "enrolled", owner |-> h.owner, watermark |-> ev.counter]]
  BY <1>2 DEF CompleteEnrollment, AppendEnrollmentEvent
<1>4. /\ devices'[h.device].status = "enrolled" /\ devices'[h.device].owner = h.owner
      /\ \A d \in Device : d # h.device => devices'[d] = devices[d]
  BY <1>1, <1>3
<1>5. RevokedDevices' = RevokedDevices
  <2>1. \A d \in Device : devices'[d].status = "revoked" <=> devices[d].status = "revoked"
    BY <1>2, <1>4
  <2> QED
    BY <2>1 DEF RevokedDevices
<1> QED
  BY <1>1, <1>2, <1>4, <1>5

\* A revocation marks one device that is there and touches no other.
LEMMA RevocationOfDevice ==
    ASSUME CoreInv, NEW d \in Device, RevokeDevice(d)
    PROVE  /\ devices[d].status # "absent" /\ devices'[d].status = "revoked"
           /\ devices'[d].owner = devices[d].owner
           /\ \A e \in Device : e # d => devices'[e] = devices[e]
           /\ RevokedDevices' = RevokedDevices \cup {d}
<1>1. devices \in [Device -> DeviceRow]
  BY DEF CoreInv, TypeOK, StoreTypeOK
<1>2. devices[d].status # "absent" /\ devices' = [devices EXCEPT ![d].status = "revoked"]
  BY DEF RevokeDevice
<1>3. /\ devices'[d].status = "revoked" /\ devices'[d].owner = devices[d].owner
      /\ \A e \in Device : e # d => devices'[e] = devices[e]
  BY <1>1, <1>2 DEF DeviceRow
<1> QED
  BY <1>2, <1>3 DEF RevokedDevices

LEMMA RevocationsInductive ==
    ASSUME CoreInv, RevocationListsAreComplete, CaKnowsRevoked, [Next]_vars
    PROVE  RevocationListsAreComplete' /\ CaKnowsRevoked'
<1>1. CASE devices' = devices /\ revocations' = revocations /\ caRevoked \subseteq caRevoked'
  <2>1. RevokedDevices' = RevokedDevices
    BY <1>1 DEF RevokedDevices
  <2> QED
    BY <1>1, <2>1 DEF RevocationListsAreComplete, CaKnowsRevoked
<1>2. ASSUME NEW h \in challenges, NEW ev \in Event, CompleteEnrollment(h, ev)
      PROVE  RevocationListsAreComplete' /\ CaKnowsRevoked'
  <2>1. RevokedDevices' = RevokedDevices
    BY <1>2, EnrolmentOfDevice
  <2>2. revocations' = revocations /\ caRevoked' = caRevoked
    BY <1>2 DEF CompleteEnrollment
  <2> QED
    BY <2>1, <2>2 DEF RevocationListsAreComplete, CaKnowsRevoked
<1>3. ASSUME NEW d \in Device, RevokeDevice(d)
      PROVE  RevocationListsAreComplete' /\ CaKnowsRevoked'
  <2>1. RevokedDevices' = RevokedDevices \cup {d} /\ RevokedDevices \subseteq Device
    BY <1>3, RevocationOfDevice DEF RevokedDevices
  <2>2. CaKnowsRevoked'
    BY <1>3, <2>1 DEF RevokeDevice, AskCA, CaKnowsRevoked
  <2>3. revocations \in Seq(SUBSET Device)
    BY DEF CoreInv, TypeOK
  <2>4. PICK n \in Nat : n = Len(revocations) /\ DOMAIN revocations = 1..n
    BY <2>3
  <2>5. revocations' = Append(revocations, RevokedDevices \cup {d})
    BY <1>3 DEF RevokeDevice, NextRevocationList
  <2>6. /\ Len(revocations') = n + 1 /\ DOMAIN revocations' = 1 .. n + 1
        /\ revocations'[n + 1] = RevokedDevices \cup {d}
        /\ \A v \in 1..n : revocations'[v] = revocations[v]
        /\ revocations' # <<>>
    <3>1. RevokedDevices \cup {d} \in SUBSET Device
      BY <2>1
    <3> QED
      BY <2>3, <2>4, <2>5, <3>1
  <2>7. \A v \in 1..n : revocations[v] \subseteq RevokedDevices
    <3>1. ASSUME NEW v \in 1..n PROVE revocations[v] \subseteq RevokedDevices
      <4>1. revocations # <<>> /\ revocations[n] = RevokedDevices
        BY <2>3, <2>4, <3>1 DEF RevocationListsAreComplete
      <4>2. CASE v = n
        BY <4>1, <4>2
      <4>3. CASE v # n
        <5>1. n \in DOMAIN revocations /\ v \in DOMAIN revocations /\ v < n
          BY <2>4, <4>3
        <5> QED
          BY <4>1, <5>1 DEF RevocationListsAreComplete
      <4> QED
        BY <4>2, <4>3
    <3> QED
      BY <3>1
  <2>8. ASSUME NEW v \in 1 .. n + 1, NEW w \in 1 .. n + 1, v < w
        PROVE  revocations'[v] \subseteq revocations'[w]
    <3>1. v \in 1..n
      BY <2>8
    <3>2. CASE w = n + 1
      BY <2>6, <2>7, <3>1, <3>2
    <3>3. CASE w \in 1..n
      BY <2>4, <2>6, <2>8, <3>1, <3>3 DEF RevocationListsAreComplete
    <3>4. w = n + 1 \/ w \in 1..n
      OBVIOUS
    <3> QED
      BY <3>2, <3>3, <3>4
  <2> QED
    BY <2>1, <2>2, <2>6, <2>8 DEF RevocationListsAreComplete
<1> QED
  BY <1>1, <1>2, <1>3, DeviceSteps

LEMMA RevocationsInitial == Init => RevocationListsAreComplete /\ CaKnowsRevoked
<1> SUFFICES ASSUME Init PROVE RevocationListsAreComplete /\ CaKnowsRevoked
  OBVIOUS
<1>1. RevokedDevices = {}
  BY BootRevocationAssumption DEF Init, StoreInit, RevokedDevices
<1>2. revocations = <<>> /\ DOMAIN revocations = {}
  BY DEF Init
<1> QED
  BY <1>1, <1>2 DEF RevocationListsAreComplete, CaKnowsRevoked

\* The newest list is complete and no list forgets what an earlier one said,
\* however often revokeDevice fails or is repeated.
THEOREM RevocationListsStayComplete == Spec => []RevocationListsAreComplete
BY RevocationsInitial, RevocationsInductive, CoreInvariant, PTL DEF Spec

\* The authority's log is at all times ahead of the tables, never behind.
THEOREM CaStaysInformed == Spec => []CaKnowsRevoked
BY RevocationsInitial, RevocationsInductive, CoreInvariant, PTL DEF Spec

\* A revoked device stays revoked: it has a row, so it cannot be enrolled again.
THEOREM RevocationIsForGood == Spec => RevokedForGood
<1> DEFINE A == \A d \in Device : devices[d].status = "revoked" => devices'[d].status = "revoked"
<1>1. CoreInv /\ [Next]_vars => A
  <2> SUFFICES ASSUME CoreInv, [Next]_vars PROVE A
    OBVIOUS
  <2>1. ASSUME NEW h \in challenges, NEW ev \in Event, CompleteEnrollment(h, ev) PROVE A
    BY <2>1, EnrolmentOfDevice
  <2>2. ASSUME NEW d \in Device, RevokeDevice(d) PROVE A
    BY <2>2, RevocationOfDevice
  <2> QED
    BY <2>1, <2>2, DeviceSteps
<1>2. CoreInv /\ [Next]_vars => [A]_vars
  BY <1>1
<1> QED
  BY <1>2, CoreInvariant, PTL DEF Spec, RevokedForGood

-----------------------------------------------------------------------------
(* The evidence of an enrolment. *)

Rows(d) == {i \in DOMAIN ledger : EnrolledBy(i, d)}
Used(d) == {h \in challenges : h.device = d /\ h.consumed}

\* The row, the challenge and the token of d's one enrolment.
EvidenceOf(d, i, h, t) ==
    /\ Rows(d) = {i}
    /\ Used(d) = {h}
    /\ ledger[i].event.actor = devices[d].owner
    /\ h.owner = devices[d].owner
    /\ t.hash = h.token /\ t.owner = h.owner /\ t.consumed

Evidence(d) ==
    IF devices[d].status = "absent" THEN Rows(d) = {} /\ Used(d) = {}
    ELSE \E i \in DOMAIN ledger, h \in challenges, t \in tokens : EvidenceOf(d, i, h, t)

LEMMA EvidencePerDevice ==
    DevicesHaveEvidence <=> \A d \in Device : BootDevices[d].status = "absent" => Evidence(d)
BY DEF DevicesHaveEvidence, Evidence, EvidenceOf, Rows, Used

\* Tokens keep their owners, and what is consumed stays so.
TokensStay ==
    \A x \in tokens : \E y \in tokens' :
        y.hash = x.hash /\ y.owner = x.owner /\ (x.consumed => y.consumed)

\* d is no more and no less enrolled than before.
DeviceStays(d) ==
    /\ devices'[d].owner = devices[d].owner
    /\ devices'[d].status = "absent" <=> devices[d].status = "absent"
    /\ Rows(d)' = Rows(d)
    /\ \A i \in DOMAIN ledger : i \in DOMAIN ledger' /\ ledger'[i] = ledger[i]

LEMMA EvidenceStays ==
    ASSUME NEW d \in Device, Evidence(d), DeviceStays(d), TokensStay,
           \/ Used(d)' = Used(d)
           \/ \E h \in challenges : \E g : ChallengeReplaced(h, g) /\ g.consumed = h.consumed
    PROVE  Evidence(d)'
<1>1. ASSUME NEW h \in challenges, NEW g, ChallengeReplaced(h, g), g.consumed = h.consumed
      PROVE  Used(d)' = IF h \in Used(d) THEN (Used(d) \ {h}) \cup {g} ELSE Used(d)
  BY <1>1 DEF ChallengeReplaced, Used
<1>2. CASE devices[d].status = "absent"
  <2>1. Used(d)' = {}
    <3>1. Used(d) = {}
      BY <1>2 DEF Evidence
    <3> QED
      BY <1>1, <3>1
  <2> QED
    BY <1>2, <2>1 DEF Evidence, DeviceStays
<1>3. CASE devices[d].status # "absent"
  <2>1. PICK i \in DOMAIN ledger, h \in challenges, t \in tokens : EvidenceOf(d, i, h, t)
    BY <1>3 DEF Evidence
  <2>2. PICK u \in tokens' : u.hash = t.hash /\ u.owner = t.owner /\ u.consumed
    BY <2>1 DEF TokensStay, EvidenceOf
  <2>3. i \in DOMAIN ledger' /\ ledger'[i] = ledger[i] /\ Rows(d)' = {i}
    BY <2>1 DEF DeviceStays, EvidenceOf
  <2>4. \E k \in challenges' : Used(d)' = {k} /\ k.owner = h.owner /\ k.token = h.token
    <3>1. CASE Used(d)' = {h}
      <4>1. h \in challenges'
        BY <3>1 DEF Used
      <4> QED
        BY <3>1, <4>1
    <3>2. CASE \E c \in challenges : \E g : ChallengeReplaced(c, g) /\ g.consumed = c.consumed
      <4>1. PICK c \in challenges : \E g : ChallengeReplaced(c, g) /\ g.consumed = c.consumed
        BY <3>2
      <4>2. PICK g : ChallengeReplaced(c, g) /\ g.consumed = c.consumed
        BY <4>1
      <4>3. Used(d) = {h}
        BY <2>1 DEF EvidenceOf
      <4>4. CASE c = h
        <5>1. Used(d)' = {g}
          BY <1>1, <4>2, <4>3, <4>4
        <5> QED
          BY <4>2, <4>4, <5>1 DEF ChallengeReplaced
      <4>5. CASE c # h
        <5>1. Used(d)' = {h}
          BY <1>1, <4>2, <4>3, <4>5
        <5> QED
          BY <3>1, <5>1
      <4> QED
        BY <4>4, <4>5
    <3>3. Used(d) = {h}
      BY <2>1 DEF EvidenceOf
    <3> QED
      BY <3>1, <3>2, <3>3
  <2>5. PICK k \in challenges' : Used(d)' = {k} /\ k.owner = h.owner /\ k.token = h.token
    BY <2>4
  <2>6. EvidenceOf(d, i, k, u)'
    <3>1. devices'[d].owner = devices[d].owner
      BY DEF DeviceStays
    <3> QED
      BY <2>1, <2>2, <2>3, <2>5, <3>1 DEF EvidenceOf
  <2>7. devices'[d].status # "absent"
    BY <1>3 DEF DeviceStays
  <2> QED
    BY <2>2, <2>3, <2>5, <2>6, <2>7 DEF Evidence
<1> QED
  BY <1>2, <1>3

\* An enrolment gives its device the evidence, and no other device a row.
LEMMA CompleteGivesEvidence ==
    ASSUME CoreInv, NEW h \in challenges, NEW ev \in Event, CompleteEnrollment(h, ev),
           NEW d \in Device, Evidence(d)
    PROVE  Evidence(d)'
<1>1. PICK n \in Nat : n = Len(ledger)
  BY DEF CoreInv, TypeOK, StoreTypeOK
<1>2. RowAppended(n, ev)
  BY <1>1, CompleteKeepsCore
<1>3. /\ h.device \in Device /\ ev.device = h.device /\ ev.actor = h.owner
      /\ devices[h.device].status = "absent"
      /\ devices'[h.device].status = "enrolled" /\ devices'[h.device].owner = h.owner
      /\ \A e \in Device : e # h.device => devices'[e] = devices[e]
  BY EnrolmentOfDevice
<1>4. ev.object = deviceObject[h.device] /\ ev.type = "DEVICE_ENROLLED"
  BY DEF CompleteEnrollment, Matches
<1>5. PICK t \in tokens, u \in TokenRow :
          TokenReplaced(t, u) /\ u.hash = h.token /\ u.owner = h.owner /\ u.consumed
  BY CompleteReplaces
<1>6. PICK g \in ChallengeRow : ChallengeReplaced(h, g) /\ g.consumed
  BY CompleteReplaces
<1>7. /\ n + 1 \in DOMAIN ledger' /\ ledger'[n + 1].event = ev /\ n + 1 \notin DOMAIN ledger
      /\ ledger'[n + 1].status = "accepted"
      /\ \A i \in DOMAIN ledger : i \in DOMAIN ledger' /\ ledger'[i] = ledger[i]
      /\ DOMAIN ledger' = DOMAIN ledger \cup {n + 1}
  BY <1>2 DEF RowAppended
<1>8. \A i \in DOMAIN ledger : EnrolledBy(i, d)' <=> EnrolledBy(i, d)
  BY <1>7 DEF EnrolledBy, AcceptedOn
<1>9. CASE d = h.device
  <2>1. Rows(d) = {} /\ Used(d) = {}
    BY <1>3, <1>9 DEF Evidence
  <2>2. EnrolledBy(n + 1, d)'
    BY <1>3, <1>4, <1>7, <1>9 DEF EnrolledBy, AcceptedOn
  <2>3. Rows(d)' = {n + 1}
    BY <1>7, <1>8, <2>1, <2>2 DEF Rows
  <2>4. Used(d)' = {g} /\ g \in challenges'
    BY <1>6, <1>9, <2>1 DEF ChallengeReplaced, Used
  <2>5. u \in tokens'
    BY <1>5 DEF TokenReplaced
  <2>6. EvidenceOf(d, n + 1, g, u)'
    <3>1. ledger'[n + 1].event.actor = devices'[d].owner
      BY <1>3, <1>7, <1>9
    <3>2. g.owner = h.owner /\ g.token = h.token
      BY <1>6 DEF ChallengeReplaced
    <3> QED
      BY <1>3, <1>5, <1>9, <2>3, <2>4, <3>1, <3>2 DEF EvidenceOf
  <2>7. devices'[d].status # "absent"
    BY <1>3, <1>9
  <2> QED
    BY <1>7, <2>4, <2>5, <2>6, <2>7 DEF Evidence
<1>10. CASE d # h.device
  <2>1. ~EnrolledBy(n + 1, d)'
    BY <1>3, <1>7, <1>10 DEF EnrolledBy
  <2>2. Rows(d)' = Rows(d)
    BY <1>7, <1>8, <2>1 DEF Rows
  <2>3. DeviceStays(d)
    BY <1>3, <1>7, <1>10, <2>2 DEF DeviceStays
  <2>4. Used(d)' = Used(d)
    BY <1>6, <1>10 DEF ChallengeReplaced, Used
  <2>5. TokensStay
    BY <1>5, ReplacedTokenKeyed DEF TokensStay
  <2> QED
    BY <2>3, <2>4, <2>5, EvidenceStays
<1> QED
  BY <1>9, <1>10

LEMMA EvidenceInductive ==
    ASSUME CoreInv, DevicesHaveEvidence, [Next]_vars
    PROVE  DevicesHaveEvidence'
<1>0. CASE ledger' = ledger /\ devices' = devices /\ challenges' = challenges /\ TokensStay
  <2>1. \A d \in Device : Rows(d)' = Rows(d) /\ Used(d)' = Used(d)
    BY <1>0 DEF Rows, Used, EnrolledBy, AcceptedOn
  <2>2. \A d \in Device : DeviceStays(d)
    BY <1>0, <2>1 DEF DeviceStays
  <2>3. \A d \in Device : Evidence(d) => Evidence(d)'
    BY <1>0, <2>1, <2>2, EvidenceStays
  <2>4. DevicesHaveEvidence' <=> \A d \in Device : BootDevices[d].status = "absent" => Evidence(d)'
    BY DEF DevicesHaveEvidence, Evidence, EvidenceOf, Rows, Used
  <2> QED
    BY <2>3, <2>4, EvidencePerDevice
<1>1. CASE UNCHANGED vars
  BY <1>0, <1>1 DEF vars, store, pkiTables, TokensStay
<1>2. ASSUME NEW hash \in Token, NEW x \in Executive, IssueToken(hash, x)
      PROVE  DevicesHaveEvidence'
  BY <1>0, <1>2 DEF IssueToken, store, TokensStay
<1> DEFINE StepKeeps == \A d \in Device : Evidence(d) => Evidence(d)'
<1>3. StepKeeps => DevicesHaveEvidence'
  <2>1. DevicesHaveEvidence' <=> \A d \in Device : BootDevices[d].status = "absent" => Evidence(d)'
    BY DEF DevicesHaveEvidence, Evidence, EvidenceOf, Rows, Used
  <2> QED
    BY <2>1, EvidencePerDevice
<1>4. ASSUME NEW id \in Challenge, NEW t \in tokens, NEW e \in Device, BeginEnrollment(id, t, e)
      PROVE  StepKeeps
  <2>1. ledger' = ledger /\ devices' = devices /\ TokensStay
    BY <1>4 DEF BeginEnrollment, store, TokensStay
  <2>0. PICK g : g = [id |-> id, token |-> t.hash, owner |-> t.owner, device |-> e,
                      expired |-> FALSE, consumed |-> FALSE]
    OBVIOUS
  <2>2. challenges' = challenges \cup {g} /\ ~g.consumed
    BY <1>4, <2>0 DEF BeginEnrollment
  <2>3. \A d \in Device : Rows(d)' = Rows(d) /\ Used(d)' = Used(d)
    BY <2>1, <2>2 DEF Rows, Used, EnrolledBy, AcceptedOn
  <2>4. \A d \in Device : DeviceStays(d)
    BY <2>1, <2>3 DEF DeviceStays
  <2> QED
    BY <2>1, <2>3, <2>4, EvidenceStays
<1>5. ASSUME Expire
      PROVE  StepKeeps
  <2>1. ledger' = ledger /\ devices' = devices
    BY <1>5 DEF Expire, store
  <2>2. \A d \in Device : DeviceStays(d)
    BY <2>1 DEF DeviceStays, Rows, EnrolledBy, AcceptedOn
  <2>3. ASSUME NEW t \in tokens, NEW u \in TokenRow, TokenReplaced(t, u), challenges' = challenges
        PROVE  StepKeeps
    <3>1. TokensStay
      BY <2>3, ReplacedTokenKeyed DEF TokensStay
    <3>2. \A d \in Device : Used(d)' = Used(d)
      BY <2>3 DEF Used
    <3> QED
      BY <2>2, <3>1, <3>2, EvidenceStays
  <2>4. ASSUME NEW h \in challenges, NEW g \in ChallengeRow, ChallengeReplaced(h, g),
               g.consumed = h.consumed, tokens' = tokens
        PROVE  StepKeeps
    <3>1. TokensStay
      BY <2>4 DEF TokensStay
    <3>2. \E k \in challenges : \E c : ChallengeReplaced(k, c) /\ c.consumed = k.consumed
      BY <2>4
    <3> QED
      BY <2>2, <3>1, <3>2, EvidenceStays
  <2> QED
    BY <1>5, <2>3, <2>4, ExpireReplaces
<1>6. ASSUME NEW h \in challenges, NEW ev \in Event, CompleteEnrollment(h, ev)
      PROVE  StepKeeps
  BY <1>6, CompleteGivesEvidence
<1>7. ASSUME NEW e \in Device, RevokeDevice(e)
      PROVE  StepKeeps
  <2>1. ledger' = ledger /\ challenges' = challenges /\ TokensStay
    BY <1>7 DEF RevokeDevice, TokensStay
  <2>2. \A d \in Device : Rows(d)' = Rows(d) /\ Used(d)' = Used(d)
    BY <2>1 DEF Rows, Used, EnrolledBy, AcceptedOn
  <2>3. \A d \in Device : /\ devices'[d].owner = devices[d].owner
                          /\ devices'[d].status = "absent" <=> devices[d].status = "absent"
    BY <1>7, RevocationOfDevice
  <2>4. \A d \in Device : DeviceStays(d)
    BY <2>1, <2>2, <2>3 DEF DeviceStays
  <2> QED
    BY <2>1, <2>2, <2>4, EvidenceStays
<1>8. ASSUME NEW e \in Device, RevocationInterrupted(e)
      PROVE  DevicesHaveEvidence'
  BY <1>0, <1>8 DEF RevocationInterrupted, store, TokensStay
<1> HIDE DEF StepKeeps
<1> QED
  BY <1>1, <1>2, <1>3, <1>4, <1>5, <1>6, <1>7, <1>8 DEF Next

LEMMA EvidenceInitial == Init => DevicesHaveEvidence
<1> SUFFICES ASSUME Init PROVE DevicesHaveEvidence
  OBVIOUS
<1>1. ledger = <<>> /\ challenges = {} /\ devices = BootDevices
  BY DEF Init, StoreInit
<1>2. \A d \in Device : Rows(d) = {} /\ Used(d) = {}
  BY <1>1 DEF Rows, Used
<1> QED
  BY <1>1, <1>2, EvidencePerDevice DEF Evidence

\* Each device that came has one row, one consumed challenge and a consumed
\* token, all of its owner: the four writes of completeEnrollment agree, however
\* many challenges were issued for a token.
THEOREM DevicesKeepEvidence == Spec => []DevicesHaveEvidence
BY EvidenceInitial, EvidenceInductive, CoreInvariant, PTL DEF Spec

-----------------------------------------------------------------------------
(* The audit log. *)

\* Entries are told apart by their events and subjects.
LEMMA EntriesDiffer ==
    /\ \A a, x, b, y : <<a, x>> = <<b, y>> <=> a = b /\ x = y
    /\ \A a, x, v, b, y, w : <<a, x, v>> = <<b, y, w>> <=> a = b /\ x = y /\ v = w
    /\ \A a, x, b, y, w : a # b => <<a, x>> # <<b, y, w>>
<1>1. \A a, x, v, b, y, w : <<a, x, v>> = <<b, y, w>> <=> a = b /\ x = y /\ v = w
  OBVIOUS
<1>2. ASSUME NEW a, NEW x, NEW b, NEW y, NEW w, a # b
      PROVE  <<a, x>> # <<b, y, w>>
  <2>1. <<a, x>>[1] = a /\ <<b, y, w>>[1] = b
    OBVIOUS
  <2> QED
    BY <1>2, <2>1
<1> QED
  BY <1>1, <1>2

\* What a new entry changes: the one set it belongs to.
LEMMA EntryWritten ==
    ASSUME NEW entry, audit' = audit \cup {entry}
    PROVE  /\ \A x : <<"enrollment_token_issued", x>> \in audit'
                 <=> \/ <<"enrollment_token_issued", x>> \in audit
                     \/ <<"enrollment_token_issued", x>> = entry
           /\ \A x : <<"enrollment_challenge_issued", x>> \in audit'
                 <=> \/ <<"enrollment_challenge_issued", x>> \in audit
                     \/ <<"enrollment_challenge_issued", x>> = entry
           /\ \A x : <<"device_enrolled", x>> \in audit'
                 <=> \/ <<"device_enrolled", x>> \in audit
                     \/ <<"device_enrolled", x>> = entry
           /\ \A x, v : <<"device_revoked", x, v>> \in audit'
                 <=> \/ <<"device_revoked", x, v>> \in audit
                     \/ <<"device_revoked", x, v>> = entry
OBVIOUS

AuditInv == EntriesHaveSubjects /\ UnrecordedCounted /\ EnrolmentsAudited /\ RevocationsAudited

\* The log says of tokens, challenges and enrolments what it said before.
SameAbout ==
    /\ \A x : <<"enrollment_token_issued", x>> \in audit' <=> <<"enrollment_token_issued", x>> \in audit
    /\ \A x : <<"enrollment_challenge_issued", x>> \in audit'
                 <=> <<"enrollment_challenge_issued", x>> \in audit

LEMMA CountStays ==
    ASSUME EntriesHaveSubjects, UnrecordedCounted, SameAbout, unaudited' = unaudited,
           IssuedHashes' = IssuedHashes, IssuedIds' = IssuedIds
    PROVE  EntriesHaveSubjects' /\ UnrecordedCounted'
<1>1. UnrecordedHashes' = UnrecordedHashes /\ UnrecordedIds' = UnrecordedIds
  BY DEF UnrecordedHashes, UnrecordedIds, SameAbout
<1> QED
  BY <1>1 DEF EntriesHaveSubjects, UnrecordedCounted, SameAbout

\* Devices and lists are as before, and so is what the log says of them.
LEMMA DevicesAuditedStay ==
    ASSUME EnrolmentsAudited, RevocationsAudited, devices' = devices, revocations' = revocations,
           \A x : <<"device_enrolled", x>> \in audit' <=> <<"device_enrolled", x>> \in audit,
           \A x, v : <<"device_revoked", x, v>> \in audit' <=> <<"device_revoked", x, v>> \in audit
    PROVE  EnrolmentsAudited' /\ RevocationsAudited'
<1>1. \A v : RevokedIn(v)' = RevokedIn(v)
  BY DEF RevokedIn
<1> QED
  BY <1>1 DEF EnrolmentsAudited, RevocationsAudited

LEMMA FiniteUnrecorded ==
    ASSUME CoreInv
    PROVE  /\ IsFiniteSet(UnrecordedHashes) /\ Cardinality(UnrecordedHashes) \in Nat
           /\ IsFiniteSet(UnrecordedIds) /\ Cardinality(UnrecordedIds) \in Nat
           /\ \E f : f \in Bijection({t \in tokens : <<"enrollment_token_issued", t.hash>> \notin audit},
                                     UnrecordedHashes)
           /\ \E f : f \in Bijection({h \in challenges :
                                        <<"enrollment_challenge_issued", h.id>> \notin audit},
                                     UnrecordedIds)
<1> DEFINE T == {t \in tokens : <<"enrollment_token_issued", t.hash>> \notin audit}
           C == {h \in challenges : <<"enrollment_challenge_issued", h.id>> \notin audit}
           f == [t \in T |-> t.hash]
           g == [h \in C |-> h.id]
<1>1. IsFiniteSet(T) /\ IsFiniteSet(C)
  BY FS_Subset DEF CoreInv, RowsKeyed
<1>2. f \in Bijection(T, UnrecordedHashes)
  <2>1. f \in [T -> UnrecordedHashes]
    BY DEF UnrecordedHashes, IssuedHashes
  <2>2. \A s, t \in T : f[s] = f[t] => s = t
    BY DEF CoreInv, RowsKeyed
  <2>3. \A x \in UnrecordedHashes : \E t \in T : f[t] = x
    BY DEF UnrecordedHashes, IssuedHashes
  <2> QED
    BY <2>1, <2>2, <2>3 DEF Bijection, Injection, Surjection, IsInjective
<1>3. g \in Bijection(C, UnrecordedIds)
  <2>1. g \in [C -> UnrecordedIds]
    BY DEF UnrecordedIds, IssuedIds
  <2>2. \A h, k \in C : g[h] = g[k] => h = k
    BY DEF CoreInv, RowsKeyed
  <2>3. \A x \in UnrecordedIds : \E h \in C : g[h] = x
    BY DEF UnrecordedIds, IssuedIds
  <2> QED
    BY <2>1, <2>2, <2>3 DEF Bijection, Injection, Surjection, IsInjective
<1> HIDE DEF T, C, f, g
<1>4. /\ IsFiniteSet(UnrecordedHashes) /\ Cardinality(UnrecordedHashes) \in Nat
      /\ IsFiniteSet(UnrecordedIds) /\ Cardinality(UnrecordedIds) \in Nat
  BY <1>1, <1>2, <1>3, FS_Bijection, FS_CardinalityType DEF ExistsBijection
<1> QED
  BY <1>2, <1>3, <1>4 DEF T, C

\* A token and its entry are two statements: the entry that is missing counts.
LEMMA IssueKeepsAudit ==
    ASSUME CoreInv, AuditInv, NEW hash \in Token, NEW x \in Executive, IssueToken(hash, x)
    PROVE  AuditInv'
<1> DEFINE entry == <<"enrollment_token_issued", hash>>
<1>1. /\ devices' = devices /\ revocations' = revocations /\ IssuedIds' = IssuedIds
      /\ IssuedHashes' = IssuedHashes \cup {hash} /\ hash \notin IssuedHashes
  <2>1. PICK u : u = [hash |-> hash, owner |-> x, expired |-> FALSE, consumed |-> FALSE]
    OBVIOUS
  <2>2. u.hash = hash /\ tokens' = tokens \cup {u} /\ \A t \in tokens : t.hash # hash
    BY <2>1 DEF IssueToken
  <2> QED
    BY <2>2 DEF IssueToken, store, IssuedIds, IssuedHashes
<1>2. entry \notin audit
  BY <1>1 DEF AuditInv, EntriesHaveSubjects
<1>3. AuditAlone(entry) /\ unaudited \in Nat
  BY DEF IssueToken, CoreInv, TypeOK
<1>4. CASE audit' = audit \cup {entry} /\ unaudited' = unaudited
  <2>1. /\ \A y : <<"enrollment_token_issued", y>> \in audit'
              <=> <<"enrollment_token_issued", y>> \in audit \/ y = hash
        /\ \A y : <<"enrollment_challenge_issued", y>> \in audit'
              <=> <<"enrollment_challenge_issued", y>> \in audit
        /\ \A y : <<"device_enrolled", y>> \in audit' <=> <<"device_enrolled", y>> \in audit
        /\ \A y, v : <<"device_revoked", y, v>> \in audit' <=> <<"device_revoked", y, v>> \in audit
    BY <1>4, EntryWritten, EntriesDiffer
  <2>2. UnrecordedHashes' = UnrecordedHashes /\ UnrecordedIds' = UnrecordedIds
    BY <1>1, <2>1 DEF UnrecordedHashes, UnrecordedIds
  <2>3. EntriesHaveSubjects' /\ UnrecordedCounted'
    BY <1>1, <1>4, <2>1, <2>2 DEF AuditInv, EntriesHaveSubjects, UnrecordedCounted
  <2> QED
    BY <1>1, <2>1, <2>3, DevicesAuditedStay DEF AuditInv
<1>5. CASE audit' = audit /\ unaudited' = unaudited + 1
  <2>1. UnrecordedHashes' = UnrecordedHashes \cup {hash} /\ hash \notin UnrecordedHashes
        /\ UnrecordedIds' = UnrecordedIds
    BY <1>1, <1>2, <1>5 DEF UnrecordedHashes, UnrecordedIds
  <2>2. Cardinality(UnrecordedHashes') = Cardinality(UnrecordedHashes) + 1
    BY <2>1, FiniteUnrecorded, FS_AddElement
  <2>3. UnrecordedCounted'
    BY <1>3, <1>5, <2>1, <2>2, FiniteUnrecorded DEF AuditInv, UnrecordedCounted
  <2>4. EntriesHaveSubjects'
    BY <1>1, <1>5 DEF AuditInv, EntriesHaveSubjects
  <2> QED
    BY <1>1, <1>5, <2>3, <2>4, DevicesAuditedStay DEF AuditInv
<1> QED
  BY <1>3, <1>4, <1>5 DEF AuditAlone

LEMMA BeginKeepsAudit ==
    ASSUME CoreInv, AuditInv, NEW id \in Challenge, NEW t \in tokens, NEW d \in Device,
           BeginEnrollment(id, t, d)
    PROVE  AuditInv'
<1> DEFINE entry == <<"enrollment_challenge_issued", id>>
<1>1. /\ devices' = devices /\ revocations' = revocations /\ IssuedHashes' = IssuedHashes
      /\ IssuedIds' = IssuedIds \cup {id} /\ id \notin IssuedIds
  <2>1. PICK g : g = [id |-> id, token |-> t.hash, owner |-> t.owner, device |-> d,
                      expired |-> FALSE, consumed |-> FALSE]
    OBVIOUS
  <2>2. g.id = id /\ challenges' = challenges \cup {g} /\ \A h \in challenges : h.id # id
    BY <2>1 DEF BeginEnrollment
  <2> QED
    BY <2>2 DEF BeginEnrollment, store, IssuedIds, IssuedHashes
<1>2. entry \notin audit
  BY <1>1 DEF AuditInv, EntriesHaveSubjects
<1>3. AuditAlone(entry) /\ unaudited \in Nat
  BY DEF BeginEnrollment, CoreInv, TypeOK
<1>4. CASE audit' = audit \cup {entry} /\ unaudited' = unaudited
  <2>1. /\ \A y : <<"enrollment_token_issued", y>> \in audit'
              <=> <<"enrollment_token_issued", y>> \in audit
        /\ \A y : <<"enrollment_challenge_issued", y>> \in audit'
              <=> <<"enrollment_challenge_issued", y>> \in audit \/ y = id
        /\ \A y : <<"device_enrolled", y>> \in audit' <=> <<"device_enrolled", y>> \in audit
        /\ \A y, v : <<"device_revoked", y, v>> \in audit' <=> <<"device_revoked", y, v>> \in audit
    BY <1>4, EntryWritten, EntriesDiffer
  <2>2. UnrecordedHashes' = UnrecordedHashes /\ UnrecordedIds' = UnrecordedIds
    BY <1>1, <2>1 DEF UnrecordedHashes, UnrecordedIds
  <2>3. EntriesHaveSubjects' /\ UnrecordedCounted'
    BY <1>1, <1>4, <2>1, <2>2 DEF AuditInv, EntriesHaveSubjects, UnrecordedCounted
  <2> QED
    BY <1>1, <2>1, <2>3, DevicesAuditedStay DEF AuditInv
<1>5. CASE audit' = audit /\ unaudited' = unaudited + 1
  <2>1. UnrecordedIds' = UnrecordedIds \cup {id} /\ id \notin UnrecordedIds
        /\ UnrecordedHashes' = UnrecordedHashes
    BY <1>1, <1>2, <1>5 DEF UnrecordedHashes, UnrecordedIds
  <2>2. Cardinality(UnrecordedIds') = Cardinality(UnrecordedIds) + 1
    BY <2>1, FiniteUnrecorded, FS_AddElement
  <2>3. UnrecordedCounted'
    BY <1>3, <1>5, <2>1, <2>2, FiniteUnrecorded DEF AuditInv, UnrecordedCounted
  <2>4. EntriesHaveSubjects'
    BY <1>1, <1>5 DEF AuditInv, EntriesHaveSubjects
  <2> QED
    BY <1>1, <1>5, <2>3, <2>4, DevicesAuditedStay DEF AuditInv
<1> QED
  BY <1>3, <1>4, <1>5 DEF AuditAlone

LEMMA ExpireKeepsAudit ==
    ASSUME CoreInv, AuditInv, Expire
    PROVE  AuditInv'
<1>1. /\ devices' = devices /\ revocations' = revocations /\ audit' = audit
      /\ unaudited' = unaudited
  BY DEF Expire, store, auditVars
<1>2. IssuedHashes' = IssuedHashes /\ IssuedIds' = IssuedIds
  <2>1. ASSUME NEW t \in tokens, NEW u \in TokenRow, TokenReplaced(t, u), challenges' = challenges
        PROVE  IssuedHashes' = IssuedHashes /\ IssuedIds' = IssuedIds
    BY <2>1, ReplacedTokenKeyed DEF IssuedIds
  <2>2. ASSUME NEW h \in challenges, NEW g \in ChallengeRow, ChallengeReplaced(h, g), tokens' = tokens
        PROVE  IssuedHashes' = IssuedHashes /\ IssuedIds' = IssuedIds
    BY <2>2, ReplacedChallengeKeyed DEF IssuedHashes
  <2> QED
    BY <2>1, <2>2, ExpireReplaces
<1> QED
  BY <1>1, <1>2, CountStays, DevicesAuditedStay DEF AuditInv, SameAbout

LEMMA CompleteKeepsAudit ==
    ASSUME CoreInv, AuditInv, NEW h \in challenges, NEW ev \in Event, CompleteEnrollment(h, ev)
    PROVE  AuditInv'
<1>1. /\ audit' = audit \cup {<<"device_enrolled", h.device>>} /\ unaudited' = unaudited
      /\ revocations' = revocations
  BY DEF CompleteEnrollment, AuditWithin
<1>2. SameAbout
  BY <1>1, EntryWritten, EntriesDiffer DEF SameAbout
<1>3. /\ \A y : <<"device_enrolled", y>> \in audit'
            <=> <<"device_enrolled", y>> \in audit \/ y = h.device
      /\ \A y, v : <<"device_revoked", y, v>> \in audit' <=> <<"device_revoked", y, v>> \in audit
  BY <1>1, EntryWritten, EntriesDiffer
<1>4. IssuedHashes' = IssuedHashes /\ IssuedIds' = IssuedIds
  BY CompleteReplaces, ReplacedTokenKeyed, ReplacedChallengeKeyed
<1>5. EntriesHaveSubjects' /\ UnrecordedCounted'
  BY <1>1, <1>2, <1>4, CountStays DEF AuditInv
<1>6. RevocationsAudited'
  <2>1. \A v : RevokedIn(v)' = RevokedIn(v)
    BY <1>3 DEF RevokedIn
  <2> QED
    BY <1>1, <2>1 DEF AuditInv, RevocationsAudited
<1>7. /\ h.device \in Device /\ devices[h.device].status = "absent"
      /\ devices'[h.device].status = "enrolled"
      /\ \A d \in Device : d # h.device => devices'[d] = devices[d]
  BY EnrolmentOfDevice
<1>8. EnrolmentsAudited'
  BY <1>3, <1>7 DEF AuditInv, EnrolmentsAudited
<1> QED
  BY <1>5, <1>6, <1>8 DEF AuditInv

LEMMA RevokeKeepsAudit ==
    ASSUME CoreInv, AuditInv, NEW d \in Device, RevokeDevice(d)
    PROVE  AuditInv'
<1>1. revocations \in Seq(SUBSET Device)
  BY DEF CoreInv, TypeOK
<1>2. PICK n \in Nat : n = Len(revocations) /\ DOMAIN revocations = 1..n
  BY <1>1
<1>3. /\ audit' = audit \cup {<<"device_revoked", d, n + 1>>} /\ unaudited' = unaudited
      /\ tokens' = tokens /\ challenges' = challenges
  BY <1>2 DEF RevokeDevice, AuditWithin
<1>4. /\ Len(revocations') = n + 1 /\ DOMAIN revocations' = 1 .. n + 1
      /\ d \in revocations'[n + 1]
      /\ \A v \in 1..n : revocations'[v] = revocations[v]
  <2>1. NextRevocationList(d) \in SUBSET Device /\ d \in NextRevocationList(d)
    BY DEF NextRevocationList, RevokedDevices
  <2>2. revocations' = Append(revocations, NextRevocationList(d))
    BY DEF RevokeDevice
  <2> QED
    BY <1>1, <1>2, <2>1, <2>2
<1>5. SameAbout
  BY <1>3, EntryWritten, EntriesDiffer DEF SameAbout
<1>6. /\ \A y : <<"device_enrolled", y>> \in audit' <=> <<"device_enrolled", y>> \in audit
      /\ \A y, v : <<"device_revoked", y, v>> \in audit'
            <=> <<"device_revoked", y, v>> \in audit \/ (y = d /\ v = n + 1)
  BY <1>3, EntryWritten, EntriesDiffer
<1>7. EntriesHaveSubjects' /\ UnrecordedCounted'
  BY <1>3, <1>5, CountStays DEF AuditInv, IssuedHashes, IssuedIds
<1>8. RevokedIn(n + 1)' = {d} /\ \A v : v # n + 1 => RevokedIn(v)' = RevokedIn(v)
  <2>1. RevokedIn(n + 1) = {}
    BY <1>2 DEF AuditInv, RevocationsAudited
  <2> QED
    BY <1>6, <2>1 DEF RevokedIn
<1>9. RevocationsAudited'
  <2>1. \A v \in 1 .. n + 1 : v = n + 1 \/ (v \in 1..n /\ v # n + 1)
    OBVIOUS
  <2>2. \A v \in Nat : v > n + 1 => v > n /\ v # n + 1
    BY <1>2
  <2>3. \A v \in 1 .. n + 1 : \E e \in revocations'[v] : RevokedIn(v)' = {e}
    BY <1>2, <1>4, <1>8, <2>1 DEF AuditInv, RevocationsAudited
  <2> QED
    BY <1>2, <1>4, <1>8, <2>2, <2>3 DEF AuditInv, RevocationsAudited
<1>10. /\ devices[d].status # "absent" /\ devices'[d].status = "revoked"
       /\ \A e \in Device : e # d => devices'[e] = devices[e]
  BY RevocationOfDevice
<1>11. EnrolmentsAudited'
  BY <1>6, <1>10 DEF AuditInv, EnrolmentsAudited
<1> QED
  BY <1>7, <1>9, <1>11 DEF AuditInv

LEMMA AuditInductive ==
    ASSUME CoreInv, AuditInv, [Next]_vars
    PROVE  AuditInv'
<1>1. CASE UNCHANGED <<store, tokens, challenges, revocations, auditVars>>
  BY <1>1, CountStays, DevicesAuditedStay
     DEF AuditInv, SameAbout, store, auditVars, IssuedHashes, IssuedIds
<1>2. CASE UNCHANGED vars
  BY <1>1, <1>2 DEF vars, pkiTables
<1>3. ASSUME NEW d \in Device, RevocationInterrupted(d)
      PROVE  AuditInv'
  BY <1>1, <1>3 DEF RevocationInterrupted
<1> QED
  BY <1>2, <1>3, IssueKeepsAudit, BeginKeepsAudit, ExpireKeepsAudit, CompleteKeepsAudit,
     RevokeKeepsAudit DEF Next

LEMMA AuditInitial == Init => AuditInv
<1> SUFFICES ASSUME Init PROVE AuditInv
  OBVIOUS
<1>1. /\ audit = {} /\ tokens = {} /\ challenges = {} /\ revocations = <<>> /\ unaudited = 0
      /\ devices = BootDevices
  BY DEF Init, StoreInit
<1>2. UnrecordedHashes = {} /\ UnrecordedIds = {}
  BY <1>1 DEF UnrecordedHashes, UnrecordedIds, IssuedHashes, IssuedIds
<1>3. UnrecordedCounted
  BY <1>1, <1>2, FS_EmptySet DEF UnrecordedCounted
<1>4. \A v : RevokedIn(v) = {}
  BY <1>1 DEF RevokedIn
<1> QED
  BY <1>1, <1>3, <1>4 DEF AuditInv, EntriesHaveSubjects, EnrolmentsAudited, RevocationsAudited

\* A row of tokens is never one of challenges, so what is unrecorded is counted
\* table by table.
LEMMA AuditInvSuffices == CoreInv /\ AuditInv => AuditMatchesTables
<1> SUFFICES ASSUME CoreInv, AuditInv PROVE AuditMatchesTables
  OBVIOUS
<1> DEFINE T == {t \in tokens : <<"enrollment_token_issued", t.hash>> \notin audit}
           C == {h \in challenges : <<"enrollment_challenge_issued", h.id>> \notin audit}
<1>1. IsFiniteSet(T) /\ IsFiniteSet(C)
  BY FS_Subset DEF CoreInv, RowsKeyed
<1>2. T \cap C = {}
  <2>1. \A t \in TokenRow : "id" \notin DOMAIN t
    BY DEF TokenRow
  <2>2. \A h \in ChallengeRow : "id" \in DOMAIN h
    BY DEF ChallengeRow
  <2> QED
    BY <2>1, <2>2 DEF CoreInv, TypeOK
<1>3. PICK f : f \in Bijection(T, UnrecordedHashes)
  BY FiniteUnrecorded
<1>4. PICK g : g \in Bijection(C, UnrecordedIds)
  BY FiniteUnrecorded
<1>5. Unrecorded = T \cup C
  BY DEF Unrecorded
<1> HIDE DEF T, C
<1>6. /\ Cardinality(T) = Cardinality(UnrecordedHashes)
      /\ Cardinality(C) = Cardinality(UnrecordedIds)
  BY <1>1, <1>3, <1>4, FS_Bijection DEF ExistsBijection
<1>7. Cardinality(T \cup C) = Cardinality(T) + Cardinality(C) - Cardinality({})
  BY <1>1, <1>2, FS_Union
<1>8. Cardinality(Unrecorded) = unaudited
  BY <1>5, <1>6, <1>7, FS_EmptySet, FiniteUnrecorded DEF AuditInv, UnrecordedCounted
<1>9. RevokedIn(Len(revocations) + 1) = {}
  <2>1. PICK n \in Nat : n = Len(revocations)
    BY DEF CoreInv, TypeOK
  <2>2. n + 1 \in Nat /\ n + 1 > n
    BY <2>1
  <2> QED
    BY <2>1, <2>2 DEF AuditInv, RevocationsAudited
<1> QED
  BY <1>8, <1>9 DEF AuditMatchesTables, AuditInv, EnrolmentsAudited, RevocationsAudited

\* The audit log tells what happened and nothing else, across failures between
\* the statements of a method and within its transaction.
THEOREM AuditStaysTrue == Spec => []AuditMatchesTables
BY AuditInitial, AuditInductive, AuditInvSuffices, CoreInvariant, PTL DEF Spec
=============================================================================
