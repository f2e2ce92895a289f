-------------------------- MODULE PolicyServiceProofs ---------------------------
(****************************************************************************)
(* Policies choose among the ways out that the appender has, whatever they  *)
(* say, so every theorem about LedgerAppender holds of PolicyService; every *)
(* policy row comes from an accepted event; and what takes effect is within *)
(* the policy of its time, which can be read off the tables afterwards.     *)
(****************************************************************************)
EXTENDS PolicyService, LedgerAppenderProofs

\* What a verdict leads to is an outcome the appender foresees.
LEMMA ObeyingIsAppending ==
    ASSUME NEW c \in Caller, NEW r \in Requests, NEW outcome,
           Verified(r), Obey(outcome, c, r)
    PROVE  AppendNow(c, r)
<1>1. PolicyOutcomes[r.event] = PolicyOutcome
  BY AnyOutcomeAssumption, RequestAssumption DEF Request
<1>2. CASE outcome = "deny" /\ AppendValidatedEvent(c, r.event, "rejected", "POLICY_DENIED")
  BY <1>1, <1>2 DEF AppendNow, RejectByPolicy, PolicyOutcome
<1>3. CASE /\ outcome = "mismatch"
           /\ AppendValidatedEvent(c, r.event, "rejected", "POLICY_VERSION_MISMATCH")
  BY <1>1, <1>3 DEF AppendNow, RejectByPolicy, PolicyOutcome
<1>4. CASE /\ outcome = "require_approvals"
           /\ AppendValidatedEvent(c, r.event, "pending", "APPROVALS_REQUIRED")
  BY <1>1, <1>4 DEF AppendNow, ParkForApproval, PolicyOutcome
<1>5. CASE /\ outcome = "allow"
           /\ \/ RefuseResolution(c, r) \/ AcceptResolution(c, r)
              \/ RefuseWhileConflicted(c, r) \/ DetectConflict(c, r) \/ Accept(c, r)
  BY <1>5 DEF AppendNow
<1> QED BY <1>2, <1>3, <1>4, <1>5 DEF Obey

\* Serving a request under a policy is serving it.
LEMMA ServingUnderPolicy ==
    ASSUME CoreInv, NEW c \in Caller, ServeUnderPolicy(c)
    PROVE  Serve(c)
<1> DEFINE r == Head(pending[c])
<1>1. queue # <<>> /\ Head(queue) = c
  BY DEF ServeUnderPolicy
<1>2. r \in Requests
  BY <1>1, ServedRequest
<1>3. \/ AppendNow(c, r)
      \/ Verified(r) /\ \E outcome \in Verdict(r) : Obey(outcome, c, r)
  BY DEF ServeUnderPolicy
<1> HIDE DEF r
<1>4. AppendNow(c, r)
  BY <1>2, <1>3, ObeyingIsAppending
<1> QED BY <1>1, <1>4 DEF Serve, r

\* The INSERT of a policy and its failure are invisible to the appender.
LEMMA PolicyStepAppends ==
    ASSUME CoreInv, [PolicyNext]_allVars
    PROVE  [Next]_vars
<1>1. CASE UNCHANGED allVars
  BY <1>1 DEF allVars
<1>2. ASSUME NEW c \in Caller, SubmitEvents(c) \/ ContinueBatch(c) \/ CallFails(c)
      PROVE  Next
  BY <1>2 DEF SubmitEvents, ContinueBatch, CallFails, Next
<1>3. ASSUME NEW c \in Caller, ActivatePolicy(c)
      PROVE  Next
  BY <1>3 DEF ActivatePolicy, Next
<1>4. ASSUME NEW c \in Caller, ServeUnderPolicy(c)
      PROVE  Next
  BY <1>4, ServingUnderPolicy DEF Next
<1>5. CASE PolicyCrash
  BY <1>5 DEF PolicyCrash, Next
<1>6. CASE InsertPolicy \/ InsertFails
  BY <1>6 DEF InsertPolicy, InsertFails
<1> QED BY <1>1, <1>2, <1>3, <1>4, <1>5, <1>6 DEF PolicyNext

\* The appender's core invariant holds under policies.
LEMMA PolicyCoreInvariant == PolicySpec => []CoreInv
<1>1. PolicyInit => CoreInv
  BY CoreInitially DEF PolicyInit
<1>2. CoreInv /\ [PolicyNext]_allVars => CoreInv'
  BY PolicyStepAppends, CoreInductive
<1> QED BY <1>1, <1>2, PTL DEF PolicySpec

\* PolicyService implements LedgerAppender (ImplementsAppender): the order of
\* its checks and the writes of each way out are the same under every policy.
THEOREM PoliciesImplementAppender == PolicySpec => ImplementsAppender
<1>1. PolicyInit => Init
  BY DEF PolicyInit
<1>2. CoreInv /\ [PolicyNext]_allVars => [Next]_vars
  BY PolicyStepAppends
<1> QED BY <1>1, <1>2, PolicyCoreInvariant, PTL DEF PolicySpec, ImplementsAppender, Spec

\* No update is lost under any sequence of policies.
THEOREM NoUpdateIsLostUnderPolicies == PolicySpec => []NoLostUpdate
  BY PoliciesImplementAppender, NoUpdateIsLost, PTL DEF ImplementsAppender

-----------------------------------------------------------------------------
(* Policies are activated by events. *)

\* The event at row seq of the ledger announces policy p.
Backed(p, seq) ==
    /\ AcceptedOn(policyObject[document[p].id], seq)
    /\ detail[ledger[seq].event].type = "POLICY_CHANGED"

DistinctPolicies ==
    \A row, other \in policies :
        document[row.policy].id = document[other.policy].id
          \/ Version(row.policy) = Version(other.policy) => row = other

\* A call that is to activate a policy has an event of that policy to serve;
\* what is due to be inserted is backed already.
ActivationInv ==
    /\ activating \in [Caller -> SUBSET Policy]
    /\ \A c \in Caller : \A p \in activating[c] :
          pending[c] # <<>> /\ Announces(Head(pending[c]).event, p)
    /\ \A row \in resuming : Backed(row.policy, row.seq)
    /\ \A row \in policies : Backed(row.policy, row.seq) /\ row.seq <= row.after
    /\ DistinctPolicies

\* The ledger only grows, so what backs a policy stays.
LEMMA BackingStays ==
    ASSUME CoreInv, [Next]_vars, NEW p, NEW seq, Backed(p, seq)
    PROVE  Backed(p, seq)'
<1>1. CASE UNCHANGED store
  BY <1>1 DEF store, Backed, AcceptedOn
<1>2. ASSUME NEW c \in Caller, Writes(c)
      PROVE  Backed(p, seq)'
  <2>1. PICK ev \in Event, status \in DecidedStatus, error \in ErrorCode :
           Commit(ev, status, error)
    BY <1>2 DEF Writes
  <2>2. PICK n \in Nat : n = Len(ledger)
    BY DEF CoreInv, TypeOK, StoreTypeOK
  <2>3. /\ DOMAIN ledger = 1..n
        /\ \A i \in 1..n : ledger'[i] = ledger[i]
        /\ \A o, i : AcceptedOn(o, i) => AcceptedOn(o, i)'
    BY <2>1, <2>2, CommittedRow
  <2>4. seq \in 1..n
    BY <2>3 DEF Backed, AcceptedOn
  <2> QED BY <2>3, <2>4 DEF Backed
<1> QED BY <1>1, <1>2, StepWrites

\* The continuation of a served activation is backed by the row it names.
LEMMA ContinuationIsBacked ==
    ASSUME CoreInv, CoreInv', ActivationInv,
           NEW c \in Caller, queue # <<>>, Head(queue) = c,
           NEW row \in Continuation(c, Head(pending[c]).event)
    PROVE  Backed(row.policy, row.seq)'
<1>1. PICK ev \in Event : ev = Head(pending[c]).event
  BY ServedRequest
<1>2. PICK p \in activating[c], j \in DOMAIN ledger' :
         /\ row = [policy |-> p, seq |-> ledger'[j].seq]
         /\ ledger'[j].event.id = ev.id /\ ledger'[j].status = "accepted"
  BY <1>1 DEF Continuation
<1>3. ledger'[j].seq = j /\ ledger'[j].event \in Event
  <2>1. ledger' \in Seq(Row) /\ ChainIntact'
    BY DEF CoreInv, TypeOK, StoreTypeOK
  <2>2. ledger'[j] \in Row /\ ledger'[j].seq = j
    BY <1>2, <2>1 DEF ChainIntact
  <2> QED BY <2>2 DEF Row
<1>4. ledger'[j].event = ev
  BY <1>2, <1>3, IdAssumption
<1>5. Announces(ev, p)
  BY <1>1, <1>2 DEF ActivationInv
<1>6. row.policy = p /\ row.seq = j
  BY <1>2, <1>3
<1> QED BY <1>2, <1>4, <1>5, <1>6 DEF Backed, AcceptedOn, Announces

LEMMA ActivationInductive ==
    ASSUME CoreInv, CoreInv', ActivationInv, [PolicyNext]_allVars
    PROVE  ActivationInv'
<1>1. [Next]_vars
  BY PolicyStepAppends
<1>2. \A p, seq : Backed(p, seq) => Backed(p, seq)'
  BY <1>1, BackingStays
<1>3. CASE UNCHANGED allVars
  BY <1>2, <1>3 DEF allVars, vars, policyVars, ActivationInv, DistinctPolicies, Version, Announces
<1>4. ASSUME NEW c \in Caller, SubmitEvents(c)
      PROVE  ActivationInv'
  <2>1. /\ pending[c] = <<>> /\ UNCHANGED policyVars
        /\ \A b \in Caller : b # c => pending'[b] = pending[b]
    BY <1>4 DEF SubmitEvents, Submit, CoreInv, TypeOK
  <2>2. activating[c] = {}
    BY <2>1 DEF ActivationInv
  <2> QED BY <1>2, <2>1, <2>2 DEF policyVars, ActivationInv, DistinctPolicies, Version, Announces
<1>5. ASSUME NEW c \in Caller, ContinueBatch(c)
      PROVE  ActivationInv'
  BY <1>2, <1>5 DEF ContinueBatch, Continue, policyVars, ActivationInv, DistinctPolicies,
                    Version, Announces
<1>6. ASSUME NEW c \in Caller, ActivatePolicy(c)
      PROVE  ActivationInv'
  <2>1. PICK p \in Policy, r \in Requests :
           /\ Announces(r.event, p)
           /\ pending' = [pending EXCEPT ![c] = <<r>>]
           /\ activating' = [activating EXCEPT ![c] = {p}]
    BY <1>6 DEF ActivatePolicy, SubmitOne
  <2>2. policies' = policies /\ resuming' = resuming
    BY <1>6 DEF ActivatePolicy
  <2>3. /\ pending'[c] = <<r>> /\ activating'[c] = {p}
        /\ \A b \in Caller : b # c => pending'[b] = pending[b] /\ activating'[b] = activating[b]
    BY <2>1 DEF ActivationInv, CoreInv, TypeOK
  <2>4. Head(pending'[c]) = r /\ pending'[c] # <<>>
    BY <2>3
  <2>5. activating' \in [Caller -> SUBSET Policy]
    BY <2>1 DEF ActivationInv
  <2> QED BY <1>2, <2>1, <2>2, <2>3, <2>4, <2>5
          DEF ActivationInv, DistinctPolicies, Version, Announces
<1>7. ASSUME NEW c \in Caller, ServeUnderPolicy(c) \/ CallFails(c)
      PROVE  ActivationInv'
  <2>1. /\ queue # <<>> /\ Head(queue) = c /\ policies' = policies
        /\ activating' = [activating EXCEPT ![c] = {}]
    BY <1>7 DEF ServeUnderPolicy, CallFails, WorkFails
  <2>2. \A b \in Caller : b # c => pending'[b] = pending[b]
    <3>1. Serve(c) \/ WorkFails(c)
      BY <1>7, ServingUnderPolicy DEF CallFails
    <3>2. Throw(c) \/ Repeats(c) \/ Writes(c)
      BY <2>1, <3>1, ServedRequest, AppendNowOutcomes DEF Serve, WorkFails
    <3> QED BY <3>2 DEF Throw, Repeats, Writes, Answer, CoreInv, TypeOK
  <2>3. \A row \in resuming' : Backed(row.policy, row.seq)'
    <3>1. CASE ServeUnderPolicy(c)
      BY <2>1, <3>1, ContinuationIsBacked DEF ServeUnderPolicy
    <3>2. CASE CallFails(c)
      BY <1>2, <3>2 DEF CallFails, ActivationInv
    <3> QED BY <1>7, <3>1, <3>2
  <2> QED BY <1>2, <2>1, <2>2, <2>3 DEF ActivationInv, DistinctPolicies, Version, Announces
<1>8. CASE InsertPolicy
  <2>1. PICK row \in resuming :
           /\ \A other \in policies :
                 /\ document[other.policy].id # document[row.policy].id
                 /\ Version(other.policy) # Version(row.policy)
           /\ policies' = policies \cup
                 {[policy |-> row.policy, seq |-> row.seq, after |-> Len(ledger)]}
    BY <1>8 DEF InsertPolicy
  <2>2. resuming' = {} /\ ledger' = ledger /\ pending' = pending /\ activating' = activating
    BY <1>8 DEF InsertPolicy, vars, store
  <2>3. Backed(row.policy, row.seq) /\ row.seq <= Len(ledger)
    BY DEF ActivationInv, Backed, AcceptedOn, CoreInv, TypeOK, StoreTypeOK
  <2>4. DistinctPolicies'
    BY <2>1 DEF ActivationInv, DistinctPolicies, Version
  <2>5. \A new \in policies' : Backed(new.policy, new.seq)' /\ new.seq <= new.after
    BY <1>2, <2>1, <2>3 DEF ActivationInv
  <2> QED BY <2>2, <2>4, <2>5 DEF ActivationInv, Announces
<1>9. CASE InsertFails
  BY <1>2, <1>9 DEF InsertFails, vars, store, ActivationInv, DistinctPolicies, Version, Announces
<1>10. CASE PolicyCrash
  BY <1>2, <1>10 DEF PolicyCrash, Crash, ActivationInv, DistinctPolicies, Version, Announces
<1> QED BY <1>3, <1>4, <1>5, <1>6, <1>7, <1>8, <1>9, <1>10 DEF PolicyNext

\* Every policy row comes from an accepted POLICY_CHANGED event of its own
\* object, through failed INSERTs, crashes and repeated activations.
THEOREM PoliciesStayActivated == PolicySpec => []PoliciesAreActivated
<1>1. PolicyInit => ActivationInv
  BY DEF PolicyInit, ActivationInv, DistinctPolicies
<1>2. CoreInv /\ CoreInv' /\ ActivationInv /\ [PolicyNext]_allVars => ActivationInv'
  BY ActivationInductive
<1>3. ActivationInv => PoliciesAreActivated
  BY DEF ActivationInv, PoliciesAreActivated, Backed, DistinctPolicies
<1> QED BY <1>1, <1>2, <1>3, PolicyCoreInvariant, PTL DEF PolicySpec

-----------------------------------------------------------------------------
(* What takes effect is within the policy it was judged by. *)

\* The division of defaultCurrencyAmountMinorUnits rounds up, so an amount within
\* a whole limit after it was within the limit before.
LEMMA RoundingIsExact ==
    ASSUME NEW amount \in Nat, NEW den \in Nat \ {0}, NEW limit \in Int
    PROVE  /\ (amount + den - 1) \div den <= limit => amount <= limit * den
           /\ (amount + den - 1) \div den < limit => amount < limit * den
<1> DEFINE q == (amount + den - 1) \div den
<1>1. PICK k \in Int : k = q
  OBVIOUS
<1>2. amount + den - 1 < den * (k + 1)
  BY <1>1
<1>3. amount <= den * k
  BY <1>2
<1>4. k <= limit => den * k <= limit * den
  OBVIOUS
<1>5. k < limit => k <= limit - 1
  OBVIOUS
<1>6. k <= limit - 1 => den * k <= den * (limit - 1)
  OBVIOUS
<1>7. den * (limit - 1) = limit * den - den
  OBVIOUS
<1>8. k <= limit => amount <= limit * den
  BY <1>3, <1>4
<1>9. k < limit => amount < limit * den
  BY <1>3, <1>5, <1>6, <1>7
<1> QED
  BY <1>1, <1>8, <1>9

\* The one amount of an event.
LEMMA OneAmount ==
    ASSUME NEW d, IsDetail(d), NEW m \in d.money
    PROVE  /\ DefaultCurrencyAmount(d) = (m.local * m.rate.num + m.rate.den - 1) \div m.rate.den
           /\ m.local \in Nat /\ m.rate.num \in Nat /\ m.rate.den \in Nat \ {0}
           /\ m.local * m.rate.num \in Nat
<1>1. (CHOOSE x \in d.money : TRUE) = m
  BY DEF IsDetail, Optional
<1>2. m.local \in Nat /\ m.rate.num \in Nat /\ m.rate.den \in Nat \ {0}
  BY DEF IsDetail
<1>3. \A a, b \in Nat : a * b \in Nat
  OBVIOUS
<1> QED
  BY <1>1, <1>2, <1>3 DEF DefaultCurrencyAmount, InDefaultCurrency

\* An event that evaluate allows is covered exactly, free of approvals, and
\* priced under the policy it was judged by.
LEMMA AllowedIsWithinPolicy ==
    ASSUME NEW p \in Policy, NEW snapshot, NEW ev \in Event,
           Evaluate(document[p], snapshot, detail[ev], roleOf[ev.actor], riskOf[ev.device]) = "allow"
    PROVE  /\ Covered(ev, document[p])
           /\ FreeOfApproval(ev, document[p])
           /\ \A m \in detail[ev].money : m.snapshot = snapshot
<1> DEFINE doc == document[p]
           d == detail[ev]
<1>1. /\ Permitted(doc, d, roleOf[ev.actor], riskOf[ev.device])
      /\ ~WrongSnapshot(snapshot, d) /\ ~NeedsApproval(doc, d)
  BY DEF Evaluate
<1>2. IsDetail(d)
  BY DetailAssumption
<1>3. \A m \in d.money : \A limit \in Int :
         /\ DefaultCurrencyAmount(d) <= limit => AtMost(m, limit)
         /\ DefaultCurrencyAmount(d) < limit => Below(m, limit)
  <2>1. ASSUME NEW m \in d.money, NEW limit \in Int
        PROVE  /\ DefaultCurrencyAmount(d) <= limit => AtMost(m, limit)
               /\ DefaultCurrencyAmount(d) < limit => Below(m, limit)
    <3> HIDE DEF d
    <3>1. /\ DefaultCurrencyAmount(d) = (m.local * m.rate.num + m.rate.den - 1) \div m.rate.den
          /\ m.rate.den \in Nat \ {0} /\ m.local * m.rate.num \in Nat
      BY <1>2, <2>1, OneAmount
    <3> QED
      BY <3>1, RoundingIsExact DEF AtMost, Below
  <2> QED
    BY <2>1
<1>4. Covered(ev, doc)
  <2>1. PICK q \in doc.permissions :
           /\ q.role = roleOf[ev.actor] /\ q.objectType = d.objectType
           /\ ActionForEvent(d.type) \in q.actions
           /\ ConditionsAllow(q, d, riskOf[ev.device])
    BY <1>1 DEF Permitted
  <2>2. q.maxAmount \subseteq Int
    BY DocumentAssumption
  <2>3. \A max \in q.maxAmount, m \in d.money : AtMost(m, max)
    BY <1>3, <2>1, <2>2 DEF ConditionsAllow
  <2> QED
    BY <2>1, <2>3 DEF Covered
<1>5. FreeOfApproval(ev, doc)
  <2>1. ASSUME NEW rule \in doc.rules, d.type \in rule.types
        PROVE  \E t \in rule.threshold :
                  t.currency # doc.currency \/ \A m \in d.money : Below(m, t.amount)
    <3>1. PICK t \in rule.threshold :
             ~(t.currency = doc.currency /\ DefaultCurrencyAmount(d) >= t.amount)
      BY <1>1, <2>1 DEF NeedsApproval
    <3>2. t.amount \in Int
      BY <2>1, DocumentAssumption
    <3>3. ASSUME NEW m \in d.money, t.currency = doc.currency
          PROVE  Below(m, t.amount)
      <4>1. DefaultCurrencyAmount(d) \in Int
        BY <1>2, <3>3, OneAmount
      <4> QED
        BY <1>3, <3>1, <3>2, <3>3, <4>1
    <3> QED
      BY <3>3
  <2> QED
    BY <2>1 DEF FreeOfApproval
<1> QED
  BY <1>1, <1>4, <1>5 DEF WrongSnapshot

\* The policies that were there when row i was written.
PoliciesBefore(i) == {row \in policies : row.after < i}

HighestVersion(rows) ==
    {row \in rows : \A other \in rows : Version(other.policy) <= Version(row.policy)}

PolicyRow == [policy : Policy, seq : Nat, after : Nat]

\* What judged a row can be read off the policies table for good: policies are
\* only added, each with the length the ledger had by then.
JudgedInv ==
    /\ resuming \subseteq [policy : Policy, seq : Nat]
    /\ policies \subseteq PolicyRow
    /\ \A row \in policies : row.after <= Len(ledger)
    /\ judged \in Seq(SUBSET PolicyRow) /\ Len(judged) = Len(ledger)
    /\ \A i \in 1..Len(ledger) : judged[i] = HighestVersion(PoliciesBefore(i))

\* An event that takes effect was let through by the active policy.
LEMMA ServedVerdict ==
    ASSUME CoreInv, NEW c \in Caller, ServeUnderPolicy(c)
    PROVE  \/ ledger' = ledger
           \/ \E ev \in Event, status \in DecidedStatus, error \in ErrorCode :
                 /\ Commit(ev, status, error)
                 /\ status \in {"accepted", "conflicted"} =>
                      \E r \in Requests : r.event = ev /\ "allow" \in Verdict(r)
<1>1. PICK r \in Requests :
         /\ r.event \in Event
         /\ \/ ~Verified(r) /\ AppendNow(c, r)
            \/ Verified(r) /\ \E outcome \in Verdict(r) : Obey(outcome, c, r)
  BY ServedRequest DEF ServeUnderPolicy
<1> DEFINE Judged(ev, status) ==
             status \in {"accepted", "conflicted"} =>
               \E q \in Requests : q.event = ev /\ "allow" \in Verdict(q)
           Result == \/ ledger' = ledger
                     \/ \E ev \in Event, status \in DecidedStatus, error \in ErrorCode :
                           Commit(ev, status, error) /\ Judged(ev, status)
<1>2. ASSUME NEW status \in DecidedStatus, NEW error \in ErrorCode,
             AppendValidatedEvent(c, r.event, status, error), Judged(r.event, status)
      PROVE  Result
  BY <1>1, <1>2 DEF AppendValidatedEvent, Throw, store
<1>3. ASSUME NEW error, NonAppended(c, r.event, error)
      PROVE  ledger' = ledger
  BY <1>3 DEF NonAppended, store
<1>4. Judged(r.event, "rejected") /\ Judged(r.event, "pending")
  OBVIOUS
<1>5. "allow" \in Verdict(r) => Judged(r.event, "accepted") /\ Judged(r.event, "conflicted")
  BY <1>1
<1> HIDE DEF Judged, Result
<1>6. ASSUME ~Verified(r), AppendNow(c, r)
      PROVE  Result
  <2>1. CASE AnswerDuplicate(c, r) \/ AnswerUnknownDevice(c, r) \/ AnswerReplay(c, r)
    BY <1>3, <2>1 DEF AnswerDuplicate, AnswerUnknownDevice, AnswerReplay, Result, store
  <2>2. CASE RejectCertificate(c, r) \/ RejectActor(c, r) \/ RejectSignature(c, r)
               \/ RejectPayload(c, r)
    BY <1>2, <1>4, <2>2 DEF RejectCertificate, RejectActor, RejectSignature, RejectPayload,
                            DecidedStatus, ErrorCode
  <2> QED
    BY <1>6, <2>1, <2>2 DEF AppendNow, RejectByPolicy, ParkForApproval, RefuseResolution,
                            AcceptResolution, RefuseWhileConflicted, DetectConflict, Accept, Allowed
<1>7. ASSUME NEW outcome \in Verdict(r), Obey(outcome, c, r)
      PROVE  Result
  <2>1. CASE outcome # "allow"
    BY <1>2, <1>4, <1>7, <2>1 DEF Obey, DecidedStatus, ErrorCode
  <2>2. CASE /\ outcome = "allow"
             /\ \/ RefuseResolution(c, r) \/ AcceptResolution(c, r)
                \/ RefuseWhileConflicted(c, r) \/ DetectConflict(c, r) \/ Accept(c, r)
    BY <1>2, <1>4, <1>5, <2>2 DEF RefuseResolution, AcceptResolution, RefuseWhileConflicted,
                                  DetectConflict, Accept, DecidedStatus, ErrorCode
  <2> QED
    BY <1>7, <2>1, <2>2 DEF Obey
<1> QED
  BY <1>1, <1>6, <1>7 DEF Result, Judged

\* The version decides between any two policies, so one is active at most.
LEMMA OneActivePolicy ==
    ASSUME JudgedInv, DistinctPolicies, NEW a \in ActivePolicy, NEW b \in ActivePolicy
    PROVE  a = b
<1>1. /\ a \in policies /\ b \in policies
      /\ Version(a.policy) <= Version(b.policy) /\ Version(b.policy) <= Version(a.policy)
  BY DEF ActivePolicy
<1>2. Version(a.policy) \in Nat /\ Version(b.policy) \in Nat
  BY <1>1, DocumentAssumption DEF JudgedInv, PolicyRow, Version
<1> QED
  BY <1>1, <1>2 DEF DistinctPolicies

\* What the active policy allows is within it.
LEMMA VerdictIsWithinPolicy ==
    ASSUME JudgedInv, DistinctPolicies, NEW r \in Requests, "allow" \in Verdict(r),
           NEW row \in ActivePolicy
    PROVE  /\ Covered(r.event, document[row.policy])
           /\ FreeOfApproval(r.event, document[row.policy])
           /\ \A m \in detail[r.event].money : m.snapshot = <<row.policy, row.seq>>
<1>1. row \in policies /\ row.policy \in Policy /\ r.event \in Event
  BY RequestAssumption DEF ActivePolicy, JudgedInv, PolicyRow, Request
<1>2. PICK one \in ActivePolicy :
         Evaluate(document[one.policy], <<one.policy, one.seq>>, detail[r.event],
                  roleOf[r.event.actor], riskOf[r.event.device]) = "allow"
  BY <1>1 DEF Verdict
<1>3. one = row
  BY <1>2, OneActivePolicy
<1> QED
  BY <1>1, <1>2, <1>3, AllowedIsWithinPolicy

\* What tells the judging of a ledger from another.
judgement == <<ledger, policies, judged>>

LEMMA ServingKeepsJudged ==
    ASSUME CoreInv, CoreInv', JudgedInv, DistinctPolicies, EffectsWithinPolicy,
           NEW c \in Caller, ServeUnderPolicy(c),
           resuming' \subseteq [policy : Policy, seq : Nat]
    PROVE  JudgedInv' /\ EffectsWithinPolicy'
<1>1. /\ policies' = policies
      /\ judged' = IF ledger' = ledger THEN judged ELSE Append(judged, ActivePolicy)
  BY DEF ServeUnderPolicy
<1>2. CASE ledger' = ledger
  BY <1>1, <1>2 DEF JudgedInv, PoliciesBefore, HighestVersion, Version, EffectsWithinPolicy
<1>3. ASSUME ledger' # ledger
      PROVE  JudgedInv' /\ EffectsWithinPolicy'
  <2>1. PICK ev \in Event, status \in DecidedStatus, error \in ErrorCode :
           /\ Commit(ev, status, error)
           /\ status \in {"accepted", "conflicted"} =>
                \E r \in Requests : r.event = ev /\ "allow" \in Verdict(r)
    BY <1>3, ServedVerdict
  <2>2. PICK n \in Nat : n = Len(ledger)
    BY DEF CoreInv, TypeOK, StoreTypeOK
  <2>3. /\ DOMAIN ledger = 1..n /\ DOMAIN ledger' = 1 .. n + 1
        /\ \A i \in 1..n : ledger'[i] = ledger[i]
        /\ ledger'[n + 1].event = ev /\ ledger'[n + 1].status = status
    BY <2>1, <2>2, CommittedRow
  <2>4. Len(ledger') = n + 1
    BY <2>2, <2>3 DEF CoreInv, TypeOK, StoreTypeOK
  <2>5. ActivePolicy \in SUBSET PolicyRow
    BY DEF ActivePolicy, JudgedInv
  <2>6. /\ judged' \in Seq(SUBSET PolicyRow) /\ Len(judged') = n + 1
        /\ \A i \in 1..n : judged'[i] = judged[i]
        /\ judged'[n + 1] = ActivePolicy
    BY <1>1, <1>3, <2>2, <2>5 DEF JudgedInv
  <2>7. PoliciesBefore(n + 1) = policies
    BY <2>2 DEF PoliciesBefore, JudgedInv, PolicyRow
  <2>8. ActivePolicy = HighestVersion(PoliciesBefore(n + 1))
    BY <2>7 DEF ActivePolicy, HighestVersion
  <2>9. \A i : HighestVersion(PoliciesBefore(i))' = HighestVersion(PoliciesBefore(i))
    BY <1>1 DEF HighestVersion, PoliciesBefore, Version
  <2>10. \A i \in 1 .. n + 1 : judged'[i] = HighestVersion(PoliciesBefore(i))
    <3>1. \A i \in 1..n : judged[i] = HighestVersion(PoliciesBefore(i))
      BY <2>2 DEF JudgedInv
    <3>2. \A i \in 1 .. n + 1 : i = n + 1 \/ i \in 1..n
      OBVIOUS
    <3> HIDE DEF HighestVersion
    <3> QED
      BY <2>6, <2>8, <3>1, <3>2
  <2>11. JudgedInv'
    <3>1. \A row \in policies' : row.after <= n + 1
      BY <1>1, <2>2 DEF JudgedInv, PolicyRow
    <3> QED
      BY <1>1, <2>4, <2>6, <2>9, <2>10, <3>1 DEF JudgedInv
  <2>12. ASSUME NEW i \in 1 .. n + 1, ledger'[i].status \in {"accepted", "conflicted"},
                NEW row \in judged'[i]
         PROVE  /\ Covered(ledger'[i].event, document[row.policy])
                /\ FreeOfApproval(ledger'[i].event, document[row.policy])
                /\ \A m \in detail[ledger'[i].event].money : m.snapshot = <<row.policy, row.seq>>
    <3>1. CASE i = n + 1
      BY <2>1, <2>3, <2>6, <2>12, <3>1, VerdictIsWithinPolicy
    <3>2. CASE i \in 1..n
      BY <2>3, <2>6, <2>12, <3>2 DEF EffectsWithinPolicy
    <3> QED
      BY <3>1, <3>2
  <2>13. EffectsWithinPolicy'
    BY <2>3, <2>12 DEF EffectsWithinPolicy
  <2> QED
    BY <2>11, <2>13
<1> QED
  BY <1>2, <1>3

LEMMA JudgedInductive ==
    ASSUME CoreInv, CoreInv', ActivationInv, JudgedInv, EffectsWithinPolicy,
           [PolicyNext]_allVars
    PROVE  JudgedInv' /\ EffectsWithinPolicy'
<1>1. ASSUME UNCHANGED judgement, resuming' \subseteq resuming
      PROVE  JudgedInv' /\ EffectsWithinPolicy'
  BY <1>1 DEF judgement, JudgedInv, PoliciesBefore, HighestVersion, Version, EffectsWithinPolicy
<1>2. CASE UNCHANGED allVars
  BY <1>1, <1>2 DEF allVars, vars, store, policyVars, judgement
<1>3. ASSUME NEW c \in Caller,
             SubmitEvents(c) \/ ContinueBatch(c) \/ ActivatePolicy(c) \/ CallFails(c)
      PROVE  JudgedInv' /\ EffectsWithinPolicy'
  BY <1>1, <1>3 DEF SubmitEvents, ContinueBatch, ActivatePolicy, CallFails, Submit, Continue,
                    SubmitOne, WorkFails, Throw, store, policyVars, judgement
<1>4. CASE InsertFails \/ PolicyCrash
  BY <1>1, <1>4 DEF InsertFails, PolicyCrash, Crash, vars, store, judgement
<1>5. ASSUME NEW c \in Caller, ServeUnderPolicy(c)
      PROVE  JudgedInv' /\ EffectsWithinPolicy'
  <2>1. resuming' = Continuation(c, Head(pending[c]).event) /\ policies' = policies
    BY <1>5 DEF ServeUnderPolicy
  <2>2. \A i \in DOMAIN ledger' : ledger'[i].seq \in Nat
    <3>1. \A i \in DOMAIN ledger' : ledger'[i] \in Row
      BY DEF CoreInv, TypeOK, StoreTypeOK
    <3> QED
      BY <3>1 DEF Row
  <2>3. activating[c] \subseteq Policy
    BY DEF ActivationInv
  <2>4. resuming' \subseteq [policy : Policy, seq : Nat]
    BY <2>1, <2>2, <2>3 DEF Continuation
  <2> QED
    BY <1>5, <2>1, <2>4, ServingKeepsJudged DEF ActivationInv
<1>6. CASE InsertPolicy
  <2>1. PICK row \in resuming :
           policies' = policies \cup
                 {[policy |-> row.policy, seq |-> row.seq, after |-> Len(ledger)]}
    BY <1>6 DEF InsertPolicy
  <2>2. resuming' = {} /\ ledger' = ledger /\ judged' = judged
    BY <1>6 DEF InsertPolicy, vars, store
  <2>3. PICK n \in Nat : n = Len(ledger)
    BY DEF CoreInv, TypeOK, StoreTypeOK
  <2>4. row.policy \in Policy /\ row.seq \in Nat
    BY DEF JudgedInv
  <2>5. PICK new \in PolicyRow : new = [policy |-> row.policy, seq |-> row.seq, after |-> n]
    BY <2>3, <2>4 DEF PolicyRow
  <2>6. policies' = policies \cup {new} /\ new.after = n
    BY <2>1, <2>3, <2>5
  <2>7. \A i \in 1..n : PoliciesBefore(i)' = PoliciesBefore(i)
    BY <2>6 DEF PoliciesBefore
  <2>8. \A i \in 1..n : HighestVersion(PoliciesBefore(i))' = HighestVersion(PoliciesBefore(i))
    BY <2>7 DEF HighestVersion, Version
  <2>9. JudgedInv'
    BY <2>2, <2>3, <2>6, <2>8 DEF JudgedInv
  <2> QED
    BY <2>2, <2>9 DEF EffectsWithinPolicy
<1> QED
  BY <1>2, <1>3, <1>4, <1>5, <1>6 DEF PolicyNext

LEMMA JudgedInvariant == PolicySpec => [](CoreInv /\ JudgedInv /\ EffectsWithinPolicy)
<1>1. PolicyInit => CoreInv /\ ActivationInv /\ JudgedInv /\ EffectsWithinPolicy
  BY CoreInitially DEF PolicyInit, Init, StoreInit, ActivationInv, DistinctPolicies, JudgedInv,
                       EffectsWithinPolicy
<1>2. CoreInv /\ ActivationInv /\ JudgedInv /\ EffectsWithinPolicy /\ [PolicyNext]_allVars
        => CoreInv' /\ ActivationInv' /\ JudgedInv' /\ EffectsWithinPolicy'
  BY PolicyStepAppends, CoreInductive, ActivationInductive, JudgedInductive
<1> QED
  BY <1>1, <1>2, PTL DEF PolicySpec

\* For any documents and any order of activations, whatever takes effect is
\* covered to the exact amount by the policy it was judged by, was priced under
\* it and needed no approval (evaluate, defaultCurrencyAmountMinorUnits).
THEOREM EffectsStayWithinPolicy == PolicySpec => []EffectsWithinPolicy
  BY JudgedInvariant, PTL

\* The sequences in the policies table tell which policy judged a row, unless
\* a policy took a place before rows that are older than it (activatePolicy).
THEOREM DecisionsCanBeAudited == PolicySpec => []AuditReproducesDecisions
<1>1. ASSUME CoreInv, JudgedInv, PoliciesAreActivated
      PROVE  AuditReproducesDecisions
  <2>1. SUFFICES ASSUME NEW i \in DOMAIN ledger,
                        \A row \in policies : row.seq < i => row.after < i
                 PROVE  judged[i] = PolicyOnRecord(i)
    BY DEF AuditReproducesDecisions
  <2>2. i \in 1..Len(ledger)
    BY DEF CoreInv, TypeOK, StoreTypeOK
  <2>3. \A row \in policies : row.seq \in Nat /\ row.after \in Nat /\ row.seq <= row.after
    BY <1>1 DEF JudgedInv, PolicyRow, PoliciesAreActivated
  <2>4. \A row \in policies : row.seq < i <=> row.after < i
    BY <2>1, <2>2, <2>3
  <2>5. PoliciesBefore(i) = {row \in policies : row.seq < i}
    BY <2>4 DEF PoliciesBefore
  <2> QED
    BY <1>1, <2>2, <2>5 DEF JudgedInv, HighestVersion, PolicyOnRecord
<1> QED
  BY <1>1, JudgedInvariant, PoliciesStayActivated, PTL
=============================================================================
