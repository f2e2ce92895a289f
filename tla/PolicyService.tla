------------------------------ MODULE PolicyService ------------------------------
(***************************************************************************)
(* PolicyService (server/src/policy/service.ts) and the policies table, in *)
(* one process with LedgerAppender, whose checks consult the active policy.*)
(*                                                                         *)
(* activatePolicy appends a POLICY_CHANGED event, awaits the answer, and   *)
(* inserts the policy in a statement of its own.  append() hands out the   *)
(* very promise of the work, so the continuation is due before the next    *)
(* appendNow: only a failure or a crash comes between the event and the    *)
(* row.  The activation is repeated with the same event, which the         *)
(* appender answers with the row it already has.                           *)
(*                                                                         *)
(* Roles and risk scores do not change in the server.  Schema errors,      *)
(* document hashes and the audit entry that follows the INSERT are left    *)
(* out.                                                                    *)
(***************************************************************************)
EXTENDS LedgerAppender, PolicyEngine

CONSTANTS Policy,        \* the documents an administrator may activate
          document,      \* what each of them says
          policyObject,  \* the object ("policy", id) of each policy id
          detail,        \* the metadata of each event
          roleOf,        \* executives.role
          riskOf         \* devices.risk_score

\* Every answer is possible for the appender: this module says which is given.
ASSUME AnyOutcomeAssumption == PolicyOutcomes = [ev \in Event |-> PolicyOutcome]

\* Clients draw event ids at random: an id names one event.
ASSUME IdAssumption == \A e, f \in Event : e.id = f.id => e = f

ASSUME DetailAssumption ==
    \A ev \in Event :
        /\ IsDetail(detail[ev])
        /\ ev.type = "CONFLICT_RESOLVED" <=> detail[ev].type = "CONFLICT_RESOLVED"

\* policyDocumentSchema: versions and amounts are integers.
ASSUME DocumentAssumption ==
    \A p \in Policy :
        /\ document[p].version \in Nat
        /\ \A q \in document[p].permissions : q.maxAmount \subseteq Int
        /\ \A rule \in document[p].rules : \A t \in rule.threshold : t.amount \in Int

VARIABLES policies,    \* rows of policies; after: ledger length at the INSERT (history)
          activating,  \* activating[c]: the policy call c is to activate, if any
          resuming,    \* the row whose INSERT is due, if any
          judged       \* the active policy when each ledger row was written (history)

policyVars == <<policies, activating, resuming, judged>>
allVars == <<vars, policyVars>>

Version(p) == document[p].version

PolicyInit ==
    /\ Init
    /\ policies = {}
    /\ activating = [c \in Caller |-> {}]
    /\ resuming = {}
    /\ judged = <<>>

-----------------------------------------------------------------------------
(* The policy an event is judged by. *)

\* Mutation: the policy activated last is active, whatever its version.
BugActivePolicy == {row \in policies : \A other \in policies : other.seq <= row.seq}

\* readActivePolicy: ORDER BY version DESC LIMIT 1
ActivePolicy ==
    {row \in policies : \A other \in policies : Version(other.policy) <= Version(row.policy)}

\* evaluateActivePolicy: without a policy everything is allowed
Verdict(r) ==
    IF policies = {} THEN {"allow"}
    ELSE {Evaluate(document[row.policy], <<row.policy, row.seq>>, detail[r.event],
                   roleOf[r.event.actor], riskOf[r.event.device]) : row \in ActivePolicy}

\* Mutation: what the policy denies is answered but not recorded.
BugObey(outcome, c, r) ==
    \/ outcome = "deny" /\ NonAppended(c, r.event, "POLICY_DENIED")
    \/ outcome = "require_approvals" /\ AppendValidatedEvent(c, r.event, "pending", "APPROVALS_REQUIRED")
    \/ outcome = "allow" /\ Accept(c, r)

\* The rest of appendNow, after evaluateActivePolicy.
Obey(outcome, c, r) ==
    \/ /\ outcome = "deny"
       /\ AppendValidatedEvent(c, r.event, "rejected", "POLICY_DENIED")
    \/ /\ outcome = "mismatch"
       /\ AppendValidatedEvent(c, r.event, "rejected", "POLICY_VERSION_MISMATCH")
    \/ /\ outcome = "require_approvals"
       /\ AppendValidatedEvent(c, r.event, "pending", "APPROVALS_REQUIRED")
    \/ /\ outcome = "allow"
       /\ \/ RefuseResolution(c, r)
          \/ AcceptResolution(c, r)
          \/ RefuseWhileConflicted(c, r)
          \/ DetectConflict(c, r)
          \/ Accept(c, r)

-----------------------------------------------------------------------------
(* Activation. *)

\* assertActivationEvent, without the metadata
Announces(ev, p) ==
    /\ detail[ev].type = "POLICY_CHANGED"
    /\ detail[ev].objectType = "policy"
    /\ detail[ev].money = {}
    /\ ev.object = policyObject[document[p].id]

\* activatePolicy, up to its await
ActivatePolicy(c) ==
    /\ resuming = {}
    /\ \E p \in Policy, r \in Requests :
        /\ Announces(r.event, p)
        /\ SubmitOne(c, r)
        /\ activating' = [activating EXCEPT ![c] = {p}]
    /\ UNCHANGED <<policies, resuming, judged>>

\* Mutation: the status of the acknowledgement is not looked at.
BugContinuation(c, ev) ==
    {[policy |-> p, seq |-> ledger'[i].seq] :
        p \in activating[c], i \in {j \in DOMAIN ledger' : ledger'[j].event.id = ev.id}}

\* The await of activatePolicy returns an accepted acknowledgement, which names
\* the row of the event, new or old; any other one makes the call fail.
Continuation(c, ev) ==
    {[policy |-> p, seq |-> ledger'[i].seq] :
        p \in activating[c],
        i \in {j \in DOMAIN ledger' : /\ ledger'[j].event.id = ev.id
                                      /\ ledger'[j].status = "accepted"}}

ServeUnderPolicy(c) ==
    /\ resuming = {}
    /\ queue # <<>>
    /\ Head(queue) = c
    /\ LET r == Head(pending[c])
       IN  /\ \/ ~Verified(r) /\ AppendNow(c, r)
              \/ Verified(r) /\ \E outcome \in Verdict(r) : Obey(outcome, c, r)
           /\ resuming' = Continuation(c, r.event)
    /\ judged' = IF ledger' = ledger THEN judged ELSE Append(judged, ActivePolicy)
    /\ activating' = [activating EXCEPT ![c] = {}]
    /\ UNCHANGED policies

\* The rest of activatePolicy: PRIMARY KEY (id), UNIQUE (version).
InsertPolicy ==
    /\ \E row \in resuming :
        /\ \A other \in policies :
              /\ document[other.policy].id # document[row.policy].id
              /\ Version(other.policy) # Version(row.policy)
        /\ policies' = policies \cup
              {[policy |-> row.policy, seq |-> row.seq, after |-> Len(ledger)]}
    /\ resuming' = {}
    /\ UNCHANGED <<vars, activating, judged>>

\* The id or the version is taken, or the storage fails.  The event stays.
InsertFails ==
    /\ resuming # {}
    /\ resuming' = {}
    /\ UNCHANGED <<vars, policies, activating, judged>>

-----------------------------------------------------------------------------
(* The rest of the process runs only while no continuation is due. *)

SubmitEvents(c) == resuming = {} /\ Submit(c) /\ UNCHANGED policyVars
ContinueBatch(c) == resuming = {} /\ Continue(c) /\ UNCHANGED policyVars

CallFails(c) ==
    /\ resuming = {}
    /\ WorkFails(c)
    /\ activating' = [activating EXCEPT ![c] = {}]
    /\ UNCHANGED <<policies, resuming, judged>>

PolicyCrash ==
    /\ Crash
    /\ activating' = [c \in Caller |-> {}]
    /\ resuming' = {}
    /\ UNCHANGED <<policies, judged>>

PolicyNext ==
    \/ \E c \in Caller :
          \/ SubmitEvents(c) \/ ContinueBatch(c) \/ ActivatePolicy(c)
          \/ ServeUnderPolicy(c) \/ CallFails(c)
    \/ InsertPolicy \/ InsertFails \/ PolicyCrash

PolicySpec == PolicyInit /\ [][PolicyNext]_allVars

-----------------------------------------------------------------------------
(* Properties. *)

\* Every policy row comes from an accepted POLICY_CHANGED event of its own
\* object, through failed INSERTs, crashes and repeated activations, and no
\* two rows share an id or a version (activatePolicy).
PoliciesAreActivated ==
    /\ \A row \in policies :
          /\ AcceptedOn(policyObject[document[row.policy].id], row.seq)
          /\ detail[ledger[row.seq].event].type = "POLICY_CHANGED"
          /\ row.seq <= row.after
    /\ \A row, other \in policies :
          document[row.policy].id = document[other.policy].id
            \/ Version(row.policy) = Version(other.policy) => row = other

\* The exact amount is at most limit, without any rounding.
AtMost(m, limit) == m.local * m.rate.num <= limit * m.rate.den
Below(m, limit) == m.local * m.rate.num < limit * m.rate.den

\* A permission of doc covers ev, whose exact amount is within its limit.
Covered(ev, doc) ==
    \E q \in doc.permissions :
        /\ q.role = roleOf[ev.actor]
        /\ q.objectType = detail[ev].objectType
        /\ ActionForEvent(detail[ev].type) \in q.actions
        /\ \A max \in q.maxAmount, m \in detail[ev].money : AtMost(m, max)

\* No rule of doc asks for approvals of ev: each has a threshold, in another
\* currency or above the exact amount.
FreeOfApproval(ev, doc) ==
    \A rule \in doc.rules : detail[ev].type \in rule.types =>
        \E t \in rule.threshold :
            t.currency # doc.currency \/ \A m \in detail[ev].money : Below(m, t.amount)

\* Whatever takes effect is covered, exactly, by the policy that was active
\* when its row was written, was priced under that policy, and needed no one's
\* approval (evaluate against the order of activations and appends).
EffectsWithinPolicy ==
    \A i \in DOMAIN ledger : ledger[i].status \in {"accepted", "conflicted"} =>
        \A row \in judged[i] :
            /\ Covered(ledger[i].event, document[row.policy])
            /\ FreeOfApproval(ledger[i].event, document[row.policy])
            /\ \A m \in detail[ledger[i].event].money : m.snapshot = <<row.policy, row.seq>>

\* The policy an auditor finds for row i: of those activated before it, the one
\* with the highest version.
PolicyOnRecord(i) ==
    LET earlier == {row \in policies : row.seq < i}
    IN  {row \in earlier : \A other \in earlier : Version(other.policy) <= Version(row.policy)}

\* activated_at_sequence tells which policy judged a row, unless a policy that
\* claims an earlier place was inserted after it: an activation that failed
\* between its event and its row, and was repeated.
AuditReproducesDecisions ==
    \A i \in DOMAIN ledger :
        (\A row \in policies : row.seq < i => row.after < i) => judged[i] = PolicyOnRecord(i)

\* Policies only choose among the ways out that the appender has.
ImplementsAppender == Spec
=============================================================================
