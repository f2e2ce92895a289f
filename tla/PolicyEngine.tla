------------------------------ MODULE PolicyEngine ------------------------------
(***************************************************************************)
(* PolicyEngine (server/src/policy/engine.ts): what an active policy       *)
(* document says of one event.                                             *)
(*                                                                         *)
(* Abstractions of data:                                                   *)
(*   - a field that may be absent is a set of at most one value;           *)
(*   - the metadata that policyMetadataSchema requires together (amount in *)
(*     the local currency, exchange rate, snapshot id) is one record, and  *)
(*     a rate is the fraction that parseExchangeRate makes of it;          *)
(*   - the id of a default-currency snapshot is what it is a hash of;      *)
(*   - a document or a rate that cannot be parsed is left out.             *)
(***************************************************************************)
EXTENDS Integers

\* The event types actionForEvent tells apart, and two it does not.
PolicyEventType == {"PAYMENT_REQUESTED", "PAYMENT_APPROVED", "PAYMENT_APPROVAL_CREATED",
                    "BUDGET_APPROVED", "DATA_EXPORTED", "CONFLICT_RESOLVED",
                    "POLICY_CHANGED"}

Optional(S) == \A x, y \in S : x = y

\* The plaintext metadata of an event, as far as policies look at it.
IsDetail(d) ==
    /\ d.type \in PolicyEventType
    /\ d.objectType \in STRING
    /\ d.currency \subseteq STRING /\ Optional(d.currency)
    /\ Optional(d.money)
    /\ \A m \in d.money : m.local \in Nat /\ m.rate.num \in Nat \ {0} /\ m.rate.den \in Nat \ {0}

\* PAYMENT_REQUESTED stands for every type that falls through.
ActionForEvent(type) ==
    CASE type = "DATA_EXPORTED" -> "export"
      [] type = "CONFLICT_RESOLVED" -> "resolve"
      [] type \in {"PAYMENT_APPROVED", "PAYMENT_APPROVAL_CREATED", "BUDGET_APPROVED"} -> "approve"
      [] OTHER -> "create"

\* Mutation: the division drops the fraction of a minor unit.
BugInDefaultCurrency(m) == (m.local * m.rate.num) \div m.rate.den

\* The amount in minor units of the default currency, rounded up.
InDefaultCurrency(m) == (m.local * m.rate.num + m.rate.den - 1) \div m.rate.den

\* defaultCurrencyAmountMinorUnits: 0 for an event without monetary metadata
DefaultCurrencyAmount(d) ==
    IF d.money = {} THEN 0 ELSE InDefaultCurrency(CHOOSE m \in d.money : TRUE)

ConditionsAllow(permission, d, risk) ==
    /\ \A c \in permission.currency : d.currency = {c}
    /\ \A max \in permission.maxAmount : DefaultCurrencyAmount(d) <= max
    /\ \A max \in permission.maxRisk : risk <= max

\* policy.permissions.find
Permitted(doc, d, role, risk) ==
    \E permission \in doc.permissions :
        /\ permission.role = role
        /\ permission.objectType = d.objectType
        /\ ActionForEvent(d.type) \in permission.actions
        /\ ConditionsAllow(permission, d, risk)

\* policy.approval_rules.find: a threshold in another currency never applies
NeedsApproval(doc, d) ==
    \E rule \in doc.rules :
        /\ d.type \in rule.types
        /\ \A threshold \in rule.threshold :
              /\ threshold.currency = doc.currency
              /\ DefaultCurrencyAmount(d) >= threshold.amount

\* assertDefaultCurrencySnapshot: the event was priced under another policy
WrongSnapshot(snapshot, d) == \E m \in d.money : m.snapshot # snapshot

\* evaluate.  "mismatch" is the exception of assertDefaultCurrencySnapshot.
Evaluate(doc, snapshot, d, role, risk) ==
    CASE ~Permitted(doc, d, role, risk) -> "deny"
      [] Permitted(doc, d, role, risk) /\ WrongSnapshot(snapshot, d) -> "mismatch"
      [] OTHER -> IF NeedsApproval(doc, d) THEN "require_approvals" ELSE "allow"
=============================================================================
