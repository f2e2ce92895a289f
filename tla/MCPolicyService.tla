---------------------------- MODULE MCPolicyService -----------------------------
(***************************************************************************)
(* An instance of PolicyService for TLC.  ana may activate policies A, its *)
(* revision A2, which has the same id, and B, in any order; bob's payments *)
(* are priced under A activated first or B activated second, one of them   *)
(* half a minor unit above a limit of A.                                   *)
(***************************************************************************)
EXTENDS PolicyService

MCDevice == {"d1", "d2", "d3"}
MCExecutive == {"ana", "bob"}
MCObject == {"policy A", "policy B", "payment"}
MCBootDevices ==
    [d \in MCDevice |-> [status |-> "enrolled",
                         owner |-> IF d = "d2" THEN "bob" ELSE "ana", watermark |-> 0]]
MCBootExecutives == [x \in MCExecutive |-> "active"]
MCDeviceOrder == [d \in MCDevice |-> IF d = "d1" THEN 1 ELSE IF d = "d2" THEN 2 ELSE 3]
MCRoleOf == [x \in MCExecutive |-> IF x = "ana" THEN "CFO" ELSE "TREASURER"]
MCRiskOf == [d \in MCDevice |-> IF d = "d2" THEN 7 ELSE 0]
MCPolicyObject == [p \in {"A", "B"} |-> IF p = "A" THEN "policy A" ELSE "policy B"]

Ev(id, device, counter, object) ==
    [id |-> id, type |-> "OBJECT_CHANGED", actor |-> MCBootDevices[device].owner,
     device |-> device, counter |-> counter, base |-> 0, object |-> object,
     key |-> 1, intact |-> TRUE]

ActivateA == Ev("activate A", "d1", 1, "policy A")
ActivateB == Ev("activate B", "d3", 1, "policy B")
Pay == Ev("pay", "d2", 1, "payment")
PayLess == Ev("pay less", "d2", 2, "payment")
Approve == Ev("approve", "d2", 3, "payment")

MCEvent == {ActivateA, ActivateB, Pay, PayLess, Approve}
MCRequests == {[event |-> e, cert |-> e.device] : e \in MCEvent}
MCPolicyOutcomes == [e \in MCEvent |-> PolicyOutcome]

\* 2.5 and 2 minor units.
Price(local, snapshot) ==
    {[local |-> local, rate |-> [num |-> 5, den |-> 10], snapshot |-> snapshot]}
Plain(type, objectType) ==
    [type |-> type, objectType |-> objectType, currency |-> {}, money |-> {}]
Payment(local, snapshot) ==
    [type |-> "PAYMENT_REQUESTED", objectType |-> "transaction",
     currency |-> {"EUR"}, money |-> Price(local, snapshot)]

MCDetail ==
    [e \in MCEvent |->
       CASE e \in {ActivateA, ActivateB} -> Plain("POLICY_CHANGED", "policy")
         [] e = Pay -> Payment(5, <<"A", 1>>)
         [] e = PayLess -> Payment(4, <<"B", 2>>)
         [] e = Approve -> Plain("PAYMENT_APPROVED", "transaction")]

Grant(role, objectType, action, max, risk) ==
    [role |-> role, objectType |-> objectType, actions |-> {action},
     currency |-> IF max = {} THEN {} ELSE {"EUR"}, maxAmount |-> max, maxRisk |-> risk]
Changes == Grant("CFO", "policy", "create", {}, {5})
Rule(types, threshold) == [types |-> types, threshold |-> threshold]

PolicyA == [id |-> "A", version |-> 1, currency |-> "USD", rules |-> {},
            permissions |-> {Changes, Grant("TREASURER", "transaction", "create", {2}, {})}]

PolicyB == [id |-> "B", version |-> 2, currency |-> "USD",
            permissions |-> {Changes,
                             Grant("TREASURER", "transaction", "create", {}, {}),
                             Grant("TREASURER", "transaction", "approve", {}, {9})},
            rules |-> {Rule({"PAYMENT_REQUESTED"}, {[amount |-> 3, currency |-> "USD"]}),
                       Rule({"PAYMENT_APPROVED"}, {})}]

\* Nobody may pay; what changes policies waits for approvals.
PolicyA2 == [id |-> "A", version |-> 3, currency |-> "EUR", permissions |-> {Changes},
             rules |-> {Rule({"POLICY_CHANGED"}, {})}]

MCPolicy == {"A", "A2", "B"}
MCDocument ==
    [p \in MCPolicy |-> IF p = "A" THEN PolicyA ELSE IF p = "B" THEN PolicyB ELSE PolicyA2]
=============================================================================
