------------------------------ MODULE MCReporting ------------------------------
(***************************************************************************)
(* An instance of Reporting for TLC: two executives open account a, one of *)
(* them in conflict; the conflict is resolved, the account is closed and   *)
(* opened again in another group.  Account m is opened by the events whose *)
(* metadata name it: the memo, which competes for a counter, and OpenAToo. *)
(***************************************************************************)
EXTENDS Reporting

MCDevice == {"d1", "d2"}
MCExecutive == {"ana", "bob"}
MCObject == {"A", "M"}
MCAccount == {"a", "m"}
MCGroup == {"usd", "eur"}

MCBootDevices ==
    [d \in MCDevice |-> [status |-> "enrolled",
                         owner |-> IF d = "d1" THEN "ana" ELSE "bob", watermark |-> 0]]
MCBootExecutives == [x \in MCExecutive |-> "active"]
MCDeviceOrder == [d \in MCDevice |-> IF d = "d1" THEN 1 ELSE 2]

Ev(id, type, actor, device, counter, base, object) ==
    [id |-> id, type |-> type, actor |-> actor, device |-> device,
     counter |-> counter, base |-> base, object |-> object,
     key |-> 1, intact |-> TRUE]

OpenA == Ev("open", "OBJECT_CHANGED", "ana", "d1", 1, 0, "A")
OpenAToo == Ev("open too", "OBJECT_CHANGED", "bob", "d2", 1, 0, "A")
Settle == Ev("settle", "CONFLICT_RESOLVED", "ana", "d1", 2, 2, "A")
CloseA == Ev("close", "OBJECT_CHANGED", "bob", "d2", 2, 3, "A")
Reopen == Ev("reopen", "OBJECT_CHANGED", "bob", "d2", 3, 4, "A")
OpenM == Ev("memo", "OBJECT_CHANGED", "ana", "d1", 1, 0, "M")

MCOpening == {OpenA, OpenAToo, Reopen, OpenM}
MCClosing == {CloseA}
MCEvent == MCOpening \cup MCClosing \cup {Settle}
MCRequests == {[event |-> e, cert |-> e.device] : e \in MCEvent}
MCPolicyOutcomes == [e \in MCEvent |-> {"allow"}]

MCAccountOf == [e \in MCEvent |-> IF e \in {OpenM, OpenAToo} THEN "m" ELSE "a"]
MCGroupOf == [e \in MCEvent |-> IF e = Reopen THEN "eur" ELSE "usd"]
MCObjectId == [o \in MCObject |-> IF o = "A" THEN "a" ELSE "m"]
=============================================================================
