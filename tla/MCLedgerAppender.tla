--------------------------- MODULE MCLedgerAppender ----------------------------
(***************************************************************************)
(* Instances of LedgerAppender for TLC.                                    *)
(***************************************************************************)
EXTENDS AppenderRefinement

MCDevice == {"d1", "d2"}
MCExecutive == {"ana", "bob", "eve"}

MCBootDevices ==
    [d \in MCDevice |-> [status |-> "enrolled", owner |-> IF d = "d2" THEN "bob" ELSE "ana",
                         watermark |-> 0]]
MCBootExecutives == [x \in MCExecutive |-> IF x = "eve" THEN "absent" ELSE "active"]
MCDeviceOrder == [d \in MCDevice |-> IF d = "d1" THEN 1 ELSE 2]

Ev(id, type, actor, device, counter, base, object) ==
    [id |-> id, type |-> type, actor |-> actor, device |-> device,
     counter |-> counter, base |-> base, object |-> object,
     key |-> 1, intact |-> TRUE]

OwnDevice(events) == {[event |-> e, cert |-> e.device] : e \in events}
Allow(events) == [e \in events |-> {"allow"}]

(* Conflicts: two executives write one object, one resolves, both go on;   *)
(* and a row for an executive who does not exist cannot be inserted.       *)
Write1 == Ev("w1", "OBJECT_CHANGED", "ana", "d1", 1, 0, "acct")
Write2 == Ev("w2", "OBJECT_CHANGED", "bob", "d2", 1, 0, "acct")
Settle == Ev("s1", "CONFLICT_RESOLVED", "ana", "d1", 2, 2, "acct")
Write3 == Ev("w3", "OBJECT_CHANGED", "bob", "d2", 2, 2, "acct")
Write4 == Ev("w4", "OBJECT_CHANGED", "ana", "d1", 3, 3, "acct")
Stranger == Ev("x1", "OBJECT_CHANGED", "eve", "d1", 1, 0, "acct")

ConflictEvents == {Write1, Write2, Settle, Write3, Write4, Stranger}
ConflictRequests == OwnDevice(ConflictEvents)
ConflictPolicy == Allow(ConflictEvents)

(* The watermark: d1's first event is also relayed through d2. *)
Early == Ev("early", "OBJECT_CHANGED", "ana", "d1", 1, 0, "acct")
Late == Ev("late", "OBJECT_CHANGED", "ana", "d1", 2, 0, "acct")
RelayedEvents == {Early, Late, Ev("next", "OBJECT_CHANGED", "ana", "d1", 3, 0, "memo")}
RelayedRequests ==
    OwnDevice(RelayedEvents) \cup {[event |-> e, cert |-> "d2"] : e \in RelayedEvents}
RelayedPolicy == Allow(RelayedEvents)
=============================================================================
