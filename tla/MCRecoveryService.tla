--------------------------- MODULE MCRecoveryService ----------------------------
(***************************************************************************)
(* Instances of RecoveryService for TLC: three custodians who are also the *)
(* executives that may be recovered, two of whom can execute a ceremony.   *)
(***************************************************************************)
EXTENDS RecoveryService

MCExecutive == {"ana", "bob", "rec"}
MCDevice == {"da", "db", "dr"}
MCBootDevices ==
    [d \in MCDevice |->
       [status |-> "enrolled",
        owner |-> IF d = "da" THEN "ana" ELSE IF d = "db" THEN "bob" ELSE "rec",
        watermark |-> 0]]
MCBootExecutives == [x \in MCExecutive |-> "active"]

MCCeremony == {"A", "B"}
MCBootPackage == {"p", "q"}
MCPackageOwner == [p \in MCBootPackage |-> IF p = "p" THEN "ana" ELSE "rec"]

KeyObjects == MCExecutive \X {2, 3}
MCObject == (MCCeremony \X {0}) \cup KeyObjects
MCCeremonyObject == [c \in MCCeremony |-> <<c, 0>>]
MCKeyObject == [k \in KeyObjects |-> k]

Ev(id, type, actor, device, counter, base, object) ==
    [id |-> id, type |-> type, actor |-> actor, device |-> device,
     counter |-> counter, base |-> base, object |-> object,
     key |-> 1, intact |-> TRUE]

Performs(id, actor, device, counter, base, ceremony) ==
    Ev(id, "RECOVERY_PERFORMED", actor, device, counter, base, <<ceremony, 0>>)
Rotates(id, actor, device, counter, base, x, v) ==
    Ev(id, "KEY_ROTATED", actor, device, counter, base, <<x, v>>)

\* rec executes A and then B, for ana or bob; bob can execute B for rec.
RecoveryEvents ==
    {Performs("rec A", "rec", "dr", 1, 0, "A"),
     Rotates("rec ana 2", "rec", "dr", 2, 1, "ana", 2),
     Rotates("rec bob 2", "rec", "dr", 2, 1, "bob", 2),
     Performs("rec B", "rec", "dr", 3, 2, "B"),
     Rotates("rec ana 3", "rec", "dr", 4, 3, "ana", 3),
     Rotates("rec then ana 2", "rec", "dr", 4, 3, "ana", 2),
     Performs("bob B", "bob", "db", 1, 2, "B"),
     Rotates("bob rec 2", "bob", "db", 2, 3, "rec", 2),
     [Performs("forged", "bob", "db", 1, 2, "B") EXCEPT !.key = 0]}
=============================================================================
