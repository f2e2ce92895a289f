---------------------------- MODULE MCVorcaroServer -----------------------------
(***************************************************************************)
(* Instances of VorcaroServer for TLC.  rec recovers ana in one ceremony   *)
(* or in two, so that her key is replaced; she enrols the device dn before *)
(* or after that, and may execute the second ceremony herself on it.       *)
(***************************************************************************)
EXTENDS VorcaroServer, TLC

MCDevice == {"da", "dr", "dn"}
MCExecutive == {"ana", "rec"}

MCOwner == [d \in MCDevice |-> IF d = "dr" THEN "rec" ELSE "ana"]
MCBootDevices ==
    [d \in MCDevice |->
       [status |-> IF d = "dn" THEN "absent" ELSE "enrolled", owner |-> MCOwner[d],
        watermark |-> 0]]
MCBootExecutives == [x \in MCExecutive |-> "active"]
MCDeviceOrder == [d \in MCDevice |-> IF d = "da" THEN 1 ELSE IF d = "dn" THEN 2 ELSE 3]

MCObject == {"device", "ceremony", "key"}
MCDeviceObject == [d \in MCDevice |-> "device"]
MCCeremonyObject == [c \in Ceremony |-> "ceremony"]
MCKeyObject == [k \in MCExecutive \X {2, 3} |-> "key"]
CeremoniesAlike == Permutations(Ceremony)
MCPackageOwner == [p \in {"p"} |-> "ana"]

Ev(id, type, device, counter, base, object, key) ==
    [id |-> id, type |-> type, actor |-> MCOwner[device], device |-> device,
     counter |-> counter, base |-> base, object |-> object,
     key |-> key, intact |-> TRUE]

(* All writers at once. *)

\* Corrupt is rejected for its payload, or because it comes with the certificate
\* of da; it then lowers the watermark of dr if Second came first.
Corrupt == [Ev("r1", "OBJECT_CHANGED", "dr", 1, 0, "device", 1) EXCEPT !.intact = FALSE]
Second == Ev("r2 too", "OBJECT_CHANGED", "dr", 2, 0, "device", 1)

\* Sent before dn is enrolled, while its owner is quarantined, or later: it is
\* refused each time, for another reason.
Forged == Ev("n0", "OBJECT_CHANGED", "dn", 1, 0, "device", 0)

\* With base 0, the first of ana's keys verifies unless it was replaced before
\* anything was recorded, and then the second one does.
Enrolments == {Ev("n1", "DEVICE_ENROLLED", "dn", 1, 0, "device", k) : k \in {1, 2}}

Recoveries == {Ev("r2", "RECOVERY_PERFORMED", "dr", 2, 0, "ceremony", 1),
               Ev("r3", "KEY_ROTATED", "dr", 3, 1, "key", 1)}
OwnRecovery == {Ev("n2", "RECOVERY_PERFORMED", "dn", 2, 4, "ceremony", 2),
                Ev("n3", "KEY_ROTATED", "dn", 3, 4, "key", 2)}

WriterEvents == {Corrupt, Second, Forged} \cup Enrolments \cup Recoveries \cup OwnRecovery
WriterRequests ==
    {[event |-> Corrupt, cert |-> d] : d \in {"da", "dr"}}
      \cup {[event |-> e, cert |-> e.device] : e \in {Second, Forged}}
WriterPolicy == [e \in WriterEvents |-> {"allow"}]

\* BOUND: what comes after Forged was refused is not explored.
ForgedIsLast == \A a \in acks : a.id # Forged.id

(* ana and rec write the object ("device", dn), and so does ana's enrolment. *)
ConflictEvents == {Ev("a1", "OBJECT_CHANGED", "da", 1, 0, "device", 1),
                   Ev("n1", "DEVICE_ENROLLED", "dn", 1, 0, "device", 1),
                   Second}
ConflictRequests == {[event |-> e, cert |-> e.device] : e \in ConflictEvents}
ConflictPolicy == [e \in ConflictEvents |-> {"allow"}]
=============================================================================
