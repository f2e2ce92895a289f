----------------------------- MODULE MCPkiService ------------------------------
(***************************************************************************)
(* Instances of PkiService for TLC: d1 is there from the start, d2 and d3  *)
(* may be enrolled, d2 by either of two executives.                        *)
(***************************************************************************)
EXTENDS PkiService, TLC

MCDevice == {"d1", "d2", "d3"}
MCExecutive == {"ana", "bob"}
MCObject == {"device d1", "device d2", "device d3"}
MCDeviceObject ==
    [d \in MCDevice |->
       IF d = "d1" THEN "device d1" ELSE IF d = "d2" THEN "device d2" ELSE "device d3"]

MCBootDevices ==
    [d \in MCDevice |->
       [status |-> IF d = "d1" THEN "enrolled" ELSE "absent", owner |-> "ana",
        watermark |-> 0]]
MCBootExecutives == [x \in MCExecutive |-> "active"]

Enrols(id, actor, device) ==
    [id |-> id, type |-> "DEVICE_ENROLLED", actor |-> actor, device |-> device,
     counter |-> 1, base |-> 0, object |-> MCDeviceObject[device],
     key |-> 1, intact |-> TRUE]

\* The hashes and ids of the rows are random.
Interchangeable == Permutations(Token) \cup Permutations(Challenge)

EnrolmentEvents ==
    {Enrols("ana d2", "ana", "d2"), Enrols("bob d2", "bob", "d2"),
     Enrols("bob d3", "bob", "d3"),
     [Enrols("forged", "ana", "d3") EXCEPT !.key = 0]}
=============================================================================
