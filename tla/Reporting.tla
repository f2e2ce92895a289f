------------------------------- MODULE Reporting -------------------------------
(***************************************************************************)
(* The read side of the server: the appender writes the ledger, the        *)
(* projection worker follows it, and the snapshot worker stores what the   *)
(* other two have left.                                                    *)
(***************************************************************************)
EXTENDS LedgerAppender, Snapshots

readVars == <<projectionVars, snapshotVars>>
reportingVars == <<vars, readVars>>

ReportingInit == Init /\ ProjectionInit /\ SnapshotInit

\* Nothing else of the process runs while rebuildAll does.
WriterStep == ~rebuilding /\ Next /\ UNCHANGED readVars
WorkerStep == ProjectionNext /\ UNCHANGED <<callVars, acks, snapshotVars>>
SnapshotStep == ~rebuilding /\ SnapshotNext /\ UNCHANGED <<callVars, acks>>

ReportingNext == WriterStep \/ WorkerStep \/ SnapshotStep

ReportingSpec == ReportingInit /\ [][ReportingNext]_reportingVars

\* The type invariants of the writer and the workers hold together.
ReportingTypeOK == TypeOK /\ ProjectionTypeOK /\ SnapshotTypeOK
=============================================================================
