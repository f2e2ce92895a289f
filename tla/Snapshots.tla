------------------------------- MODULE Snapshots -------------------------------
(***************************************************************************)
(* SnapshotWorker (server/src/snapshots/worker.ts): the read models and    *)
(* the head of the ledger, stored as one encrypted object with a signed    *)
(* row that names it.                                                      *)
(*                                                                         *)
(* createSnapshot does not await: it is one step, and finds the tables as  *)
(* the writers and the projection worker have left them.                   *)
(***************************************************************************)
EXTENDS Projections

CONSTANTS MaxSnapshots  \* BOUND: objects stored

ASSUME MaxSnapshotsAssumption == MaxSnapshots \in Nat

\* The decrypted body.  Ids are random, so the body stands for its object.
Body == [upTo : Nat, hash : Hash, applied : Nat,
         accounts : [Account -> AccountRow], cash : SUBSET CashRow,
         shown : SUBSET ConflictRow]

VARIABLES objects,   \* the object store
          snapshots  \* the rows of snapshots, as the bodies they name

snapshotVars == <<objects, snapshots>>

SnapshotTypeOK ==
    /\ objects \subseteq Body
    /\ snapshots \subseteq Body

SnapshotInit ==
    /\ objects = {}
    /\ snapshots = {}

\* The sequence of the head, 0 of an empty ledger.
UpToSequence == NextServerSequence - 1

\* Mutation: projection_watermark is the head's sequence, as if the worker had
\* always caught up.
BugSnapshotBody ==
    [upTo |-> UpToSequence, hash |-> PreviousLedgerHash, applied |-> UpToSequence,
     accounts |-> accounts, cash |-> cash, shown |-> shown]

\* buildSnapshotBody
SnapshotBody ==
    [upTo |-> UpToSequence, hash |-> PreviousLedgerHash, applied |-> applied,
     accounts |-> accounts, cash |-> cash, shown |-> shown]

PutObject ==
    /\ Cardinality(objects) < MaxSnapshots
    /\ objects' = objects \cup {SnapshotBody}

\* createSnapshot
CreateSnapshot ==
    /\ PutObject
    /\ snapshots' = snapshots \cup {SnapshotBody}
    /\ UNCHANGED <<store, projectionVars>>

\* The INSERT fails or the process dies: the object stays, and no row names it.
SnapshotInterrupted ==
    /\ PutObject
    /\ UNCHANGED <<store, projectionVars, snapshots>>

SnapshotNext == CreateSnapshot \/ SnapshotInterrupted

-----------------------------------------------------------------------------
(* Properties. *)

\* Conflicts by object and detecting row.
Pairs(rows) == {<<c.object, c.detected>> : c \in rows}

\* The conflicts that the first n rows of the ledger leave open: one of them
\* detected the conflict, and none of them was accepted on the object since.
OpenAfter(n) ==
    {p \in Pairs(conflicts) :
        /\ p[2] <= n
        /\ \A i \in DOMAIN ledger : i > p[2] /\ AcceptedOn(p[1], i) => i > n}

\* The accounts of whoever starts from body s and applies the later rows.
Bootstrapped(s) ==
    FoldLeft(Applied, s.accounts, SubSeq(ledger, s.applied + 1, Len(ledger)))

\* The clients "bootstrap from snapshot + tail events instead of replaying from
\* genesis" (SERVER_IMPLEMENTATION_PLAN.md, section 10).  A signed row names an
\* object that is stored, with the hash of the ledger at up_to_sequence; and the
\* tail that leads from its accounts to those of the whole ledger begins after
\* projection_watermark, wherever the worker, a rebuild that was left half-way
\* included, stood when the snapshot was made.  The tail after up_to_sequence,
\* which is the one the plan speaks of, does so only if the worker had caught
\* up; the conflicts that the body shows are then those of up_to_sequence too.
SnapshotsBootstrap ==
    \A s \in snapshots :
        /\ s \in objects
        /\ s.upTo <= Len(ledger)
        /\ s.hash = RecomputedHash(s.upTo)
        /\ s.applied <= s.upTo
        /\ IsFold(Bootstrapped(s), Len(ledger))
        /\ s.applied = s.upTo => Pairs(s.shown) = OpenAfter(s.upTo)
=============================================================================
