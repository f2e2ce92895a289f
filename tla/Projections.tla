------------------------------ MODULE Projections ------------------------------
(***************************************************************************)
(* ProjectionWorker (server/src/projections/worker.ts): the read models of *)
(* projections.db, derived from the ledger batch by batch.                 *)
(*                                                                         *)
(* The worker is given the server's two connections and does not await, so *)
(* applyNextBatch is one step.  rebuildAll does not await either, but it   *)
(* commits several transactions, between which it may fail.                *)
(*                                                                         *)
(* Balances are left out: the worker writes 0 and never changes it.  So are *)
(* the tables that it never fills and the columns that are constant.       *)
(***************************************************************************)
EXTENDS LedgerStore, SequencesExt

CONSTANTS Account,         \* account ids; object ids are among them
          Group,           \* pairs (entity, currency)
          Opening,         \* the ACCOUNT_CREATED events
          Closing,         \* the ACCOUNT_CLOSED events
          accountOf,       \* policy_metadata.account_id, or else the object id
          groupOf,         \* policy_metadata.entity_id and .currency
          objectId,        \* the object_id of an object
          AccountObject,   \* the objects whose object_type is "account"
          Limits,          \* limits that applyNextBatch is called with
          RebuildLimit     \* 500: the limit of the batches of rebuildAll

ASSUME EventKindAssumption ==
    /\ Opening \subseteq Event
    /\ Closing \subseteq Event
    /\ Opening \cap Closing = {}
    /\ \A ev \in Opening \cup Closing : ev.type = "OBJECT_CHANGED"
ASSUME MetadataAssumption ==
    /\ accountOf \in [Event -> Account]
    /\ groupOf \in [Event -> Group]
    /\ Group # {}
    /\ objectId \in [Object -> Account]
    /\ AccountObject \subseteq Object
ASSUME LimitAssumption == Limits \cup {RebuildLimit} \subseteq Nat \ {0}

\* A row that does not exist has the status "absent".
AccountStatus == {"absent", "active", "closed"}
AccountRow == [status : AccountStatus, group : Group, asOf : Nat, conflicted : BOOLEAN]
CashRow == [group : Group, asOf : Nat]

VARIABLES accounts,    \* proj_accounts
          cash,        \* proj_cash_position
          shown,       \* proj_conflicts_open
          applied,     \* last_applied_sequence of proj_meta, 0 without a row
          rebuilding   \* rebuildAll is in its loop

projectionTables == <<accounts, cash, shown, applied>>
projectionVars == <<projectionTables, rebuilding>>

NoAccounts ==
    [a \in Account |-> [status |-> "absent", group |-> CHOOSE g \in Group : TRUE,
                        asOf |-> 0, conflicted |-> FALSE]]

ProjectionTypeOK ==
    /\ accounts \in [Account -> AccountRow]
    /\ cash \subseteq CashRow
    /\ shown \subseteq ConflictRow
    /\ applied \in Nat
    /\ rebuilding \in BOOLEAN

\* Mutation: proj_meta survives the clearing.
BugCleared ==
    /\ accounts' = NoAccounts
    /\ cash' = {}
    /\ shown' = {}
    /\ applied' = applied

\* The DELETEs of rebuildAll.
Cleared ==
    /\ accounts' = NoAccounts
    /\ cash' = {}
    /\ shown' = {}
    /\ applied' = 0

ProjectionInit ==
    /\ accounts = NoAccounts
    /\ cash = {}
    /\ shown = {}
    /\ applied = 0
    /\ rebuilding = FALSE

-----------------------------------------------------------------------------
(* What one event does to proj_accounts. *)

Present(rows) == {a \in Account : rows[a].status # "absent"}

\* upsertAccount: an account may be created again.
Opened(rows, row) ==
    [rows EXCEPT ![accountOf[row.event]] =
       [status |-> "active", group |-> groupOf[row.event], asOf |-> row.seq,
        conflicted |-> FALSE]]

\* Mutation: the row gets a status that no reader knows.
BugWithStatus(rows, a, seq) == [rows EXCEPT ![a].status = "ended", ![a].asOf = seq]

\* setAccountStatus, to "closed"
WithStatus(rows, a, seq) == [rows EXCEPT ![a].status = "closed", ![a].asOf = seq]

\* clearProjectionConflict
Unflagged(rows, o) ==
    IF o \in AccountObject THEN [rows EXCEPT ![objectId[o]].conflicted = FALSE] ELSE rows

\* Every branch of applyEvent asks for an accepted event.
TakesEffect(row) == row.status = "accepted"

\* applyEvent
Applied(rows, row) ==
    CASE TakesEffect(row) /\ row.event \in Opening -> Opened(rows, row)
      [] /\ TakesEffect(row)
         /\ row.event \in Closing
         /\ objectId[row.event.object] \in Present(rows) ->
            WithStatus(rows, objectId[row.event.object], row.seq)
      [] TakesEffect(row) /\ row.event.type = "CONFLICT_RESOLVED" ->
            Unflagged(rows, row.event.object)
      [] OTHER -> rows

-----------------------------------------------------------------------------
(* Batches. *)

\* readLedgerEventsAfter: ORDER BY server_sequence ASC LIMIT
EventsAfter(sequence, limit) ==
    LET later == {i \in DOMAIN ledger : ledger[i].seq > sequence}
        Place(i) == Cardinality({j \in later : ledger[j].seq <= ledger[i].seq})
    IN  [k \in 1..Min({limit, Cardinality(later)}) |->
           ledger[CHOOSE i \in later : Place(i) = k]]

\* Mutation: resolved conflicts are shown as well.
BugOpen == conflicts

Open == {c \in conflicts : c.status = "open"}

\* syncOpenConflicts: the flags of all accounts are written anew.
Flagged(rows) ==
    [a \in Account |->
       [rows[a] EXCEPT !.conflicted =
          /\ a \in Present(rows)
          /\ \E c \in Open : c.object \in AccountObject /\ objectId[c.object] = a]]

\* rebuildCashPosition
CashPosition(rows) ==
    LET open == {a \in Present(rows) : rows[a].status # "closed"}
    IN  {[group |-> g, asOf |-> Max({rows[a].asOf : a \in {b \in open : rows[b].group = g}})]
           : g \in {rows[a].group : a \in open}}

\* applyNextBatch
ApplyBatch(limit) ==
    LET batch == EventsAfter(applied, limit)
        rows == Flagged(FoldLeft(Applied, accounts, batch))
    IN  /\ accounts' = rows
        /\ cash' = CashPosition(rows)
        /\ shown' = Open
        /\ applied' = IF batch = <<>> THEN applied ELSE Last(batch).seq
        /\ rebuilding' = (rebuilding /\ batch # <<>>)
        /\ UNCHANGED store

ApplyNextBatch ==
    /\ ~rebuilding
    /\ \E limit \in Limits : ApplyBatch(limit)

\* rebuildAll clears all tables in a transaction of its own ...
StartRebuild ==
    /\ ~rebuilding
    /\ Cleared
    /\ rebuilding' = TRUE
    /\ UNCHANGED store

\* ... and applies batches until one is empty.
ContinueRebuild ==
    /\ rebuilding
    /\ ApplyBatch(RebuildLimit)

\* One of its transactions fails, or the process dies: it is left where it was.
RebuildStops ==
    /\ rebuilding
    /\ rebuilding' = FALSE
    /\ UNCHANGED <<store, projectionTables>>

ProjectionNext == ApplyNextBatch \/ StartRebuild \/ ContinueRebuild \/ RebuildStops

-----------------------------------------------------------------------------
(* Properties. *)

\* What the first n rows of the ledger say of account a, without the flag: it
\* is there since it was first created, with the group of its last creation,
\* and active or closed as the last row about it said.
FoldOf(a, n) ==
    LET Opens(i) == ledger[i].event \in Opening /\ accountOf[ledger[i].event] = a
        Closes(i) == ledger[i].event \in Closing /\ objectId[ledger[i].event.object] = a
        opened == {i \in 1..n : ledger[i].status = "accepted" /\ Opens(i)}
        about == {i \in 1..n : /\ ledger[i].status = "accepted"
                               /\ Opens(i) \/ Closes(i)
                               /\ \E first \in opened : first <= i}
    IN  IF opened = {} THEN <<"absent">>
        ELSE <<IF Opens(Max(about)) THEN "active" ELSE "closed",
               groupOf[ledger[Max(opened)].event], Max(about)>>

AccountState(row) ==
    IF row.status = "absent" THEN <<"absent">> ELSE <<row.status, row.group, row.asOf>>

IsFold(rows, n) == \A a \in Account : AccountState(rows[a]) = FoldOf(a, n)

\* SERVER_IMPLEMENTATION_PLAN.md: "projections are cache, the ledger is truth".
\* However the ledger was cut into batches, and whatever was rebuilt, failed or
\* resumed, the accounts are what the applied prefix of the ledger says.
AccountsAreFold == applied <= Len(ledger) /\ IsFold(accounts, applied)

\* Conflicts are copied from the ledger as it is, ahead of the batch; but once
\* the worker has caught up, the copy and the flags of the accounts are exact.
CaughtUpShowsConflicts ==
    applied = Len(ledger) =>
        /\ shown = {c \in conflicts : c.status = "open"}
        /\ \A a \in Account : accounts[a].conflicted <=>
              /\ accounts[a].status # "absent"
              /\ \E c \in shown : c.object \in AccountObject /\ objectId[c.object] = a
=============================================================================
