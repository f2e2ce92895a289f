--------------------------- MODULE AppenderRefinement ---------------------------
(***************************************************************************)
(* The two promises LedgerAppender keeps: AppendOnlyLedger towards whoever *)
(* holds an acknowledgement, and ObjectRegister towards whoever writes an  *)
(* object.                                                                 *)
(***************************************************************************)
EXTENDS LedgerAppender

\* The entry of a row is what its acknowledgement says.
Entries == [i \in DOMAIN ledger |-> RowAck(ledger[i])]

\* An acknowledgement without a sequence number names no entry.
Receipts == {a \in acks : a.seq # 0}

Promise == INSTANCE AppendOnlyLedger WITH log <- Entries, receipts <- Receipts

\* The base of the event that is the head of o.
HeadBase(o) == IF heads[o].seq = 0 THEN 0 ELSE ledger[heads[o].seq].event.base

\* That event is a resolution.
HeadResolves(o) ==
    heads[o].seq # 0 /\ ledger[heads[o].seq].event.type = "CONFLICT_RESOLVED"

Objects == INSTANCE ObjectRegister WITH
    Register <- Object,
    version <- [o \in Object |-> heads[o].seq],
    seen <- [o \in Object |-> HeadBase(o)],
    contested <- [o \in Object |-> heads[o].conflicted],
    settled <- [o \in Object |-> HeadResolves(o)]

\* Every step of the appender, with its crashes, retries and failures, is a
\* step of an append-only ledger or none.
ImplementsLedger == Promise!LedgerSpec

\* Every step of the appender writes, contests or resolves one object, as the
\* base of the request allows, or touches none.
ImplementsRegister == Objects!RegisterSpec
=============================================================================
