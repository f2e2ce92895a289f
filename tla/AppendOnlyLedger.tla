---------------------------- MODULE AppendOnlyLedger ----------------------------
(***************************************************************************)
(* What the server promises of its ledger, whoever writes it: entries are  *)
(* added and never changed, no event has two of them, and a receipt is     *)
(* given only for an entry that is already there.                          *)
(***************************************************************************)

VARIABLES log,      \* the entries, a sequence of records with a field id
          receipts  \* the entries that somebody holds a receipt of

LedgerInit == log = <<>> /\ receipts = {}

\* Entries are added at the end, and those that were there stay as they are.
Extends ==
    /\ DOMAIN log \subseteq DOMAIN log'
    /\ \A i \in DOMAIN log : log'[i] = log[i]

OneEntryEach == \A i, j \in DOMAIN log : log[i].id = log[j].id => i = j

\* A receipt may be given again, is never taken back, and says what is recorded.
Issue ==
    /\ receipts \subseteq receipts'
    /\ \A r \in receipts' \ receipts : \E i \in DOMAIN log' : r = log'[i]

LedgerNext == Extends /\ OneEntryEach' /\ Issue

LedgerSpec == LedgerInit /\ [][LedgerNext]_<<log, receipts>>
=============================================================================
