------------------------------ MODULE VorcaroServer ------------------------------
(***************************************************************************)
(* The writers of ledger.db in one process: LedgerAppender, PkiService and *)
(* RecoveryService share one connection and append to one chain.  Each of  *)
(* them keeps its own copy of the statements that do so, and the two       *)
(* services do not go through the appender's queue: their steps fall       *)
(* between any two of it.                                                  *)
(*                                                                         *)
(* server/src/main.ts wires the first two; a RecoveryService is an option  *)
(* of the admin API (createAdminApiApp) that main.ts does not pass yet, so *)
(* the recovery steps are those of a server that is given one.             *)
(***************************************************************************)
EXTENDS AppenderRefinement

CONSTANTS Token, Challenge, deviceObject, MaxRevocations, MaxUnaudited,
          Ceremony, Custodian, RequiredApprovals, BootPackage, packageOwner,
          ceremonyObject, keyObject

\* Custodians are executives: RecoveryService looks their keys up.
ASSUME CustodianAssumption == Custodian \subseteq Executive

VARIABLES tokens, challenges, revocations, caRevoked, audit, unaudited,
          ceremonies, packages

Pki == INSTANCE PkiService
Recovery == INSTANCE RecoveryService

pkiTables == <<tokens, challenges, revocations, caRevoked, audit, unaudited>>
recoveryTables == <<ceremonies, packages>>
serverVars == <<vars, pkiTables, recoveryTables>>

ServerInit == Init /\ Pki!Init /\ Recovery!Init

AppenderStep == Next /\ UNCHANGED <<pkiTables, recoveryTables>>
PkiStep == Pki!Next /\ UNCHANGED <<callVars, recoveryTables>>
RecoveryStep == Recovery!Next /\ UNCHANGED <<callVars, pkiTables>>

ServerNext == AppenderStep \/ PkiStep \/ RecoveryStep

ServerSpec == ServerInit /\ [][ServerNext]_serverVars

-----------------------------------------------------------------------------
(* Properties. *)

\* Together the three writers are an append-only ledger: none of them changes
\* what another one recorded or signed, or records an event twice.
WritersImplementLedger == ImplementsLedger

\* PLAN.md: "Events signed before revocation remain valid", whichever writer
\* recorded them and whoever is recovered.
SignaturesStayVerifiable == Recovery!SignaturesStayVerifiable

\* Row i is one of the two that follow the head at which the window of a key of x
\* begins: they record the ceremony that brought the key.
ReplacesKeyOf(x, i) ==
    \E v \in DOMAIN keys[x] \ {1} : i \in {keys[x][v].from + 1, keys[x][v].from + 2}

\* Keys are replaced while events signed with the old ones are on their way and
\* in the ledger.  Every row that took effect stays verifiable, except the two by
\* which an executive executed a ceremony for herself: executeCeremony does not
\* exclude its target, who is active again once an earlier ceremony is executed.
OnlySelfRecoveryOutdates ==
    \A i \in DOMAIN ledger :
        /\ ledger[i].status # "rejected"
        /\ ledger[i].event.base < i
        => \/ SignatureVerifies(ledger[i].event)
           \/ ReplacesKeyOf(ledger[i].event.actor, i)

\* Neither an enrolment nor a recovery brings a revoked device back.
RevokedForGood == Pki!RevokedForGood

\* SERVER_IMPLEMENTATION_SUMMARY.md: "only an accepted signed
\* `CONFLICT_RESOLVED` event clears `object_heads.conflicted`".
OnlyResolutionsUnflag ==
    [][\A o \in Object :
          heads[o].conflicted /\ ~heads'[o].conflicted =>
             ledger'[heads'[o].seq].event.type = "CONFLICT_RESOLVED"]_serverVars
=============================================================================
