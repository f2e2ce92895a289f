----------------------------- MODULE ObjectRegister -----------------------------
(***************************************************************************)
(* What the server promises of the objects of the ledger: each one is a    *)
(* register with optimistic concurrency.  A write that has not seen the    *)
(* current version contests it instead, and a contested register is frozen *)
(* until someone resolves it.                                              *)
(***************************************************************************)
EXTENDS Integers

CONSTANT Register

VARIABLES version,    \* the current version of each register, 0 before the first
          seen,       \* the version its writer had seen
          contested,  \* whether somebody wrote without having seen it
          settled     \* whether the current version is a resolution

registers == <<version, seen, contested, settled>>

RegisterInit ==
    /\ version = [x \in Register |-> 0]
    /\ seen = [x \in Register |-> 0]
    /\ contested = [x \in Register |-> FALSE]
    /\ settled = [x \in Register |-> FALSE]

\* x gets a new version.
NewVersion(x) == version'[x] > version[x] /\ ~contested'[x]

\* A write is accepted from a writer who had seen the current version.
Write(x) ==
    /\ ~contested[x]
    /\ NewVersion(x)
    /\ ~settled'[x]
    /\ seen'[x] >= version[x]

Contest(x) ==
    /\ ~contested[x]
    /\ contested'[x]
    /\ version[x] > 0
    /\ UNCHANGED <<version[x], seen[x], settled[x]>>

\* The resolution may be based on any version.
Resolve(x) ==
    /\ contested[x]
    /\ NewVersion(x)
    /\ settled'[x]

Untouched(x) == UNCHANGED <<version[x], seen[x], contested[x], settled[x]>>

RegisterNext ==
    \E x \in Register :
        /\ Write(x) \/ Contest(x) \/ Resolve(x)
        /\ \A y \in Register \ {x} : Untouched(y)

RegisterSpec == RegisterInit /\ [][RegisterNext]_registers
=============================================================================
