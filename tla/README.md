# Vorcaro Ledger: specification and proofs

TLA+ models of the Vorcaro ledger server (`src/server`): how client events enter
the ledger, which policy decides on them, how devices are enrolled and revoked,
how signing keys are recovered, how the read models and snapshots follow the
ledger, and how the process that does all this starts, limits its clients and
ends. TLC checks the models on small instances; TLAPS proves every safety property
that a passing run checks for every value of the constants: of each service alone,
of the three writers of the ledger together, and of the read side on top of a
growing ledger.

Paths below are relative to `src/server/src` unless they say otherwise. The
tables are those of `src/server/migrations/ledger/0001_initial.sql`.

## 1. Inventory

The server is one Node process with one SQLite connection to `ledger.db` and one
to `projections.db`. JavaScript runs one synchronous piece at a time, and
`node:sqlite` is synchronous, so a method without `await` is atomic with respect
to every other one. What interleaves is what lies between two `await`s, what
arrives over the network, and the death of the process.

| Component | State it keeps | Operations | Correct when |
|---|---|---|---|
| LedgerAppender (`ledger/appender.ts`) | `ledger_events`, `object_heads`, `conflicts`, `devices.max_event_counter`; the promise `tail` in memory | `append`, `appendBatch`, `drain` | the chain is gapless and verifies, no event or counter is recorded twice, heads and flags agree with rows and conflicts, no write overwrites one its writer had not seen, a signed acknowledgement stays true, every call ends |
| device API (`api/device-api.ts`, `identity.ts`) | none | `POST /v1/events`, enrolment, reads | a call is identified before it submits; one call's events stay in counter order |
| PkiService (`pki/enrollment.ts`) | `enrollment_tokens`, `enrollment_challenges`, `devices`, `revocation_list_versions`, a ledger row per enrolment | issue token, begin and complete enrolment, revoke | each device has one piece of evidence, revocation is for good, the newest list is complete |
| certificate authority (`pki/authority.ts`) | the revocation log, a file | issue, revoke | it knows every device the tables call revoked |
| RecoveryService (`recovery/service.ts`) | `recovery_ceremonies`, `recovery_approvals`, `executive_keys`, `key_packages`, two ledger rows per ceremony | initiate, approve, execute | key windows follow each other, each rotation is approved and recorded, packages follow keys, old rows stay verifiable |
| PolicyEngine, PolicyService (`policy/`) | `policies` | evaluate, activate | a policy row comes from an accepted event; what takes effect is within the policy of its time; the tables explain each decision |
| ProjectionWorker (`projections/worker.ts`) | `projections.db`, `proj_meta.last_applied_sequence` | apply a batch, rebuild | incremental application equals a rebuild |
| SnapshotWorker (`snapshots/worker.ts`) | `snapshots`, an object store | create | the hash is that of `up_to_sequence`; the accounts are those of the watermark in the body, from which the rows of the ledger lead to its present |
| runtime (`main.ts`) | the lock directory, `shuttingDown`, signal handlers | start, shutdown | one owner at a time; the lock is left behind only by an owner that died and taken from nobody; shutdown waits for requests only |
| rate limiter (`api/rate-limit.ts`) | a bucket per key | one per request | never more than `capacity` and the refill in any window; "Retry-After: 1" is kept |
| audit log (`api/audit.ts`) | `audit_log` | one hash-chained INSERT | the chain verifies; entries and effects go together |
| KMS, schemas, canonical form, cryptography | none the properties depend on | computations | tested as functions |

Who calls whom: the device API calls the appender's `appendBatch` and the
enrolment half of PkiService; the admin API calls PkiService, RecoveryService and
PolicyService; PolicyService calls the appender. PkiService and RecoveryService
do **not** call the appender. They repeat its statements and append rows
themselves, outside its queue. `main.ts` wires all of them except
RecoveryService, which `createAdminApiApp` takes as an option.

What is hard: batches of different calls interleave request by request; the
replay watermark goes down when a rejected row has a smaller counter;
`object_heads` is a hand-maintained cache of two other tables; three writers
share the chain; keys change while events signed with them are under way; two
ceremonies can be open for one executive; the certificate authority's log is
written inside, but not by, the transaction; a policy is activated by an event
and a row that no transaction holds together; the clock of the limiter may be set
back; a second signal overtakes a shutdown; the process may die anywhere.
`PROJECT.json` lists each of these hazards at its line with the properties that
cover it.

## 2. Modules

| Module | Models |
|---|---|
| `LedgerStore` | the shared tables, the SELECTs and INSERTs all writers use, and the invariants of those tables |
| `LedgerAppender` | `appender.ts` and the HTTP calls that use it |
| `PkiService` | `pki/enrollment.ts` and the revocation log of `pki/authority.ts` |
| `RecoveryService` | `recovery/service.ts` |
| `VorcaroServer` | the three writers on one store, extending `AppenderRefinement` and instantiating the two services |
| `PolicyEngine` | `policy/engine.ts` as operators: what a document says of an event |
| `PolicyService` | `policy/service.ts` and the `policies` table, extending `LedgerAppender` |
| `RateLimit` | `api/rate-limit.ts` |
| `Runtime` | `main.ts`: processes, the lock, signals and requests, extending `RateLimit` |
| `AppendOnlyLedger`, `ObjectRegister` | abstract: what the server promises to who holds an acknowledgement, and to who writes an object |
| `AppenderRefinement` | the mappings under which `LedgerAppender` implements both |
| `Projections` | `projections/worker.ts`: the read models of `projections.db` |
| `Snapshots` | `snapshots/worker.ts`, on top of `Projections` |
| `Reporting` | the appender, the projection worker and the snapshot worker together, extending `LedgerAppender` and `Snapshots` |
| `MC...` | instances of `LedgerAppender`, `PkiService`, `RecoveryService`, `VorcaroServer`, `PolicyService` and `Reporting` for TLC; `Runtime` is run as it is |
| `LedgerStoreProofs` | lemmas about the shared tables: what an INSERT, two of them, and a replaced key do |
| `LedgerAppenderProofs`, `PolicyServiceProofs`, `PkiServiceProofs`, `RecoveryServiceProofs`, `VorcaroServerProofs`, `ReportingProofs`, `RuntimeProofs` | the theorems; the refinements of the appender are in the first, the limiter is in the last |

### How state and actions correspond to the code

*LedgerStore.* `ledger` holds the rows of `ledger_events` in insertion order,
with `server_sequence` as a field of its own, so that gaplessness is a property
and not built in. `heads`, `conflicts`, `devices`, `executives` and `keys` are
the tables of those names. A row of `devices` that does not exist has the status
`absent`. Abstractions: a signature is the version of the key that made it (0 if
none of the server's keys verifies it), a hash is the content it commits to, a
certificate is the device it was issued to. `OBJECT_CHANGED` stands for every
event type the server does not treat specially. Timestamps, payloads and risk
scores are left out.

*LedgerAppender.* `queue` is the work chained on `tail`, `pending[c]` what HTTP
call `c` still has to get answered. `Submit` is `POST /v1/events` up to the first
`append`; `SubmitOne` is the append that `activatePolicy` makes; `Serve` runs one `appendNow` to its end, with one action for each way
out of it (`AnswerDuplicate`, `RejectCertificate`, ..., `Accept`), each including
the whole transaction of `appendValidatedEvent` or its rollback; `Continue` is
the loop of `appendBatch` after an answer; `WorkFails` is any other exception;
`Crash` loses the queue and the calls and keeps the tables, which SQLite makes
durable. The policy engine is a nondeterministic outcome for each event; which
one it is, `PolicyService` says.

*PolicyEngine* has no variables. A field that may be absent is a set of at most
one value. Amounts are integers, an exchange rate is the fraction that
`parseExchangeRate` makes of its decimals, and the id of a snapshot is what it is
a hash of. `Evaluate` is `evaluate`, its exception included.

*PolicyService.* `ActivatePolicy` is `activatePolicy` up to its `await`,
`InsertPolicy` the rest of it, `InsertFails` the violation of a key or a failure
of the storage. `append` hands out the promise of the work itself, so the
continuation is due as soon as the event is served and before anything else is:
while `resuming` is not empty only these two and a crash are possible.
`ServeUnderPolicy` is `Serve` with the outcome the active policy gives.
`PolicySpec` implements the `Spec` of `LedgerAppender` with the same variables.

*RateLimit.* A bucket that does not exist is a full one. Tokens are counted in
parts of a tick's refill, so that the arithmetic is exact; the rounding of the
floating-point numbers in the code is left out. `ClockStepsBack` is the wall
clock being set back. `WindowBegins` starts a window of observation, in which
`admitted` and `elapsed` count.

*Runtime.* `phase` is how far each process is. The constructor is synchronous and
runs before the handlers are installed, so a signal finds none (`DefaultAction`).
`ShutDown` is `shutdown()` up to its second `await`: the first, `drain`, awaits
nothing that waits for a network. `ExitWhileClosing` is the other signal during a
shutdown, `CloseFails` a signal before the servers listen. `ConstructorFails`
releases the lock and leaves the process, and its database handles, there until
`ProcessEnds`; in between another process may become the owner. `open` counts the
connections with a request under way, `idle` those kept alive after an answer.
`ShutDown` ends the idle ones; the others stay and may bring further requests
(`Occupies`), which the limiter of the process lets in or refuses.

*PkiService.* One action per method. `audit` holds what the entries of the audit
log say: within the transaction for enrolment and revocation (`AuditWithin`), as
a statement of its own for tokens and challenges (`AuditAlone`), which a call may
not reach. `Expire` is the clock passing
`expires_at`. `RevocationInterrupted` is the one method failure that leaves a
trace: the authority's log is written and the transaction is not committed.

*RecoveryService.* One action per method. The key a ceremony brings is named by
the version it becomes; an approval records the version of the custodian's key
that signed it.

*VorcaroServer* has the appender's variables and its next-state relation, and
instantiates PkiService and RecoveryService with the tables they share with it. A
step is one of the three writers.

*Projections.* `accounts`, `cash`, `shown` and `applied` are `proj_accounts`,
`proj_cash_position`, `proj_conflicts_open` and the watermark of `proj_meta`.
`ApplyNextBatch` is one call, with any of the limits in `Limits`; `StartRebuild`
and `ContinueRebuild` are the transactions of `rebuildAll`, which nothing else
interrupts, and `RebuildStops` is its failure between two of them. Conflicts are
copied from the ledger as it is, even if the batch ends earlier. Balances and the
columns that never vary are left out.

*Snapshots.* `CreateSnapshot` is `createSnapshot`; `SnapshotInterrupted` is the
object stored without its row. A row is identified with the body it was made for.

*Reporting* lets the appender, the projection worker and the snapshot worker take
turns. `main.ts` does not start the two workers: they are exported, and take the
two connections that the server has opened, so they run in its process and their
methods, which do not await, are atomic.

`acks` collects every acknowledgement the server has signed. It is a history
variable: no guard reads it. Definitions named `Bug...` are plausible faults of
the definition that follows them; they are used by no specification and show
which property would notice the fault.

*AppendOnlyLedger* and *ObjectRegister* are written without the code in view.
Under the mapping of `AppenderRefinement`, the entry of a row is what its
acknowledgement says, a receipt is an acknowledgement with a sequence number, the
version of a register is the sequence of the object's head, and it is contested
while the head is flagged. The second promise is the appender's alone: enrolment
and recovery take no notice of base sequences or conflicts. The first is kept by
all three writers (`WritersImplementLedger` of `VorcaroServer`).

## 3. What is checked

Runs that pass:

| Run | Instance | Shows |
|---|---|---|
| `appender_conflicts` | 2 calls, batches of 2, one object, 2 executives, crash, an INSERT that fails | flags and conflicts agree; no lost update; acknowledgements stay true; a flagged head moves only by a resolution; an object is a register with optimistic concurrency; `CallsSettle` |
| `policies` | 3 policies, two with one id; payments half a minor unit above a limit and a minor unit below a threshold; crash | `PoliciesAreActivated`, `EffectsWithinPolicy`, `AuditReproducesDecisions`, `ImplementsAppender` |
| `pki_enrollment` | 2 tokens, 2 challenges, 3 devices, 3 revocations | `DevicesHaveEvidence`, `RevokedForGood`, `RevocationListsAreComplete`, `CaKnowsRevoked`, `AuditMatchesTables` |
| `recovery_ceremonies` | 2 ceremonies, 3 custodians, threshold 2, 2 packages | `AuthorityWindows`, `RotationsAreRecorded`, `PackagesFollowKeys`, `SignaturesStayVerifiable` |
| `server_writers` | one call at a time, one enrolment, two recoveries of one executive, the second perhaps by herself, one revocation, crash; checks of `appendNow` that fail | `RowsUnique`, `EffectsAreVerified`, `ChainIntact`, `HeadsAreLatest`, `OnlySelfRecoveryOutdates`, `RevokedForGood` with three writers on one chain, which is an append-only ledger |
| `runtime` | 2 processes, 2 signals, one client, a bucket of 2 | `ExclusiveOwner`, `LockAccountedFor`, `ShutdownAwaitsOnlyRequests`, `AdmissionBounded`, `RetryAfterSuffices` |
| `reporting` | one account opened, contested, closed and opened again; batches of 1 and 2, rebuilds that fail, one snapshot | `AccountsAreFold`, `CaughtUpShowsConflicts`, `SnapshotsBootstrap` |

Runs that show a disagreement between the documents and the code (details under
"findings" in `PROJECT.json`):

| Run | Document | Code |
|---|---|---|
| `appender_watermark` | non-increasing counters are rejected | a rejected row lowers the watermark, and a smaller counter is then accepted |
| `pki_tokens` | tokens are one-time | two challenges begun with one token enrol two devices |
| `recovery_approvals` | execution verifies the approval signatures | execution reads the stored status |
| `server_conflicts` | only a resolution clears the conflict flag | an enrolment clears it and leaves the conflict open |
| `server_self_recovery` | events signed before a revocation remain valid | the target of a second ceremony executes it herself, and the two rows that record it no longer verify |

`server_conflicts` is why `ConflictFlagged`, `ConflictsAccountedFor` and `NoLostUpdate`
are properties of the appender alone and are not repeated in `server_writers`:
an enrolment or a recovery takes no notice of conflicts or of the base sequence.

`AccountsAreFold` compares the worker's tables with a definition that looks at
the whole applied prefix at once, so it does not depend on where batches end.
It speaks of the accounts and the watermark; of the cash position no property does.
`SnapshotsBootstrap` is what a client may rely on: the rows after the watermark in
the body lead from the accounts of the body to those of the ledger.

`OnlySelfRecoveryOutdates` is the strongest form of "events signed before
revocation remain valid" (`PLAN.md:334`) that the code keeps. In `server_writers`
the second ceremony may be executed by its target, so the exception is reached;
`server_self_recovery` is the same instance with the property as the document has
it.

`EffectsWithinPolicy` states what a policy permits with exact fractions and by
quantifiers, and so independently of the arithmetic and of the order of checks in
`Evaluate`. `AuditReproducesDecisions` has one exception, which the code needs: an
activation whose INSERT failed and that is repeated gets the acknowledgement of
the old row, so the policy claims a place in the ledger before decisions that
were taken without it.

Some behaviour of the code shows in the models and contradicts no property, or
no document precise enough for a run of its own:

* A rejected event of an unknown device (`appender.ts:134`) or with a replayed
  counter (149) gets an acknowledgement and no row, although
  `SERVER_IMPLEMENTATION_PLAN.md:218` says that rejections are appended too.
* An activation with the id or version of an existing policy fails after its
  event was accepted; the ledger then announces a policy that is not in force.
  The event names the id and not the content: after a failed INSERT the same
  event activates another document with that id.
* Activating a lower version than the active one has no effect. A rule that
  requires approvals for `POLICY_CHANGED` leaves every later activation pending.
* `COMMON_TYPES.md:303` has a threshold apply when the amount exceeds it; the
  code (`engine.ts:92`) applies it from equality on.
* `SERVER_IMPLEMENTATION_PLAN.md:389-392` has a snapshot fold the ledger up to
  `up_to_sequence` and clients continue with the tail events;
  `APP_IMPLEMENTATION_PLAN.md:215` has them verify the manifest, which carries
  `up_to_sequence` and no watermark. `up_to_sequence` is the head of the ledger
  (`snapshots/worker.ts:159`), and the accounts may be older: a client that
  continues after `up_to_sequence` misses the rows in between unless the
  projection worker had caught up. The watermark is in the encrypted body, and
  continuing after it is right (`SnapshotsBootstrap`). That the documents' reading
  fails can be seen with its mutant, which labels the body with the head.
* A client that stalls in a request, or never pauses, keeps a shutdown from its
  end: `close` stops the timer that enforces `headersTimeout` and
  `requestTimeout` (`listeners.ts:24-25`). The lock then stays until Docker's
  `SIGKILL` and after it, although `DOCKER_OPERATIONS.md:97` says that `SIGTERM`
  releases it.
* A constructor that fails releases the lock while the databases are still open
  (`main.ts:102-105`); until the process is gone, another one may open them.
* The second of the two signals during a shutdown exits at once, with the
  databases open and the lock in place, although `DOCKER_OPERATIONS.md:97` has
  the server release the lock on `SIGTERM`. A port in use leaves the lock too.

### Bounds

* `MaxBatch` bounds the events of one submission. Two is enough for a request of
  another call to come between them and for the sort to matter.
* `MaxRevocations` bounds the versions of the revocation list and the calls that
  fail before one is written. Three let each device of the instance be revoked.
* `MaxUnaudited` bounds the calls that end between a row and its audit entry. It
  is 0 in the runs where nothing depends on the audit log.
* `LastInstant`, `MaxElapsed` and `MaxOpen` bound the clock, the length of a
  window and the connections. Three ticks of half a second let the bucket run
  empty and refill in a window, the clock step back over a refusal and a full
  second pass after it; with two connections one can be idle while a shutdown
  waits for the other.
* In `policies` there is one call at a time, and `SubmitOne` asks that nothing of
  it be pending, so activations come between calls and never inside a batch.
* In `server_writers` two ceremonies for one executive let her be recovered,
  enrol a device and execute the other one. `ForgedIsLast` cuts a behaviour after
  the answer to the one event that is always refused; what a rejected row does to
  later ones is explored with another event (`Corrupt`).
* The set `Event` bounds the ledger, because an event is recorded once. The
  instances choose events so that every branch is taken: stale and fresh bases,
  a challenge, a second challenge and a resolution of one object, wrong keys,
  broken payloads, wrong actors, and a counter two writers want.
* `Limits` and `RebuildLimit` (500 in the code) are 1 and 2, so that batches end
  inside the history; `MaxSnapshots` is 1, since a snapshot changes nothing else.
* Two ceremonies are enough for both orders of two rotations of one executive,
  and for a custodian to be recovered between approval and execution.

Symmetry is used only for the hashes of tokens and the ids of challenges and
ceremonies, which are never compared for order, and only in runs without
liveness.

### Fairness

`LiveSpec` assumes weak fairness of `Continue(c)` and `Serve(c)`: a promise
reaction that is due runs. It assumes nothing of clients (`Submit`), of failures
(`WorkFails`) or of crashes. A client or device that never acts is no
counterexample to anything claimed here. `LiveRuntimeSpec` assumes weak fairness
of `IdleEnds(p)` and `FinishShutdown(p)`: the socket timer of `keepAliveTimeout`
fires, which `close` does not stop, and the callbacks of `close` run. Nothing is
assumed of requests: their timeouts are not enforced while the servers close, and
a client may keep one under way for ever. Docker ends that with a `SIGKILL` after
30 s (`stop_grace_period`), which `Kill` models without promising it.
The specifications of the two services
assume no fairness, and none of their properties is a liveness property: what
they offer is done at a caller's request.

## 4. What is proved

All theorems hold for every value of the constants under the assumptions that the
modules state on them:

* everywhere, events and requests are of their types, the boot tables are rows,
  `MaxBatch` is positive and policy outcomes are outcomes;
* `PolicyService`: an event id names one event, the appender allows every outcome,
  and the versions and amounts of documents are integers (`policyDocumentSchema`);
* `PkiService`: no device is revoked at the start (`BootRevocationAssumption`),
  since `revokeDevice` is what revokes and writes a list with it;
* `RecoveryService`: finitely many custodians, all executives, and a threshold
  between one and their number, which the constructor enforces; finitely many
  ceremonies;
* `Projections`: an event opens an account, closes one or does neither, there is a
  group, and batch limits are positive;
* `RateLimit`: capacity, rate and ticks per second are positive integers.

| Module | `Spec =>` |
|---|---|
| `LedgerAppenderProofs` | `TypeOK`, `ChainIntact`, `RowsUnique`, `HeadsAreLatest`, `ConflictFlagged`, `NoLostUpdate`, `AcksPinLedger`, `ConflictsAccountedFor`, `ConflictFreezesHead`; `ImplementsLedger` (the append-only ledger), `ImplementsRegister` (the registers) |
| `PolicyServiceProofs` | `ImplementsAppender`, and through it `NoLostUpdate`; `PoliciesAreActivated`, `EffectsWithinPolicy`, `AuditReproducesDecisions` |
| `PkiServiceProofs` | `TypeOK`, `RevocationListsAreComplete`, `CaKnowsRevoked`, `RevokedForGood`, `DevicesHaveEvidence`, `AuditMatchesTables` |
| `RecoveryServiceProofs` | `TypeOK`, `ChainIntact`, `AuthorityWindows`, `PackagesFollowKeys`, `RotationsAreRecorded`, `SignaturesStayVerifiable` |
| `VorcaroServerProofs` | `ChainIntact`, `RowsUnique`, `HeadsAreLatest`, `AcksPinLedger`, `EffectsAreVerified`, `OnlySelfRecoveryOutdates`, `RevokedForGood`, `WritersImplementLedger` |
| `ReportingProofs` | `Spec` of the appender, `ReportingTypeOK`, `AccountsAreFold`, `CaughtUpShowsConflicts`, `SnapshotsBootstrap` |
| `RuntimeProofs` | `AdmissionBounded`, `RetryAfterSuffices` of the limiter; `ExclusiveOwner`, `LockAccountedFor`, `RateSpec`, and through it `AdmissionBounded` |

The refinements form chains: `PolicySpec` and `ReportingSpec` implement `Spec` of
the appender, which implements the abstract ledger and the registers; `ServerSpec`
implements the abstract ledger; `RuntimeSpec` implements `RateSpec`.

*The appender.* Most invariants are not inductive alone, and are proved in two
layers.

1. `CoreInv` is `TypeOK`, `ChainIntact` and `QueueSound`. `ChainIntact` makes
   `MAX(server_sequence) + 1` equal to `Len(ledger) + 1` and the latest row the
   one with the last index (`LedgerStoreProofs`), which is what turns the SELECTs
   into facts about the sequence. `QueueSound` is needed because `Serve` takes
   the head of `pending[c]`: without it a step could serve a request that does
   not exist.
2. `ObjectInv` is `RowsUnique`, `HeadsAreLatest`, `ConflictFlagged` and
   `NoLostUpdate`. An accepted write is based on the head; `HeadsAreLatest` says
   that the head is the latest accepted row, so the write had seen them all.
   `ConflictsAccountedFor` needs all of it: the conflict names the head of the
   time, found by event id, which `RowsUnique` makes unambiguous.

Every way an `appendNow` ends changes the tables in one of two ways: not at all,
or by one committed row. The step lemmas are stated for these two and cited by
one step per action. `AcksPinLedger` follows because rows are only appended.

*The refinements of the appender.* A step appends at most one row and changes no
other, and by `AcksPinLedger` each new receipt is one of the rows after it: a step
of the append-only ledger. A committed row changes the head of one object only,
and the guard of the branch that committed it is that of `Write`, `Contest` or
`Resolve`; `HeadsAreLatest` says that the head moves forward.

*Policies.* A verdict is an outcome, and the branch that obeys it is a branch of
`AppendNow`; activation is `SubmitOne`, and the INSERT changes none of the
appender's variables. `PoliciesAreActivated` needs that the row whose INSERT is
due names an accepted event of the policy's object, and that accepted rows stay.
For `EffectsWithinPolicy` the arithmetic of the engine is the matter: it divides
rounding up, and a lemma says that an amount which is within an integral limit
after rounding was so before (`RoundingIsExact`). Each of the checks in `Evaluate` is then shown to
entail its clause of what the policy permits. `AuditReproducesDecisions` needs
`JudgedInv`: with each policy row stands the length of the ledger when it was
inserted (`after`), and the policies that judged row `i` are those of the highest
version inserted before it. Rows of policies are only added, with an `after` that
is the present length, so no later activation changes what judged earlier rows.

*PkiService.* `CoreInv` adds to types and chain that tokens and challenges are
keyed by their hashes and ids, that both tables are finite, and that a consumed
challenge has a consumed token of the same owner (`RowsKeyed`): replacing a row is
then replacing one row. `DevicesHaveEvidence` is proved device by device: a step
enrols the device, in which case it had neither rows nor used challenges before,
or leaves what the property says of it (`DeviceStays`). `AuditInv` strengthens
`AuditMatchesTables`: the log says nothing of tokens, challenges and lists that are
still to come, so a new one is unrecorded, and the number of those without an
entry is the number of calls that ended in between.

*RecoveryService.* `WindowsInv` adds to `AuthorityWindows` where the windows are in
the ledger: the first begins with it, and each later one two rows before its end
at the latest. So the window of a key that is replaced ends after it began, and
the rows that record older keys stay where they are looked for. `ApprovalsInv`
makes counting approvals counting custodians, each of whom approves once.
`SignaturesStayVerifiable` rests on one lemma: a replacement at head `n` changes
the selection of keys for nobody but the target, and for her from base `n` on. A
recorded row with a base below its own sequence is below `n`; the two new rows are
not the target's, because all her devices were quarantined when the ceremony began
and nothing here enrols another (`TargetsLockedOut`).

*The three writers.* None of them goes through another's code, so what each relies
on must be kept by the others. A step of the server is one of the appender, whose
lemmas are cited, or leaves ledger, heads and acknowledgements alone
(`Unrecorded`), or records one enrolment (`EnrolmentRecorded`), or the two rows of
a recovery (`RecoveryRecorded`); the rest of the proof speaks of these and no
longer of the services. `ServerInv` adds to the appender's invariant
`RowsHaveDevices`, that whoever wrote a row has an entry in `devices`: an enrolment
does not check counters, and its row is unique because the device is new.
`TargetsLockedOut` is false here, since a target who is active again can enrol a
device while a second ceremony for her is open. `OnlySelfRecoveryOutdates` needs no
hypothesis in its place: a replacement at head `n` changes the selection of keys
for its target only, and for her from base `n` on. A row with a base below its own
sequence is below `n` or one of the two rows of the recovery itself; if those are
the target's, they are the two that `ReplacesKeyOf` names, and stay so, because the
windows of keys keep where they begin. `EffectsAreVerified` speaks of owners as
they are now and of any key the actor has had: no writer changes the owner of a
device with rows, and keys are only added.

*Reporting.* `AccountsAreFold` says of the tables what a definition that looks at
the whole prefix says; the worker computes with `FoldLeft`. That the one is the
other is an induction over the length of a batch. The induction rules of the
library take an operator as parameter, which the provers cannot instantiate;
`SetInduction` takes a set instead and is proved from the well-foundedness of the
naturals. `FoldGoesRowByRow` gets from it what `FoldLeft` computes (its recursion
over sets of positions has a solution, `FoldsInto`), and `FoldOfNextRow` that one
row more changes the definition as `Applied` changes the tables. A batch is the
rows that follow the watermark (`BatchIsNextRows`), hence `BatchIsFolded`. For the
writer's steps the ledger only grows (`LedgerGrows`), and what is said of a prefix
of it stays as it is (`FoldIsStable`). A snapshot keeps what was true of its body
(`BodyHolds`), and the tail of the ledger is folded like a batch (`TailIsFolded`),
which together give `SnapshotsBootstrap`; for the conflicts it shows,
`ConflictsAccountedFor` says that an open conflict is one since which nothing was
accepted (`OpenAreLeftOpen`).
`CaughtUpShowsConflicts` needs `ConflictsAccountedFor` of the appender: a rebuild
clears its tables, and where the ledger is empty there is no conflict to show.

*The limiter.* `AdmissionBounded` is not inductive: a clock set back makes the
time after it count again. The invariant is the budget
`admitted * Second + Available`, what the bucket would hold now included, which
is at most `Full + RefillPerSecond * elapsed` whatever the clock does. For
`RetryAfterSuffices` the invariant says that since the first refusal the bucket
has been kept up to date, so that a refused retry loses nothing.

*The runtime.* `OwnerInv` adds only types to the two properties: that connections
belong to a process which serves or closes is part of `ExclusiveOwner`, and what a
failed constructor does later touches nobody else's lock. A step of the runtime
changes the limiter as a step of `RateNext` does, or not at all.

Only model-checked: `CallsSettle` and `ShutdownAwaitsOnlyRequests`, which are
liveness under fairness and out of this prover's reach. `AcksPinLedger` of the
server is proved and not among the properties of its runs; `WritersImplementLedger`,
which is, entails it in part.

## 5. What is not modelled

The audit entries of services other than PkiService, the read routes of the two
APIs, cryptography, schemas, canonical encoding, the KMS, TLS listeners, database
migrations, the admin page and the deployment scripts are left out: they keep no
state that the properties speak of. SQLite is trusted to make transactions atomic
and durable. `checkpoints` and `ai_insights` have no writer in the repository.

A ceremony that is initiated and never executed leaves its devices quarantined
(`recovery/service.ts:165`); nothing in the code ends it, and no property speaks
of it.

A few consequences of the models' shape. The recovery policy is a constant, so a
restart with another threshold is not modelled. `SignaturesStayVerifiable`
concerns rows whose base is an earlier row's sequence; the code does not compare
`base_server_sequence` with the head, and a row with a base beyond the head may
select another key after a rotation. Event ids are assumed distinct in `PolicyService`
only. `appendNow` does not await, so in the wired server the requests of one
batch are served before the next callback of the network; the models let other
calls in between, which is the weaker assumption. The HTTP route for activation
cannot carry integers beyond JavaScript's, which the documents of `PolicyService`
may have.

## 6. Plan

Done: everything in section 2, and the proofs of section 4. Next, in this order:

1. An abstract specification "the projection is a function of a prefix of the
   ledger" that `Projections` implements, and the cash position as such a function.
2. `AuthorityWindows`, `RotationsAreRecorded` and `PackagesFollowKeys` of the
   server: the other writers append rows between the rotations.
3. `DevicesHaveEvidence` of the server: the appender writes no enrolment rows if
   no request of a client is one, which the code does not check.

To run everything:

    tlc -workers 2 -config <run>.cfg <module>
    tlapm <module>Proofs.tla
