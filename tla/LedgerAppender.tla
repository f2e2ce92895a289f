---------------------------- MODULE LedgerAppender -----------------------------
(***************************************************************************)
(* LedgerAppender (server/src/ledger/appender.ts) and the HTTP calls that  *)
(* use it: POST /v1/events and, through PolicyService, the activation of a *)
(* policy.                                                                 *)
(*                                                                         *)
(* append() chains appendNow behind the promise `tail`, so requests are    *)
(* served first in, first out, one appendNow at a time.  appendNow does    *)
(* not await: it is one atomic step.  appendBatch sorts its requests and   *)
(* chains each one only after the one before it was answered, so the       *)
(* requests of other calls come between those of a batch.                  *)
(*                                                                         *)
(* A caller is one HTTP call.  pending[c] holds the requests it has still  *)
(* to have answered; the first one is in the queue, or is about to be.     *)
(***************************************************************************)
EXTENDS LedgerStore

CONSTANTS Caller,         \* HTTP calls in progress at the same time, at most
          Requests,       \* requests that may be submitted
          MaxBatch,       \* BOUND: events in one submission
          PolicyOutcomes  \* what the policy engine may answer for each event

Request == [event : Event, cert : Device]

\* "mismatch": the engine throws an error that carries an ErrorCode.
PolicyOutcome == {"allow", "deny", "require_approvals", "mismatch"}

ASSUME RequestAssumption == Requests \subseteq Request
ASSUME BatchAssumption == MaxBatch \in Nat \ {0}
ASSUME OutcomeAssumption == PolicyOutcomes \in [Event -> SUBSET PolicyOutcome]

VARIABLES queue,    \* the work chained on `tail`: Seq(Caller)
          pending,  \* pending[c]: requests of call c not yet answered
          acks      \* every acknowledgement the server has signed (history)

callVars == <<queue, pending>>
vars == <<store, queue, pending, acks>>

TypeOK ==
    /\ StoreTypeOK
    /\ queue \in Seq(Caller)
    /\ pending \in [Caller -> Seq(Requests)]
    /\ acks \subseteq Ack

Init ==
    /\ StoreInit
    /\ queue = <<>>
    /\ pending = [c \in Caller |-> <<>>]
    /\ acks = {}

-----------------------------------------------------------------------------
(* HTTP calls. *)

InQueue(c) == \E i \in DOMAIN queue : queue[i] = c

\* createIdentityMiddleware: the certificate is that of an enrolled device of
\* an active executive.  It is not compared with the event's device.
Identified(cert) ==
    /\ devices[cert].status = "enrolled"
    /\ executives[devices[cert].owner] = "active"

Submissions == UNION {[1..n -> Requests] : n \in 1..MaxBatch}

\* The sort of appendBatch is stable: equal requests keep their places.  The
\* order among devices is any fixed one; deviceOrder is that order.
CONSTANT deviceOrder
ASSUME OrderAssumption == deviceOrder \in [Device -> Nat]

Precedes(batch, i, j) ==
    LET l == batch[i].event
        r == batch[j].event
    IN  \/ deviceOrder[l.device] < deviceOrder[r.device]
        \/ /\ deviceOrder[l.device] = deviceOrder[r.device]
           /\ \/ l.counter < r.counter
              \/ l.counter = r.counter /\ i < j

\* appendBatch: the submission as it is worked through.
Ordered(batch, work) ==
    \E place \in [DOMAIN batch -> DOMAIN batch] :
        /\ \A i, j \in DOMAIN batch : i < j => Precedes(batch, place[i], place[j])
        /\ work = [i \in DOMAIN batch |-> batch[place[i]]]

\* POST /v1/events: all requests of a call come through one certificate.
Submit(c) ==
    /\ pending[c] = <<>>
    /\ ~InQueue(c)
    /\ \E batch \in Submissions :
        /\ \A i \in DOMAIN batch : batch[i].cert = batch[1].cert
        /\ Identified(batch[1].cert)
        /\ \E work \in [DOMAIN batch -> Requests] :
            /\ Ordered(batch, work)
            /\ pending' = [pending EXCEPT ![c] = work]
    /\ queue' = Append(queue, c)
    /\ UNCHANGED <<store, acks>>

\* PolicyService.activatePolicy: one request, with whatever certificate the
\* administrator names.
SubmitOne(c, r) ==
    /\ pending[c] = <<>>
    /\ ~InQueue(c)
    /\ pending' = [pending EXCEPT ![c] = <<r>>]
    /\ queue' = Append(queue, c)
    /\ UNCHANGED <<store, acks>>

\* The loop of appendBatch goes on to its next request.
Continue(c) ==
    /\ pending[c] # <<>>
    /\ ~InQueue(c)
    /\ queue' = Append(queue, c)
    /\ UNCHANGED <<store, pending, acks>>

-----------------------------------------------------------------------------
(* How one appendNow ends. *)

Answer(c, ack) ==
    /\ acks' = acks \cup {ack}
    /\ pending' = [pending EXCEPT ![c] = Tail(@)]
    /\ queue' = Tail(queue)

\* Mutation: an exception leaves `tail` rejected, so nothing behind it runs.
BugThrow(c) ==
    /\ pending' = pending
    /\ queue' = queue
    /\ UNCHANGED <<store, acks>>

\* An exception rejects the whole call; `tail` swallows it.
Throw(c) ==
    /\ pending' = [pending EXCEPT ![c] = <<>>]
    /\ queue' = Tail(queue)
    /\ UNCHANGED <<store, acks>>

\* Mutation: the refusal is signed with a status no reader knows.
BugNonAppended(c, ev, error) ==
    /\ Answer(c, [id |-> ev.id, status |-> "refused", seq |-> 0,
                  hash |-> <<>>, error |-> error])
    /\ UNCHANGED store

\* signNonAppendedAck
NonAppended(c, ev, error) ==
    /\ Answer(c, [id |-> ev.id, status |-> "rejected", seq |-> 0,
                  hash |-> <<>>, error |-> error])
    /\ UNCHANGED store

\* updateDeviceWatermark
MoveWatermark(ev) == [devices EXCEPT ![ev.device].watermark = ev.counter]

\* Mutation: a new conflict does not name the head it challenges.
BugOpenedConflict(ev, seq) ==
    conflicts \cup {[object |-> ev.object, events |-> {ev.id}, detected |-> seq,
                     status |-> "open", resolution |-> {}]}

\* openConflict: the head, the open conflict's events and this one.
OpenedConflict(ev, seq) ==
    IF OpenConflicts(ev.object) = {}
    THEN conflicts \cup
           {[object |-> ev.object, events |-> HeadEventIds(ev.object) \cup {ev.id},
             detected |-> seq, status |-> "open", resolution |-> {}]}
    ELSE {IF c \in OpenConflicts(ev.object)
          THEN [c EXCEPT !.events = @ \cup HeadEventIds(ev.object) \cup {ev.id}]
          ELSE c : c \in conflicts}

\* resolveConflict
ResolvedConflict(ev) ==
    {IF c \in OpenConflicts(ev.object)
     THEN [c EXCEPT !.status = "resolved", !.resolution = {ev.id}]
     ELSE c : c \in conflicts}

\* Mutation: an accepted resolution leaves its conflict open.
BugConflictsAfter(ev, seq, status) ==
    IF status = "conflicted" THEN OpenedConflict(ev, seq) ELSE conflicts

\* updateConflictState
ConflictsAfter(ev, seq, status) ==
    IF status = "conflicted" THEN OpenedConflict(ev, seq)
    ELSE IF status = "accepted" /\ ev.type = "CONFLICT_RESOLVED"
    THEN ResolvedConflict(ev)
    ELSE conflicts

\* updateObjectHead
HeadsAfter(ev, seq, status) ==
    CASE status = "accepted" ->
            [heads EXCEPT ![ev.object] = [seq |-> seq, conflicted |-> FALSE]]
      [] status = "conflicted" -> [heads EXCEPT ![ev.object].conflicted = TRUE]
      [] OTHER -> heads

\* What the transaction of appendValidatedEvent writes.
Commit(ev, status, error) ==
    /\ ledger' = Append(ledger, NewRow(ev, status, error))
    /\ devices' = MoveWatermark(ev)
    /\ conflicts' = ConflictsAfter(ev, NextServerSequence, status)
    /\ heads' = HeadsAfter(ev, NextServerSequence, status)
    /\ UNCHANGED <<executives, keys>>

\* appendValidatedEvent: a constraint that fails rolls the transaction back
\* and the exception reaches the caller.
AppendValidatedEvent(c, ev, status, error) ==
    \/ /\ Insertable(ev)
       /\ Commit(ev, status, error)
       /\ Answer(c, RowAck(NewRow(ev, status, error)))
    \/ /\ ~Insertable(ev)
       /\ Throw(c)

-----------------------------------------------------------------------------
(* The checks of appendNow, in their order. *)

IsNew(r) == r.event.id \notin RowIds
DeviceKnown(r) == devices[r.event.device].status # "absent"

CertificateValid(r) ==
    /\ r.cert = r.event.device
    /\ devices[r.event.device].status = "enrolled"

ActorActive(r) ==
    /\ devices[r.event.device].owner = r.event.actor
    /\ executives[devices[r.event.device].owner] = "active"

CounterFresh(r) == r.event.counter > devices[r.event.device].watermark

Authorized(r) == IsNew(r) /\ DeviceKnown(r) /\ CertificateValid(r) /\ ActorActive(r)

\* Mutation: the payload hash is not compared.
BugVerified(r) == Authorized(r) /\ CounterFresh(r) /\ SignatureVerifies(r.event)

Verified(r) ==
    /\ Authorized(r)
    /\ CounterFresh(r)
    /\ SignatureVerifies(r.event)
    /\ r.event.intact

\* The policy let the event through: only the object's state can stop it now.
Allowed(r) == Verified(r) /\ "allow" \in PolicyOutcomes[r.event]

Resolves(r) == r.event.type = "CONFLICT_RESOLVED"

ConflictIsOpen(o) == heads[o].conflicted /\ OpenConflicts(o) # {}

\* Mutation: off by one, a write based on the head before the last is not stale.
BugIsStale(r) == r.event.base < heads[r.event.object].seq - 1

IsStale(r) == r.event.base < heads[r.event.object].seq

-----------------------------------------------------------------------------
(* appendNow: one action per way out of it. *)

\* Mutation: a resubmitted event is answered as a rejected duplicate.
BugAnswerDuplicate(c, r) ==
    /\ ~IsNew(r)
    /\ \E i \in DOMAIN ledger :
        /\ ledger[i].event.id = r.event.id
        /\ Answer(c, [RowAck(ledger[i]) EXCEPT !.status = "rejected"])
    /\ UNCHANGED store

AnswerDuplicate(c, r) ==
    /\ ~IsNew(r)
    /\ \E i \in DOMAIN ledger :
        /\ ledger[i].event.id = r.event.id
        /\ Answer(c, RowAck(ledger[i]))
    /\ UNCHANGED store

AnswerUnknownDevice(c, r) ==
    /\ IsNew(r)
    /\ ~DeviceKnown(r)
    /\ NonAppended(c, r.event, "CERT_UNKNOWN")

RejectCertificate(c, r) ==
    /\ IsNew(r)
    /\ DeviceKnown(r)
    /\ ~CertificateValid(r)
    /\ AppendValidatedEvent(c, r.event, "rejected", "CERT_REVOKED")

RejectActor(c, r) ==
    /\ IsNew(r)
    /\ DeviceKnown(r)
    /\ CertificateValid(r)
    /\ ~ActorActive(r)
    /\ AppendValidatedEvent(c, r.event, "rejected", "EXECUTIVE_INACTIVE")

AnswerReplay(c, r) ==
    /\ Authorized(r)
    /\ ~CounterFresh(r)
    /\ NonAppended(c, r.event, "REPLAY_COUNTER")

RejectSignature(c, r) ==
    /\ Authorized(r)
    /\ CounterFresh(r)
    /\ ~SignatureVerifies(r.event)
    /\ AppendValidatedEvent(c, r.event, "rejected", "BAD_SIGNATURE")

RejectPayload(c, r) ==
    /\ Authorized(r)
    /\ CounterFresh(r)
    /\ SignatureVerifies(r.event)
    /\ ~r.event.intact
    /\ AppendValidatedEvent(c, r.event, "rejected", "BAD_PAYLOAD_HASH")

RejectByPolicy(c, r) ==
    /\ Verified(r)
    /\ \/ /\ "deny" \in PolicyOutcomes[r.event]
          /\ AppendValidatedEvent(c, r.event, "rejected", "POLICY_DENIED")
       \/ /\ "mismatch" \in PolicyOutcomes[r.event]
          /\ AppendValidatedEvent(c, r.event, "rejected", "POLICY_VERSION_MISMATCH")

ParkForApproval(c, r) ==
    /\ Verified(r)
    /\ "require_approvals" \in PolicyOutcomes[r.event]
    /\ AppendValidatedEvent(c, r.event, "pending", "APPROVALS_REQUIRED")

RefuseResolution(c, r) ==
    /\ Allowed(r)
    /\ Resolves(r)
    /\ ~ConflictIsOpen(r.event.object)
    /\ AppendValidatedEvent(c, r.event, "rejected", "CONFLICT")

AcceptResolution(c, r) ==
    /\ Allowed(r)
    /\ Resolves(r)
    /\ ConflictIsOpen(r.event.object)
    /\ AppendValidatedEvent(c, r.event, "accepted", "none")

RefuseWhileConflicted(c, r) ==
    /\ Allowed(r)
    /\ ~Resolves(r)
    /\ heads[r.event.object].conflicted
    /\ AppendValidatedEvent(c, r.event, "rejected", "POLICY_DENIED")

DetectConflict(c, r) ==
    /\ Allowed(r)
    /\ ~Resolves(r)
    /\ ~heads[r.event.object].conflicted
    /\ IsStale(r)
    /\ AppendValidatedEvent(c, r.event, "conflicted", "CONFLICT")

\* Mutation: a write to a flagged object is accepted when it is not stale.
BugAccept(c, r) ==
    /\ Allowed(r)
    /\ ~Resolves(r)
    /\ ~IsStale(r)
    /\ AppendValidatedEvent(c, r.event, "accepted", "none")

Accept(c, r) ==
    /\ Allowed(r)
    /\ ~Resolves(r)
    /\ ~heads[r.event.object].conflicted
    /\ ~IsStale(r)
    /\ AppendValidatedEvent(c, r.event, "accepted", "none")

AppendNow(c, r) ==
    \/ AnswerDuplicate(c, r)
    \/ AnswerUnknownDevice(c, r)
    \/ RejectCertificate(c, r)
    \/ RejectActor(c, r)
    \/ AnswerReplay(c, r)
    \/ RejectSignature(c, r)
    \/ RejectPayload(c, r)
    \/ RejectByPolicy(c, r)
    \/ ParkForApproval(c, r)
    \/ RefuseResolution(c, r)
    \/ AcceptResolution(c, r)
    \/ RefuseWhileConflicted(c, r)
    \/ DetectConflict(c, r)
    \/ Accept(c, r)

Serve(c) ==
    /\ queue # <<>>
    /\ Head(queue) = c
    /\ AppendNow(c, Head(pending[c]))

\* Any other exception in appendNow: the storage fails, or a counter or base
\* is not a safe integer.  Nothing is committed.
WorkFails(c) ==
    /\ queue # <<>>
    /\ Head(queue) = c
    /\ Throw(c)

\* The process dies.  What was committed is durable (WAL, synchronous = FULL);
\* calls in progress get no answer.
Crash ==
    /\ queue' = <<>>
    /\ pending' = [c \in Caller |-> <<>>]
    /\ UNCHANGED <<store, acks>>

Next ==
    \/ \E c \in Caller : Submit(c) \/ Continue(c) \/ Serve(c) \/ WorkFails(c)
    \/ \E c \in Caller, r \in Requests : SubmitOne(c, r)
    \/ Crash

Spec == Init /\ [][Next]_vars

\* Promise reactions run: chained work is served and the batch loop goes on.
\* Nothing obliges a client to submit, a request to fail or the process to die.
LiveSpec == Spec /\ \A c \in Caller : WF_vars(Continue(c)) /\ WF_vars(Serve(c))

-----------------------------------------------------------------------------
(* Properties. *)

\* What the server signed stays true: the row an acknowledgement names holds
\* the outcome and the hash it was given, across retries, crashes and restarts.
AcksPinLedger ==
    \A a \in acks : a.seq # 0 =>
        /\ a.seq \in DOMAIN ledger
        /\ a = RowAck(ledger[a.seq])

\* The queue holds exactly one entry for each call it holds, and that call
\* still has a request to serve: no appendNow runs without one.
QueueSound ==
    /\ \A i \in DOMAIN queue : pending[queue[i]] # <<>>
    /\ \A i, j \in DOMAIN queue : queue[i] = queue[j] => i = j

\* While an object is flagged, its head moves only by an accepted
\* CONFLICT_RESOLVED event, which also lowers the flag.
ConflictFreezesHead ==
    [][\A o \in Object :
          heads[o].conflicted /\ heads'[o] # heads[o] =>
             /\ ~heads'[o].conflicted
             /\ ledger'[heads'[o].seq].event.type = "CONFLICT_RESOLVED"]_vars

\* Every call ends: it is answered or fails, whatever other calls do and
\* whatever their requests throw (append: `tail` swallows the error).
CallsSettle == \A c \in Caller : pending[c] # <<>> ~> pending[c] = <<>>

\* PLAN.md: "The server rejects non-increasing counters".
AcceptedCountersIncrease ==
    \A i, j \in DOMAIN ledger :
        /\ i < j
        /\ ledger[i].event.device = ledger[j].event.device
        /\ ledger[i].status = "accepted"
        /\ ledger[j].status = "accepted"
        => ledger[i].event.counter < ledger[j].event.counter
=============================================================================
