------------------------- MODULE LedgerAppenderProofs --------------------------
(***************************************************************************)
(* Theorems about LedgerAppender, for every set of devices, executives,    *)
(* objects, events, requests and callers.                                  *)
(*                                                                         *)
(* TypeOK is not inductive by itself: the sequence of the next row is a    *)
(* maximum over the rows, and serving a call reads the first of its        *)
(* requests.  CoreInv adds what those two reads rest on.                   *)
(*                                                                         *)
(* At the end the two refinements: LedgerAppender implements an append-only*)
(* ledger and, for each object, a register with optimistic concurrency.  A *)
(* step that touches the ledger at all appends one justified row           *)
(* (StepWrites), and the acknowledgement names it (AcksPinLedger).         *)
(***************************************************************************)
EXTENDS AppenderRefinement, LedgerStoreProofs

CoreInv == TypeOK /\ ChainIntact /\ QueueSound

-----------------------------------------------------------------------------
(* What a step of the appender may write. *)

\* What every verdict but a rejection rests on.
Vouched(ev) ==
    /\ devices[ev.device].owner = ev.actor
    /\ ev.intact
    /\ ev.key \in DOMAIN keys[ev.actor]

\* The verdicts of appendNow.  Only a verified event is not rejected.  An accepted
\* event resolves the open conflict of its object, or is based on the head of an
\* object that is not flagged; a conflicted one is based on less than that head.
Justified(ev, status) ==
    /\ status # "rejected" => Vouched(ev) /\ SignatureVerifies(ev)
    /\ status = "accepted" =>
         \/ ev.type = "CONFLICT_RESOLVED" /\ ConflictIsOpen(ev.object)
         \/ /\ ev.type # "CONFLICT_RESOLVED"
            /\ ~heads[ev.object].conflicted
            /\ ev.base >= heads[ev.object].seq
    /\ status = "conflicted" =>
         /\ ev.type # "CONFLICT_RESOLVED"
         /\ ~heads[ev.object].conflicted
         /\ ev.base < heads[ev.object].seq

Writes(c) ==
    \E ev \in Event, status \in DecidedStatus, error \in ErrorCode :
        /\ Insertable(ev)
        /\ Justified(ev, status)
        /\ Commit(ev, status, error)
        /\ Answer(c, RowAck(NewRow(ev, status, error)))

\* Answers that write nothing: the outcome of a row already there, or a
\* refusal that names no row.
Repeats(c) ==
    /\ UNCHANGED store
    /\ \E ack \in Ack :
        /\ Answer(c, ack)
        /\ ack.seq = 0 \/ \E i \in DOMAIN ledger : ack = RowAck(ledger[i])

\* The request that is served is a submitted one.
LEMMA ServedRequest ==
    ASSUME CoreInv, NEW c \in Caller, queue # <<>>, Head(queue) = c
    PROVE  /\ pending[c] # <<>>
           /\ Head(pending[c]) \in Requests
           /\ Head(pending[c]).event \in Event
<1>1. 1 \in DOMAIN queue /\ queue[1] = c
  BY DEF CoreInv, TypeOK
<1>2. pending[c] # <<>> /\ pending[c] \in Seq(Requests)
  BY <1>1 DEF CoreInv, TypeOK, QueueSound
<1>3. Head(pending[c]) \in Requests
  BY <1>2
<1> QED
  BY <1>2, <1>3, RequestAssumption DEF Request

\* appendNow throws, repeats or refuses without writing, or writes one
\* justified row: there is no other way out.
LEMMA AppendNowOutcomes ==
    ASSUME CoreInv, NEW c \in Caller, NEW r \in Requests, AppendNow(c, r)
    PROVE  Throw(c) \/ Repeats(c) \/ Writes(c)
<1> DEFINE Outcome == Throw(c) \/ Repeats(c) \/ Writes(c)
<1>1. /\ r.event \in Event /\ r.event.base \in Nat /\ r.event.object \in Object
      /\ r.event.id \in EventId
  BY RequestAssumption, EventAssumption DEF Request, ClientEvent, EventId
<1>2. heads[r.event.object].seq \in Nat /\ ledger \in Seq(Row)
  BY <1>1 DEF CoreInv, TypeOK, StoreTypeOK, HeadRow
<1>3. ASSUME NEW status \in DecidedStatus, NEW error \in ErrorCode,
             Justified(r.event, status),
             AppendValidatedEvent(c, r.event, status, error)
      PROVE  Outcome
  BY <1>1, <1>3 DEF AppendValidatedEvent, Writes
<1>4. ASSUME NEW error \in ErrorCode, NonAppended(c, r.event, error)
       PROVE  Outcome
  <2>1. [id |-> r.event.id, status |-> "rejected", seq |-> 0,
         hash |-> <<>>, error |-> error] \in Ack
    BY <1>1 DEF Ack, DecidedStatus, Hash
  <2> QED
    BY <1>4, <2>1 DEF NonAppended, Repeats
<1>5. /\ Justified(r.event, "rejected")
      /\ Vouched(r.event) /\ SignatureVerifies(r.event) => Justified(r.event, "pending")
  BY DEF Justified
<1>20. Verified(r) => Vouched(r.event) /\ SignatureVerifies(r.event)
  <2>1. SignatureVerifies(r.event) => r.event.key \in ValidKeys(r.event.actor, r.event.base)
    BY <1>1, SelectedKeyIsValid DEF CoreInv, TypeOK
  <2> QED
    BY <2>1 DEF Verified, Authorized, ActorActive, Vouched, ValidKeys
<1>6. CASE AnswerDuplicate(c, r)
  <2>1. \A row \in Row : RowAck(row) \in Ack
    BY DEF RowAck, Ack, Row, EventId
  <2>2. \A i \in DOMAIN ledger : ledger[i] \in Row
    BY <1>2
  <2> QED
    BY <1>6, <2>1, <2>2 DEF AnswerDuplicate, Repeats
<1>7. CASE AnswerUnknownDevice(c, r)
  BY <1>7, <1>4 DEF AnswerUnknownDevice, ErrorCode
<1>8. CASE RejectCertificate(c, r)
  BY <1>3, <1>5, <1>8 DEF RejectCertificate, DecidedStatus, ErrorCode
<1>9. CASE RejectActor(c, r)
  BY <1>3, <1>5, <1>9 DEF RejectActor, DecidedStatus, ErrorCode
<1>10. CASE AnswerReplay(c, r)
  BY <1>10, <1>4 DEF AnswerReplay, ErrorCode
<1>11. CASE RejectSignature(c, r)
  BY <1>3, <1>5, <1>11 DEF RejectSignature, DecidedStatus, ErrorCode
<1>12. CASE RejectPayload(c, r)
  BY <1>3, <1>5, <1>12 DEF RejectPayload, DecidedStatus, ErrorCode
<1>13. CASE RejectByPolicy(c, r)
  BY <1>3, <1>5, <1>13 DEF RejectByPolicy, DecidedStatus, ErrorCode
<1>14. CASE ParkForApproval(c, r)
  BY <1>3, <1>5, <1>14, <1>20 DEF ParkForApproval, DecidedStatus, ErrorCode
<1>15. CASE RefuseResolution(c, r)
  BY <1>3, <1>5, <1>15 DEF RefuseResolution, DecidedStatus, ErrorCode
<1>16. CASE AcceptResolution(c, r)
  <2>1. Justified(r.event, "accepted")
    BY <1>16, <1>20 DEF AcceptResolution, Allowed, Resolves, Justified
  <2> QED
    BY <1>3, <1>16, <2>1 DEF AcceptResolution, DecidedStatus, ErrorCode
<1>17. CASE RefuseWhileConflicted(c, r)
  BY <1>3, <1>5, <1>17 DEF RefuseWhileConflicted, DecidedStatus, ErrorCode
<1>18. CASE DetectConflict(c, r)
  <2>1. Justified(r.event, "conflicted")
    BY <1>18, <1>20 DEF DetectConflict, Allowed, Resolves, IsStale, Justified
  <2> QED
    BY <1>3, <1>18, <2>1 DEF DetectConflict, DecidedStatus, ErrorCode
<1>19. CASE Accept(c, r)
  <2>1. Justified(r.event, "accepted")
    BY <1>1, <1>2, <1>19, <1>20 DEF Accept, Allowed, Resolves, IsStale, Justified
  <2> QED
    BY <1>3, <1>19, <2>1 DEF Accept, DecidedStatus, ErrorCode
<1> QED
  BY <1>6, <1>7, <1>8, <1>9, <1>10, <1>11, <1>12, <1>13, <1>14, <1>15, <1>16,
     <1>17, <1>18, <1>19 DEF AppendNow

\* Every step either writes one justified row or leaves the tables alone.
LEMMA StepWrites ==
    ASSUME CoreInv, [Next]_vars
    PROVE  UNCHANGED store \/ \E c \in Caller : Writes(c)
<1>1. CASE UNCHANGED vars
  BY <1>1 DEF vars
<1>2. CASE Crash
  BY <1>2 DEF Crash
<1>3. ASSUME NEW c \in Caller, Submit(c) \/ Continue(c) \/ WorkFails(c)
      PROVE  UNCHANGED store
  BY <1>3 DEF Submit, Continue, WorkFails, Throw
<1>4. ASSUME NEW c \in Caller, Serve(c)
      PROVE  UNCHANGED store \/ Writes(c)
  BY <1>4, ServedRequest, AppendNowOutcomes DEF Serve, Throw, Repeats
<1>5. ASSUME NEW c \in Caller, NEW r \in Requests, SubmitOne(c, r)
      PROVE  UNCHANGED store
  BY <1>5 DEF SubmitOne
<1> QED
  BY <1>1, <1>2, <1>3, <1>4, <1>5 DEF Next

-----------------------------------------------------------------------------
(* Type correctness and the chain. *)

\* The events of a conflict are ids of events.
LEMMA ConflictsKeepType ==
    ASSUME StoreTypeOK, NEW ev \in Event, NEW seq \in Nat, NEW status \in DecidedStatus
    PROVE  ConflictsAfter(ev, seq, status) \subseteq ConflictRow
<1>1. ev.id \in EventId /\ ev.object \in Object
  BY EventAssumption DEF EventId, ClientEvent
<1>2. HeadEventIds(ev.object) \subseteq EventId
  <2>1. \A i \in DOMAIN ledger : ledger[i].event.id \in EventId
    <3>1. \A i \in DOMAIN ledger : ledger[i] \in Row
      BY DEF StoreTypeOK
    <3> QED
      BY <3>1 DEF Row, EventId
  <2> QED
    BY <2>1 DEF HeadEventIds
<1>3. OpenedConflict(ev, seq) \subseteq ConflictRow
  <2>1. CASE OpenConflicts(ev.object) = {}
    <3>1. HeadEventIds(ev.object) \cup {ev.id} \in SUBSET EventId
      BY <1>1, <1>2
    <3>2. [object |-> ev.object, events |-> HeadEventIds(ev.object) \cup {ev.id},
           detected |-> seq, status |-> "open", resolution |-> {}] \in ConflictRow
      BY <1>1, <3>1 DEF ConflictRow
    <3> QED
      BY <2>1, <3>2 DEF OpenedConflict, StoreTypeOK
  <2>2. CASE OpenConflicts(ev.object) # {}
    <3>1. \A c \in conflicts : c \in ConflictRow
      BY DEF StoreTypeOK
    <3>2. \A c \in ConflictRow :
            [c EXCEPT !.events = @ \cup HeadEventIds(ev.object) \cup {ev.id}] \in ConflictRow
      BY <1>1, <1>2 DEF ConflictRow
    <3> QED
      BY <2>2, <3>1, <3>2 DEF OpenedConflict
  <2> QED
    BY <2>1, <2>2
<1>4. ResolvedConflict(ev) \subseteq ConflictRow
  <2>1. \A c \in conflicts : c \in ConflictRow
    BY DEF StoreTypeOK
  <2>2. \A c \in ConflictRow :
          [c EXCEPT !.status = "resolved", !.resolution = {ev.id}] \in ConflictRow
    BY <1>1 DEF ConflictRow
  <2> QED
    BY <2>1, <2>2 DEF ResolvedConflict
<1> QED
  BY <1>3, <1>4 DEF ConflictsAfter, StoreTypeOK

\* A committed row keeps the tables well typed and the chain intact.
LEMMA WritesKeepStore ==
    ASSUME CoreInv, NEW c \in Caller, Writes(c)
    PROVE  StoreTypeOK' /\ ChainIntact'
<1>1. PICK ev \in Event, status \in DecidedStatus, error \in ErrorCode :
         Commit(ev, status, error)
  BY DEF Writes
<1>2. StoreTypeOK /\ ledger \in Seq(Row) /\ ChainIntact
  BY DEF CoreInv, TypeOK, StoreTypeOK
<1>3. ev.object \in Object /\ ev.device \in Device /\ ev.counter \in Nat
  BY EventAssumption DEF ClientEvent
<1>4. ledger' \in Seq(Row) /\ ChainIntact'
  BY <1>1, <1>2, InsertKeepsChain DEF Commit
<1>5. NextServerSequence \in Nat
  BY <1>2, NextSequenceIsNextPosition
<1>6. heads' \in [Object -> HeadRow]
  BY <1>1, <1>2, <1>3, <1>5 DEF Commit, HeadsAfter, StoreTypeOK, HeadRow
<1>7. conflicts' \subseteq ConflictRow
  BY <1>1, <1>2, <1>5, ConflictsKeepType DEF Commit
<1>8. devices' \in [Device -> DeviceRow]
  BY <1>1, <1>2, <1>3 DEF Commit, MoveWatermark, StoreTypeOK, DeviceRow
<1>9. UNCHANGED <<executives, keys>>
  BY <1>1 DEF Commit
<1> QED
  BY <1>2, <1>4, <1>6, <1>7, <1>8, <1>9 DEF StoreTypeOK

\* Ending one appendNow, with an answer or an exception, keeps the queue sound.
LEMMA ServingKeepsCalls ==
    ASSUME CoreInv, NEW c \in Caller, queue # <<>>, Head(queue) = c,
           NEW work \in Seq(Requests),
           queue' = Tail(queue), pending' = [pending EXCEPT ![c] = work]
    PROVE  /\ queue' \in Seq(Caller)
           /\ pending' \in [Caller -> Seq(Requests)]
           /\ QueueSound'
<1>1. queue \in Seq(Caller) /\ pending \in [Caller -> Seq(Requests)]
  BY DEF CoreInv, TypeOK
<1>2. queue' \in Seq(Caller) /\ pending' \in [Caller -> Seq(Requests)]
  BY <1>1
<1>3. \A i \in DOMAIN queue' :
         i \in Nat /\ i + 1 \in DOMAIN queue /\ queue'[i] = queue[i + 1]
  BY <1>1
<1>4. 1 \in DOMAIN queue /\ queue[1] = c
  BY <1>1
<1>5. \A i \in DOMAIN queue' : queue[i + 1] # c /\ queue[i + 1] \in Caller
  <2>1. \A i \in DOMAIN queue' : i + 1 # 1
    BY <1>3
  <2> QED
    BY <1>1, <1>3, <1>4, <2>1 DEF CoreInv, QueueSound
<1>6. \A i \in DOMAIN queue' : pending'[queue'[i]] # <<>>
  BY <1>1, <1>3, <1>5 DEF CoreInv, QueueSound
<1>7. \A i, j \in DOMAIN queue' : queue'[i] = queue'[j] => i = j
  <2>1. SUFFICES ASSUME NEW i \in DOMAIN queue', NEW j \in DOMAIN queue',
                        queue'[i] = queue'[j]
                 PROVE  i = j
    OBVIOUS
  <2>2. i + 1 = j + 1
    BY <1>3, <2>1 DEF CoreInv, QueueSound
  <2> QED
    BY <1>3, <2>2
<1> QED
  BY <1>2, <1>6, <1>7 DEF QueueSound

\* Chaining a call that is not in the queue keeps the queue sound.
LEMMA ChainingKeepsCalls ==
    ASSUME CoreInv, NEW c \in Caller, ~InQueue(c),
           queue' = Append(queue, c),
           pending' \in [Caller -> Seq(Requests)],
           pending'[c] # <<>>,
           \A b \in Caller : b # c => pending'[b] = pending[b]
    PROVE  queue' \in Seq(Caller) /\ QueueSound'
<1>1. queue \in Seq(Caller)
  BY DEF CoreInv, TypeOK
<1>2. PICK n \in Nat : n = Len(queue) /\ DOMAIN queue = 1..n
  BY <1>1
<1>3. /\ queue' \in Seq(Caller)
      /\ DOMAIN queue' = 1 .. n + 1
      /\ queue'[n + 1] = c
      /\ \A i \in 1..n : queue'[i] = queue[i] /\ queue[i] \in Caller
  BY <1>1, <1>2
<1>4. \A i \in 1..n : queue'[i] # c
  BY <1>2, <1>3 DEF InQueue
<1>5. \A i \in 1 .. n + 1 : i = n + 1 \/ i \in 1..n
  OBVIOUS
<1>6. \A i \in DOMAIN queue' : pending'[queue'[i]] # <<>>
  <2>1. \A i \in 1..n : pending'[queue'[i]] = pending[queue[i]]
    BY <1>3, <1>4
  <2>2. \A i \in 1..n : pending[queue[i]] # <<>>
    BY <1>2 DEF CoreInv, QueueSound
  <2> QED
    BY <1>3, <1>5, <2>1, <2>2
<1>7. \A i, j \in DOMAIN queue' : queue'[i] = queue'[j] => i = j
  BY <1>2, <1>3, <1>4, <1>5 DEF CoreInv, QueueSound
<1> QED
  BY <1>3, <1>6, <1>7 DEF QueueSound

\* Every acknowledgement is one of a well-formed row, or names no row.
LEMMA OutcomesKeepAcks ==
    ASSUME CoreInv, NEW c \in Caller, Throw(c) \/ Repeats(c) \/ Writes(c)
    PROVE  acks' \subseteq Ack
<1>1. acks \subseteq Ack /\ ledger \in Seq(Row) /\ ChainIntact
  BY DEF CoreInv, TypeOK, StoreTypeOK
<1>2. CASE Throw(c)
  BY <1>1, <1>2 DEF Throw
<1>3. CASE Repeats(c)
  BY <1>1, <1>3 DEF Repeats, Answer
<1>4. CASE Writes(c)
  <2>1. PICK ev \in Event, status \in DecidedStatus, error \in ErrorCode :
           Answer(c, RowAck(NewRow(ev, status, error)))
    BY <1>4 DEF Writes
  <2>2. NewRow(ev, status, error) \in Row
    BY <1>1, NewRowProperties
  <2>3. RowAck(NewRow(ev, status, error)) \in Ack
    BY <2>2 DEF RowAck, Ack, Row, EventId
  <2> QED
    BY <1>1, <2>1, <2>3 DEF Answer
<1> QED
  BY <1>2, <1>3, <1>4

\* Ending an appendNow keeps the whole of the core invariant.
LEMMA OutcomesKeepCore ==
    ASSUME CoreInv, NEW c \in Caller, queue # <<>>, Head(queue) = c,
           pending[c] # <<>>, Throw(c) \/ Repeats(c) \/ Writes(c)
    PROVE  CoreInv'
<1>1. PICK work \in Seq(Requests) : pending' = [pending EXCEPT ![c] = work]
  <2>1. pending[c] \in Seq(Requests) /\ Tail(pending[c]) \in Seq(Requests)
        /\ <<>> \in Seq(Requests)
    BY DEF CoreInv, TypeOK
  <2>2. \/ pending' = [pending EXCEPT ![c] = Tail(pending[c])]
        \/ pending' = [pending EXCEPT ![c] = <<>>]
    BY DEF Throw, Repeats, Writes, Answer
  <2> QED
    BY <2>1, <2>2
<1>2. queue' = Tail(queue)
  BY DEF Throw, Repeats, Writes, Answer
<1>3. /\ queue' \in Seq(Caller)
      /\ pending' \in [Caller -> Seq(Requests)]
      /\ QueueSound'
  BY <1>1, <1>2, ServingKeepsCalls
<1>4. StoreTypeOK' /\ ChainIntact'
  <2>1. CASE UNCHANGED store
    BY <2>1, UnchangedKeepsStore DEF CoreInv, TypeOK
  <2>2. CASE Writes(c)
    BY <2>2, WritesKeepStore
  <2> QED
    BY <2>1, <2>2 DEF Throw, Repeats
<1> QED
  BY <1>3, <1>4, OutcomesKeepAcks DEF CoreInv, TypeOK

\* Submitting a call.
LEMMA SubmitKeepsCore ==
    ASSUME CoreInv, NEW c \in Caller, Submit(c)
    PROVE  CoreInv'
<1>1. pending \in [Caller -> Seq(Requests)]
  BY DEF CoreInv, TypeOK
<1>2. PICK batch \in Submissions : \E work \in [DOMAIN batch -> Requests] :
         pending' = [pending EXCEPT ![c] = work]
  BY DEF Submit
<1>3. PICK n \in 1..MaxBatch : batch \in [1..n -> Requests]
  BY DEF Submissions
<1>4. PICK work \in [1..n -> Requests] : pending' = [pending EXCEPT ![c] = work]
  BY <1>2, <1>3
<1>5. n \in Nat /\ n >= 1
  BY <1>3, BatchAssumption
<1>6. work \in Seq(Requests) /\ work # <<>>
  BY <1>4, <1>5
<1>7. /\ pending' \in [Caller -> Seq(Requests)]
      /\ pending'[c] # <<>>
      /\ \A b \in Caller : b # c => pending'[b] = pending[b]
  BY <1>1, <1>4, <1>6
<1>8. queue' \in Seq(Caller) /\ QueueSound'
  BY <1>7, ChainingKeepsCalls DEF Submit
<1> QED
  BY <1>7, <1>8, UnchangedKeepsStore DEF CoreInv, TypeOK, Submit

\* Relaying one request.
LEMMA SubmitOneKeepsCore ==
    ASSUME CoreInv, NEW c \in Caller, NEW r \in Requests, SubmitOne(c, r)
    PROVE  CoreInv'
<1>1. /\ pending' \in [Caller -> Seq(Requests)]
      /\ pending'[c] # <<>>
      /\ \A b \in Caller : b # c => pending'[b] = pending[b]
  <2>1. <<r>> \in Seq(Requests) /\ <<r>> # <<>>
    OBVIOUS
  <2>2. pending' = [pending EXCEPT ![c] = <<r>>]
    BY DEF SubmitOne
  <2> QED BY <2>1, <2>2 DEF CoreInv, TypeOK
<1>2. queue' \in Seq(Caller) /\ QueueSound'
  BY <1>1, ChainingKeepsCalls DEF SubmitOne
<1> QED
  BY <1>1, <1>2, UnchangedKeepsStore DEF CoreInv, TypeOK, SubmitOne

\* The core invariant is inductive.
LEMMA CoreInductive ==
    ASSUME CoreInv, [Next]_vars
    PROVE  CoreInv'
<1>1. CASE UNCHANGED vars
  <2>1. UNCHANGED store /\ queue' = queue /\ pending' = pending /\ acks' = acks
    BY <1>1 DEF vars
  <2>2. QueueSound'
    BY <2>1 DEF CoreInv, QueueSound
  <2> QED
    BY <2>1, <2>2, UnchangedKeepsStore DEF CoreInv, TypeOK
<1>2. ASSUME NEW c \in Caller, Submit(c)
      PROVE  CoreInv'
  BY <1>2, SubmitKeepsCore
<1>3. ASSUME NEW c \in Caller, Continue(c)
      PROVE  CoreInv'
  <2>1. /\ pending' \in [Caller -> Seq(Requests)]
        /\ pending'[c] # <<>>
        /\ \A b \in Caller : b # c => pending'[b] = pending[b]
    BY <1>3 DEF Continue, CoreInv, TypeOK
  <2>2. queue' \in Seq(Caller) /\ QueueSound'
    BY <1>3, <2>1, ChainingKeepsCalls DEF Continue
  <2> QED
    BY <1>3, <2>1, <2>2, UnchangedKeepsStore DEF Continue, CoreInv, TypeOK
<1>4. ASSUME NEW c \in Caller, Serve(c)
      PROVE  CoreInv'
  <2>1. queue # <<>> /\ Head(queue) = c /\ AppendNow(c, Head(pending[c]))
    BY <1>4 DEF Serve
  <2>2. pending[c] # <<>> /\ Head(pending[c]) \in Requests
    BY <2>1, ServedRequest
  <2>3. Throw(c) \/ Repeats(c) \/ Writes(c)
    BY <2>1, <2>2, AppendNowOutcomes
  <2> QED
    BY <2>1, <2>2, <2>3, OutcomesKeepCore
<1>5. ASSUME NEW c \in Caller, WorkFails(c)
      PROVE  CoreInv'
  <2>1. queue # <<>> /\ Head(queue) = c /\ Throw(c)
    BY <1>5 DEF WorkFails
  <2>2. pending[c] # <<>>
    BY <2>1, ServedRequest
  <2> QED
    BY <2>1, <2>2, OutcomesKeepCore
<1>6. CASE Crash
  <2>1. queue' \in Seq(Caller) /\ pending' \in [Caller -> Seq(Requests)] /\ QueueSound'
    BY <1>6 DEF Crash, QueueSound
  <2> QED
    BY <1>6, <2>1, UnchangedKeepsStore DEF Crash, CoreInv, TypeOK
<1>7. ASSUME NEW c \in Caller, NEW r \in Requests, SubmitOne(c, r)
      PROVE  CoreInv'
  BY <1>7, SubmitOneKeepsCore
<1> QED
  BY <1>1, <1>2, <1>3, <1>4, <1>5, <1>6, <1>7 DEF Next

LEMMA CoreInitially ==
    ASSUME Init
    PROVE  CoreInv
<1>1. ledger = <<>> /\ queue = <<>>
  BY DEF Init, StoreInit
<1>2. ChainIntact /\ QueueSound
  BY <1>1 DEF ChainIntact, QueueSound
<1>3. heads \in [Object -> HeadRow]
  BY DEF Init, StoreInit, HeadRow, NoHead
<1>4. keys \in [Executive -> Seq(KeyWindow)]
  <2>1. [from |-> 0, until |-> OpenEnded] \in KeyWindow
    BY DEF KeyWindow
  <2> QED
    BY <2>1 DEF Init, StoreInit
<1>5. StoreTypeOK
  BY <1>1, <1>3, <1>4, BootAssumption DEF Init, StoreInit, StoreTypeOK
<1> QED
  BY <1>2, <1>5 DEF CoreInv, TypeOK, Init

\* The queue, the calls and the tables stay well typed (LedgerAppender).
THEOREM TypeCorrect == Spec => []TypeOK
<1>1. Init => CoreInv
  BY CoreInitially
<1>2. CoreInv /\ [Next]_vars => CoreInv'
  BY CoreInductive
<1>3. CoreInv => TypeOK
  BY DEF CoreInv
<1> QED
  BY <1>1, <1>2, <1>3, PTL DEF Spec

\* The ledger is gapless and its hashes are those a verifier recomputes, after
\* any number of submissions, failures and crashes.
THEOREM ChainStaysIntact == Spec => []ChainIntact
<1>1. Init => CoreInv
  BY CoreInitially
<1>2. CoreInv /\ [Next]_vars => CoreInv'
  BY CoreInductive
<1>3. CoreInv => ChainIntact
  BY DEF CoreInv
<1> QED
  BY <1>1, <1>2, <1>3, PTL DEF Spec

-----------------------------------------------------------------------------
(* Safety of the objects.  The conjuncts lean on each other: that a new head *)
(* is the latest accepted row needs the chain, and that an accepted event    *)
(* was based on every earlier one needs the head to be the latest.           *)

ObjectInv == RowsUnique /\ HeadsAreLatest /\ ConflictFlagged /\ NoLostUpdate

\* What one committed row changes in the relation between rows and objects.
LEMMA CommittedRow ==
    ASSUME CoreInv, NEW ev \in Event, NEW status \in DecidedStatus,
           NEW error \in ErrorCode, Commit(ev, status, error),
           NEW n \in Nat, n = Len(ledger)
    PROVE  /\ ledger \in Seq(Row) /\ DOMAIN ledger = 1..n /\ DOMAIN ledger' = 1 .. n + 1
           /\ \A i \in 1..n : ledger'[i] = ledger[i]
           /\ ledger'[n + 1].event = ev /\ ledger'[n + 1].status = status
           /\ NextServerSequence = n + 1
           /\ \A o, i : AcceptedOn(o, i)' <=>
                \/ AcceptedOn(o, i)
                \/ i = n + 1 /\ ev.object = o /\ status = "accepted"
<1>1. ledger \in Seq(Row) /\ ChainIntact /\ ledger' = Append(ledger, NewRow(ev, status, error))
  BY DEF CoreInv, TypeOK, StoreTypeOK, Commit
<1>2. /\ DOMAIN ledger = 1..n /\ DOMAIN ledger' = 1 .. n + 1
      /\ \A i \in 1..n : ledger'[i] = ledger[i]
      /\ ledger'[n + 1] = NewRow(ev, status, error)
  BY <1>1, InsertKeepsChain
<1>3. /\ NewRow(ev, status, error).event = ev
      /\ NewRow(ev, status, error).status = status
      /\ NextServerSequence = n + 1
  BY <1>1, NewRowProperties, NextSequenceIsNextPosition
<1>4. ASSUME NEW o, NEW i
      PROVE  AcceptedOn(o, i)' <=>
                \/ AcceptedOn(o, i)
                \/ i = n + 1 /\ ev.object = o /\ status = "accepted"
  <2>1. CASE i \in 1..n
    <3>1. ledger'[i] = ledger[i] /\ i # n + 1 /\ i \in DOMAIN ledger /\ i \in DOMAIN ledger'
      BY <1>2, <2>1
    <3> QED
      BY <3>1 DEF AcceptedOn
  <2>2. CASE i = n + 1
    <3>1. i \notin DOMAIN ledger /\ i \in DOMAIN ledger'
      BY <1>2, <2>2
    <3> QED
      BY <1>2, <1>3, <2>2, <3>1 DEF AcceptedOn
  <2>3. CASE i \notin 1 .. n + 1
    <3>1. i \notin 1..n /\ i # n + 1
      BY <2>3
    <3> QED
      BY <1>2, <2>3, <3>1 DEF AcceptedOn
  <2> QED
    BY <2>1, <2>2, <2>3
<1> QED
  BY <1>1, <1>2, <1>3, <1>4

\* No event and no device counter is recorded twice.
LEMMA WritesKeepRowsUnique ==
    ASSUME CoreInv, RowsUnique, NEW c \in Caller, Writes(c)
    PROVE  RowsUnique'
<1>1. PICK ev \in Event, status \in DecidedStatus, error \in ErrorCode :
         Insertable(ev) /\ Commit(ev, status, error)
  BY DEF Writes
<1>2. PICK n \in Nat : n = Len(ledger)
  BY DEF CoreInv, TypeOK, StoreTypeOK
<1>3. /\ DOMAIN ledger = 1..n /\ DOMAIN ledger' = 1 .. n + 1
      /\ \A i \in 1..n : ledger'[i] = ledger[i]
      /\ ledger'[n + 1].event = ev
  BY <1>1, <1>2, CommittedRow
<1>4. \A i \in 1..n :
         /\ ledger[i].event.id # ev.id
         /\ ledger[i].event.device # ev.device \/ ledger[i].event.counter # ev.counter
  BY <1>1, <1>3 DEF Insertable, RowIds
<1>5. \A i \in 1 .. n + 1 : i = n + 1 \/ i \in 1..n
  OBVIOUS
<1> QED
  BY <1>3, <1>4, <1>5 DEF RowsUnique

\* The head of every object stays its latest accepted row.
LEMMA WritesKeepHeads ==
    ASSUME CoreInv, HeadsAreLatest, NEW c \in Caller, Writes(c)
    PROVE  HeadsAreLatest'
<1>1. PICK ev \in Event, status \in DecidedStatus, error \in ErrorCode :
         Commit(ev, status, error)
  BY DEF Writes
<1>2. PICK n \in Nat : n = Len(ledger)
  BY DEF CoreInv, TypeOK, StoreTypeOK
<1>3. /\ DOMAIN ledger = 1..n /\ DOMAIN ledger' = 1 .. n + 1
      /\ NextServerSequence = n + 1
      /\ \A o, i : AcceptedOn(o, i)' <=>
            \/ AcceptedOn(o, i)
            \/ i = n + 1 /\ ev.object = o /\ status = "accepted"
  BY <1>1, <1>2, CommittedRow
<1>4. ev.object \in Object /\ heads \in [Object -> HeadRow]
  BY EventAssumption DEF ClientEvent, CoreInv, TypeOK, StoreTypeOK
<1>5. heads' = HeadsAfter(ev, n + 1, status)
  BY <1>1, <1>3 DEF Commit
<1>6. ASSUME NEW o \in Object, NEW h, h = heads'[o].seq
      PROVE  /\ h # 0 => AcceptedOn(o, h)'
             /\ \A i \in 1 .. n + 1 : AcceptedOn(o, i)' => i <= h
  <2>1. CASE status = "accepted" /\ o = ev.object
    <3>1. h = n + 1
      BY <1>4, <1>5, <1>6, <2>1 DEF HeadsAfter
    <3> QED
      BY <1>3, <2>1, <3>1
  <2>2. CASE ~(status = "accepted" /\ o = ev.object)
    <3>1. h = heads[o].seq
      BY <1>4, <1>5, <1>6, <2>2 DEF HeadsAfter, HeadRow
    <3>2. \A i : AcceptedOn(o, i)' <=> AcceptedOn(o, i)
      BY <1>3, <2>2
    <3>3. \A i : AcceptedOn(o, i) => i \in DOMAIN ledger
      BY DEF AcceptedOn
    <3>4. h # 0 => AcceptedOn(o, h)
      BY <3>1 DEF HeadsAreLatest
    <3>5. \A i : AcceptedOn(o, i) => i <= h
      BY <3>1, <3>3 DEF HeadsAreLatest
    <3> QED
      BY <3>2, <3>4, <3>5
  <2> QED
    BY <2>1, <2>2
<1>7. DOMAIN ledger' = 1 .. n + 1
  BY <1>3
<1>8. ASSUME NEW o \in Object
      PROVE  /\ heads'[o].seq # 0 =>
                  /\ heads'[o].seq \in DOMAIN ledger'
                  /\ ledger'[heads'[o].seq].event.object = o
                  /\ ledger'[heads'[o].seq].status = "accepted"
             /\ \A i \in DOMAIN ledger' : AcceptedOn(o, i)' => i <= heads'[o].seq
  <2>1. PICK h : h = heads'[o].seq
    OBVIOUS
  <2>2. /\ h # 0 => AcceptedOn(o, h)'
        /\ \A i \in DOMAIN ledger' : AcceptedOn(o, i)' => i <= h
    BY <1>6, <1>7, <2>1
  <2> QED
    BY <2>1, <2>2 DEF AcceptedOn
<1> QED
  BY <1>8 DEF HeadsAreLatest, AcceptedOn

\* The flag of an object stays up exactly while it has its one open conflict.
LEMMA WritesKeepFlags ==
    ASSUME CoreInv, ConflictFlagged, NEW c \in Caller, Writes(c)
    PROVE  ConflictFlagged'
<1>1. PICK ev \in Event, status \in DecidedStatus, error \in ErrorCode :
         Justified(ev, status) /\ Commit(ev, status, error)
  BY DEF Writes
<1>2. ev.object \in Object /\ heads \in [Object -> HeadRow] /\ conflicts \subseteq ConflictRow
  BY EventAssumption DEF ClientEvent, CoreInv, TypeOK, StoreTypeOK
<1>3. PICK seq : /\ conflicts' = ConflictsAfter(ev, seq, status)
                 /\ heads' = HeadsAfter(ev, seq, status)
  BY <1>1 DEF Commit
<1>4. CASE status = "accepted" /\ ev.type = "CONFLICT_RESOLVED"
  <2>1. conflicts' = ResolvedConflict(ev)
    BY <1>3, <1>4 DEF ConflictsAfter
  <2>2. OpenConflicts(ev.object)' = {}
    BY <1>2, <2>1 DEF ResolvedConflict, OpenConflicts, ConflictRow
  <2>3. \A o \in Object : o # ev.object => OpenConflicts(o)' = OpenConflicts(o)
    BY <1>2, <2>1 DEF ResolvedConflict, OpenConflicts, ConflictRow
  <2>4. /\ ~heads'[ev.object].conflicted
        /\ \A o \in Object : o # ev.object => heads'[o] = heads[o]
    BY <1>2, <1>3, <1>4 DEF HeadsAfter
  <2> QED
    BY <2>2, <2>3, <2>4 DEF ConflictFlagged
<1>5. CASE status = "accepted" /\ ev.type # "CONFLICT_RESOLVED"
  <2>1. conflicts' = conflicts
    BY <1>3, <1>5 DEF ConflictsAfter
  <2>2. \A o : OpenConflicts(o)' = OpenConflicts(o)
    BY <2>1 DEF OpenConflicts
  <2>3. ~heads[ev.object].conflicted
    BY <1>1, <1>5 DEF Justified
  <2>4. \A o \in Object : heads'[o].conflicted <=> heads[o].conflicted
    BY <1>2, <1>3, <1>5, <2>3 DEF HeadsAfter
  <2> QED
    BY <2>2, <2>4 DEF ConflictFlagged
<1>6. CASE status = "conflicted"
  <2>1. OpenConflicts(ev.object) = {}
    BY <1>1, <1>2, <1>6 DEF Justified, ConflictFlagged
  <2> DEFINE opened == [object |-> ev.object, events |-> HeadEventIds(ev.object) \cup {ev.id},
                        detected |-> seq, status |-> "open", resolution |-> {}]
  <2>2. conflicts' = conflicts \cup {opened}
    BY <1>3, <1>6, <2>1 DEF ConflictsAfter, OpenedConflict
  <2>3. OpenConflicts(ev.object)' = {opened}
    BY <2>1, <2>2 DEF OpenConflicts
  <2>4. \A o \in Object : o # ev.object => OpenConflicts(o)' = OpenConflicts(o)
    BY <2>2 DEF OpenConflicts
  <2>5. /\ heads'[ev.object].conflicted
        /\ \A o \in Object : o # ev.object => heads'[o] = heads[o]
    BY <1>2, <1>3, <1>6 DEF HeadsAfter, HeadRow
  <2> HIDE DEF opened
  <2> QED
    BY <2>3, <2>4, <2>5 DEF ConflictFlagged
<1>7. CASE status # "accepted" /\ status # "conflicted"
  <2>1. conflicts' = conflicts /\ heads' = heads
    BY <1>3, <1>7 DEF ConflictsAfter, HeadsAfter
  <2>2. \A o : OpenConflicts(o)' = OpenConflicts(o)
    BY <2>1 DEF OpenConflicts
  <2> QED
    BY <2>1, <2>2 DEF ConflictFlagged
<1> QED
  BY <1>4, <1>5, <1>6, <1>7

\* An accepted event was based on every earlier accepted event of its object.
LEMMA WritesKeepUpdates ==
    ASSUME CoreInv, HeadsAreLatest, NoLostUpdate, NEW c \in Caller, Writes(c)
    PROVE  NoLostUpdate'
<1>1. PICK ev \in Event, status \in DecidedStatus, error \in ErrorCode :
         Justified(ev, status) /\ Commit(ev, status, error)
  BY DEF Writes
<1>2. PICK n \in Nat : n = Len(ledger)
  BY DEF CoreInv, TypeOK, StoreTypeOK
<1>3. /\ DOMAIN ledger = 1..n /\ DOMAIN ledger' = 1 .. n + 1
      /\ \A i \in 1..n : ledger'[i] = ledger[i]
      /\ ledger'[n + 1].event = ev /\ ledger'[n + 1].status = status
      /\ \A o, i : AcceptedOn(o, i)' <=>
            \/ AcceptedOn(o, i)
            \/ i = n + 1 /\ ev.object = o /\ status = "accepted"
  BY <1>1, <1>2, CommittedRow
<1>4. ev.object \in Object /\ ev.base \in Nat /\ heads \in [Object -> HeadRow]
  BY EventAssumption DEF ClientEvent, CoreInv, TypeOK, StoreTypeOK
<1>5. ASSUME NEW i \in 1 .. n + 1, NEW j \in 1 .. n + 1, i < j,
             NEW o, o = ledger'[j].event.object, AcceptedOn(o, i)',
             ledger'[j].status = "accepted",
             ledger'[j].event.type # "CONFLICT_RESOLVED"
      PROVE  ledger'[j].event.base >= i
  <2>1. i \in 1..n /\ i # n + 1
    BY <1>5
  <2>2. AcceptedOn(o, i)
    BY <1>3, <1>5, <2>1
  <2>3. CASE j = n + 1
    <3>1. ev.base >= heads[ev.object].seq
      BY <1>1, <1>3, <1>5, <2>3 DEF Justified
    <3>2. i <= heads[ev.object].seq
      BY <1>3, <1>4, <1>5, <2>1, <2>2, <2>3 DEF HeadsAreLatest
    <3>3. heads[ev.object].seq \in Nat
      BY <1>4 DEF HeadRow
    <3> QED
      BY <1>3, <1>4, <2>3, <3>1, <3>2, <3>3
  <2>4. CASE j \in 1..n
    BY <1>3, <1>5, <2>1, <2>2, <2>4 DEF NoLostUpdate
  <2> QED
    BY <2>3, <2>4
<1> QED
  BY <1>3, <1>5 DEF NoLostUpdate, AcceptedOn

LEMMA ObjectsInitially ==
    ASSUME Init
    PROVE  ObjectInv
<1>1. /\ ledger = <<>> /\ conflicts = {}
      /\ \A o \in Object : heads[o].seq = 0 /\ ~heads[o].conflicted
  BY DEF Init, StoreInit, NoHead
<1> QED
  BY <1>1 DEF ObjectInv, RowsUnique, HeadsAreLatest, ConflictFlagged, NoLostUpdate,
              OpenConflicts, AcceptedOn

LEMMA ObjectsInductive ==
    ASSUME CoreInv, ObjectInv, [Next]_vars
    PROVE  ObjectInv'
<1>1. CASE UNCHANGED store
  <2>1. ledger' = ledger /\ heads' = heads /\ conflicts' = conflicts
    BY <1>1 DEF store
  <2> QED
    BY <2>1 DEF ObjectInv, RowsUnique, HeadsAreLatest, ConflictFlagged, NoLostUpdate,
                OpenConflicts, AcceptedOn
<1>2. ASSUME NEW c \in Caller, Writes(c)
      PROVE  ObjectInv'
  BY <1>2, WritesKeepRowsUnique, WritesKeepHeads, WritesKeepFlags, WritesKeepUpdates
     DEF ObjectInv
<1> QED
  BY <1>1, <1>2, StepWrites

\* No event is recorded twice, and no device counter is spent twice, whatever is
\* resubmitted after a lost answer or a crash.
THEOREM RowsStayUnique == Spec => []RowsUnique
<1>1. Init => CoreInv /\ ObjectInv
  BY CoreInitially, ObjectsInitially
<1>2. CoreInv /\ ObjectInv /\ [Next]_vars => CoreInv' /\ ObjectInv'
  BY CoreInductive, ObjectsInductive
<1>3. ObjectInv => RowsUnique
  BY DEF ObjectInv
<1> QED
  BY <1>1, <1>2, <1>3, PTL DEF Spec

\* object_heads never points past or before the latest accepted event.
THEOREM HeadsStayLatest == Spec => []HeadsAreLatest
<1>1. Init => CoreInv /\ ObjectInv
  BY CoreInitially, ObjectsInitially
<1>2. CoreInv /\ ObjectInv /\ [Next]_vars => CoreInv' /\ ObjectInv'
  BY CoreInductive, ObjectsInductive
<1>3. ObjectInv => HeadsAreLatest
  BY DEF ObjectInv
<1> QED
  BY <1>1, <1>2, <1>3, PTL DEF Spec

\* An object is frozen exactly while one conflict of it is open.
THEOREM FlagsFollowConflicts == Spec => []ConflictFlagged
<1>1. Init => CoreInv /\ ObjectInv
  BY CoreInitially, ObjectsInitially
<1>2. CoreInv /\ ObjectInv /\ [Next]_vars => CoreInv' /\ ObjectInv'
  BY CoreInductive, ObjectsInductive
<1>3. ObjectInv => ConflictFlagged
  BY DEF ObjectInv
<1> QED
  BY <1>1, <1>2, <1>3, PTL DEF Spec

\* No accepted write overwrites an accepted event its author had not seen,
\* however the calls of different executives interleave.
THEOREM NoUpdateIsLost == Spec => []NoLostUpdate
<1>1. Init => CoreInv /\ ObjectInv
  BY CoreInitially, ObjectsInitially
<1>2. CoreInv /\ ObjectInv /\ [Next]_vars => CoreInv' /\ ObjectInv'
  BY CoreInductive, ObjectsInductive
<1>3. ObjectInv => NoLostUpdate
  BY DEF ObjectInv
<1> QED
  BY <1>1, <1>2, <1>3, PTL DEF Spec

\* A step keeps the promises of the acknowledgements already signed.
LEMMA AcksInductive ==
    ASSUME CoreInv, AcksPinLedger, [Next]_vars
    PROVE  AcksPinLedger'
<1>1. ledger \in Seq(Row) /\ \A i \in DOMAIN ledger : ledger[i].seq = i
  BY DEF CoreInv, TypeOK, StoreTypeOK, ChainIntact
<1>2. CASE acks' = acks /\ ledger' = ledger
  BY <1>2 DEF AcksPinLedger
<1>3. ASSUME NEW c \in Caller, Repeats(c)
      PROVE  AcksPinLedger'
  <2>1. PICK ack \in Ack :
           /\ acks' = acks \cup {ack}
           /\ ack.seq = 0 \/ \E i \in DOMAIN ledger : ack = RowAck(ledger[i])
    BY <1>3 DEF Repeats, Answer
  <2>2. ledger' = ledger
    BY <1>3 DEF Repeats, store
  <2>3. ack.seq # 0 => ack.seq \in DOMAIN ledger /\ ack = RowAck(ledger[ack.seq])
    BY <1>1, <2>1 DEF RowAck
  <2>4. AcksPinLedger' <=> \A a \in acks' : a.seq # 0 =>
           a.seq \in DOMAIN ledger' /\ a = RowAck(ledger'[a.seq])
    BY DEF AcksPinLedger, RowAck
  <2> QED
    BY <2>1, <2>2, <2>3, <2>4 DEF AcksPinLedger
<1>4. ASSUME NEW c \in Caller, Writes(c)
      PROVE  AcksPinLedger'
  <2>1. PICK ev \in Event, status \in DecidedStatus, error \in ErrorCode :
           /\ Commit(ev, status, error)
           /\ acks' = acks \cup {RowAck(NewRow(ev, status, error))}
    BY <1>4 DEF Writes, Answer
  <2>2. PICK row : row = NewRow(ev, status, error)
    OBVIOUS
  <2>3. PICK n \in Nat : n = Len(ledger)
    BY <1>1
  <2>4. ledger \in Seq(Row) /\ ChainIntact
    BY <1>1 DEF CoreInv
  <2>5. /\ DOMAIN ledger = 1..n /\ DOMAIN ledger' = 1 .. n + 1
        /\ \A i \in 1..n : ledger'[i] = ledger[i]
        /\ ledger'[n + 1] = row /\ row.seq = n + 1
    BY <2>1, <2>2, <2>3, <2>4, InsertKeepsChain, NewRowProperties DEF Commit
  <2>6. acks' = acks \cup {RowAck(row)}
    BY <2>1, <2>2
  <2>7. \A a \in acks' : a.seq # 0 =>
           a.seq \in DOMAIN ledger' /\ a = RowAck(ledger'[a.seq])
    <3>1. SUFFICES ASSUME NEW a \in acks', a.seq # 0
                   PROVE  a.seq \in DOMAIN ledger' /\ a = RowAck(ledger'[a.seq])
      OBVIOUS
    <3>2. CASE a \in acks
      BY <2>5, <3>1, <3>2 DEF AcksPinLedger
    <3>3. CASE a = RowAck(row)
      <4>1. a.seq = n + 1
        BY <2>5, <3>3 DEF RowAck
      <4> QED
        BY <2>5, <3>3, <4>1
    <3> QED
      BY <2>6, <3>2, <3>3
  <2> QED
    BY <2>7 DEF AcksPinLedger, RowAck
<1>5. CASE UNCHANGED vars
  BY <1>2, <1>5 DEF vars, store
<1>6. CASE Crash
  BY <1>2, <1>6 DEF Crash, store
<1>7. ASSUME NEW c \in Caller, Submit(c) \/ Continue(c) \/ Throw(c)
      PROVE  AcksPinLedger'
  BY <1>2, <1>7 DEF Submit, Continue, Throw, store
<1>8. ASSUME NEW c \in Caller, Serve(c) \/ WorkFails(c)
      PROVE  Throw(c) \/ Repeats(c) \/ Writes(c)
  BY <1>8, ServedRequest, AppendNowOutcomes DEF Serve, WorkFails
<1>9. ASSUME NEW c \in Caller, NEW r \in Requests, SubmitOne(c, r)
      PROVE  AcksPinLedger'
  BY <1>2, <1>9 DEF SubmitOne, store
<1> QED
  BY <1>3, <1>4, <1>5, <1>6, <1>7, <1>8, <1>9 DEF Next

\* What the server signed stays true of the ledger, across retries and crashes.
THEOREM AcksStayTrue == Spec => []AcksPinLedger
<1>1. Init => CoreInv /\ AcksPinLedger
  BY CoreInitially DEF Init, AcksPinLedger
<1>2. CoreInv /\ AcksPinLedger /\ [Next]_vars => CoreInv' /\ AcksPinLedger'
  BY CoreInductive, AcksInductive
<1> QED
  BY <1>1, <1>2, PTL DEF Spec

\* Only an accepted resolution moves the head of a flagged object.
LEMMA StepRespectsFlags ==
    ASSUME CoreInv, [Next]_vars, NEW o \in Object,
           heads[o].conflicted, heads'[o] # heads[o]
    PROVE  /\ ~heads'[o].conflicted
           /\ ledger'[heads'[o].seq].event.type = "CONFLICT_RESOLVED"
<1>1. heads' # heads
  OBVIOUS
<1>2. PICK ev \in Event, status \in DecidedStatus, error \in ErrorCode :
         Justified(ev, status) /\ Commit(ev, status, error)
  BY <1>1, StepWrites DEF store, Writes
<1>3. PICK n \in Nat : n = Len(ledger)
  BY DEF CoreInv, TypeOK, StoreTypeOK
<1>4. /\ NextServerSequence = n + 1
      /\ ledger'[n + 1].event = ev
  BY <1>2, <1>3, CommittedRow
<1>5. ev.object \in Object /\ heads \in [Object -> HeadRow]
  BY EventAssumption DEF ClientEvent, CoreInv, TypeOK, StoreTypeOK
<1>6. heads' = HeadsAfter(ev, n + 1, status)
  BY <1>2, <1>4 DEF Commit
<1>7. status # "conflicted"
  BY <1>2, <1>5, <1>6 DEF HeadsAfter, Justified
<1>8. status = "accepted" /\ ev.object = o
  BY <1>5, <1>6, <1>7 DEF HeadsAfter
<1>9. heads'[o] = [seq |-> n + 1, conflicted |-> FALSE]
  BY <1>5, <1>6, <1>8 DEF HeadsAfter
<1> QED
  BY <1>2, <1>4, <1>8, <1>9 DEF Justified

\* A flagged object is frozen: its head moves only by an accepted resolution.
THEOREM ConflictsFreezeHeads == Spec => ConflictFreezesHead
<1>1. Init => CoreInv
  BY CoreInitially
<1>2. CoreInv /\ [Next]_vars => CoreInv'
  BY CoreInductive
<1>3. CoreInv /\ [Next]_vars =>
        [\A o \in Object :
            heads[o].conflicted /\ heads'[o] # heads[o] =>
               /\ ~heads'[o].conflicted
               /\ ledger'[heads'[o].seq].event.type = "CONFLICT_RESOLVED"]_vars
  BY StepRespectsFlags
<1> QED
  BY <1>1, <1>2, <1>3, PTL DEF Spec, ConflictFreezesHead

-----------------------------------------------------------------------------
(* The account every conflict gives of itself. *)

\* A committed row that is not accepted on the object of an open conflict takes
\* nothing away from what holds of a conflict.
LEMMA CommitKeepsConflict ==
    ASSUME CoreInv, NEW ev \in Event, NEW status \in DecidedStatus,
           NEW error \in ErrorCode, Commit(ev, status, error),
           NEW c \in ConflictRow, NamesBothSides(c)
    PROVE  /\ NamesBothSides(c)'
           /\ StillFrozen(c) /\ ~(ev.object = c.object /\ status = "accepted")
                => StillFrozen(c)'
           /\ ResolvedByFirst(c) => ResolvedByFirst(c)'
<1>1. PICK n \in Nat : n = Len(ledger)
  BY DEF CoreInv, TypeOK, StoreTypeOK
<1>2. /\ DOMAIN ledger = 1..n /\ DOMAIN ledger' = 1 .. n + 1
      /\ \A i \in 1..n : ledger'[i] = ledger[i]
      /\ \A o, i : AcceptedOn(o, i)' <=>
            \/ AcceptedOn(o, i)
            \/ i = n + 1 /\ ev.object = o /\ status = "accepted"
  BY <1>1, CommittedRow
<1>3. c.detected \in 1..n
  BY <1>2 DEF NamesBothSides
<1>4. \A i \in 1..n : AcceptedOn(c.object, i)' <=> AcceptedOn(c.object, i)
  <2>1. \A i \in 1..n : i # n + 1
    OBVIOUS
  <2> QED
    BY <1>2, <2>1
<1>5. NamesBothSides(c)'
  <2>1. PICK h \in 1..n : /\ HeadBefore(c.object, h, c.detected)
                          /\ ledger[c.detected].event.base < h
                          /\ c.events = {ledger[h].event.id, ledger[c.detected].event.id}
    BY <1>2 DEF NamesBothSides
  <2>2. \A i \in h + 1 .. c.detected - 1 : i \in 1..n
    BY <1>3
  <2>3. HeadBefore(c.object, h, c.detected)'
    BY <1>4, <2>1, <2>2 DEF HeadBefore
  <2>4. ledger'[h] = ledger[h] /\ ledger'[c.detected] = ledger[c.detected]
        /\ h \in DOMAIN ledger' /\ c.detected \in DOMAIN ledger'
    BY <1>2, <1>3
  <2>5. ledger[c.detected].status = "conflicted"
    BY DEF NamesBothSides
  <2> QED
    BY <2>1, <2>3, <2>4, <2>5 DEF NamesBothSides
<1>6. StillFrozen(c) /\ ~(ev.object = c.object /\ status = "accepted") => StillFrozen(c)'
  <2>1. \A i \in 1 .. n + 1 : i = n + 1 \/ i \in 1..n
    OBVIOUS
  <2>2. ~AcceptedOn(c.object, n + 1)
    BY <1>2 DEF AcceptedOn
  <2> QED
    BY <1>2, <1>4, <2>1, <2>2 DEF StillFrozen
<1>7. ResolvedByFirst(c) => ResolvedByFirst(c)'
  <2>1. SUFFICES ASSUME ResolvedByFirst(c) PROVE ResolvedByFirst(c)'
    OBVIOUS
  <2>2. PICK k \in 1..n : /\ k > c.detected
                          /\ AcceptedOn(c.object, k)
                          /\ ledger[k].event.type = "CONFLICT_RESOLVED"
                          /\ c.resolution = {ledger[k].event.id}
                          /\ \A i \in c.detected .. k - 1 : ~AcceptedOn(c.object, i)
    BY <1>2, <2>1 DEF ResolvedByFirst
  <2>3. \A i \in c.detected .. k - 1 : i \in 1..n
    BY <1>3, <2>2
  <2>4. k \in DOMAIN ledger' /\ ledger'[k] = ledger[k] /\ AcceptedOn(c.object, k)'
    BY <1>2, <1>4, <2>2
  <2>5. \A i \in c.detected .. k - 1 : ~AcceptedOn(c.object, i)'
    BY <1>4, <2>2, <2>3
  <2> QED
    BY <2>2, <2>4, <2>5 DEF ResolvedByFirst
<1> QED
  BY <1>5, <1>6, <1>7

\* A conflict that is opened names the head of its object and the challenger.
LEMMA OpenedConflictIsAccountedFor ==
    ASSUME CoreInv, HeadsAreLatest, NEW ev \in Event, NEW error \in ErrorCode,
           Commit(ev, "conflicted", error), Justified(ev, "conflicted"),
           NEW c \in ConflictRow, c.object = ev.object,
           c.detected = NextServerSequence,
           c.events = HeadEventIds(ev.object) \cup {ev.id}
    PROVE  NamesBothSides(c)' /\ StillFrozen(c)'
<1>1. PICK n \in Nat : n = Len(ledger)
  BY DEF CoreInv, TypeOK, StoreTypeOK
<1>2. /\ DOMAIN ledger = 1..n /\ DOMAIN ledger' = 1 .. n + 1
      /\ \A i \in 1..n : ledger'[i] = ledger[i]
      /\ ledger'[n + 1].event = ev /\ ledger'[n + 1].status = "conflicted"
      /\ NextServerSequence = n + 1
      /\ \A o, i : AcceptedOn(o, i)' <=> AcceptedOn(o, i)
  BY <1>1, CommittedRow DEF DecidedStatus
<1>3. ev.object \in Object /\ ev.base \in Nat /\ heads \in [Object -> HeadRow]
  BY EventAssumption DEF ClientEvent, CoreInv, TypeOK, StoreTypeOK
<1>4. PICK h : h = heads[ev.object].seq
  OBVIOUS
<1>5. h \in Nat /\ ev.base < h
  BY <1>3, <1>4 DEF Justified, HeadRow
<1>6. /\ AcceptedOn(ev.object, h) /\ h \in 1..n
      /\ \A i \in 1..n : AcceptedOn(ev.object, i) => i <= h
  BY <1>2, <1>3, <1>4, <1>5 DEF HeadsAreLatest, AcceptedOn
<1>7. HeadEventIds(ev.object) = {ledger[h].event.id}
  <2>1. \A i \in DOMAIN ledger : ledger[i].seq = h <=> i = h
    BY <1>2 DEF CoreInv, ChainIntact
  <2> QED
    BY <1>2, <1>4, <1>6, <2>1 DEF HeadEventIds
<1>8. c.detected = n + 1
  BY <1>2
<1>9. NamesBothSides(c)'
  <2>1. \A i \in h + 1 .. n : ~AcceptedOn(ev.object, i)'
    <3>1. \A i \in h + 1 .. n : i \in 1..n /\ ~(i <= h)
      BY <1>6
    <3> QED
      BY <1>2, <1>6, <3>1
  <2>2. \A i \in h + 1 .. c.detected - 1 : i \in h + 1 .. n
    BY <1>8
  <2>3. AcceptedOn(ev.object, h)' /\ h < c.detected
    BY <1>2, <1>6, <1>8
  <2>4. HeadBefore(c.object, h, c.detected)'
    BY <2>1, <2>2, <2>3 DEF HeadBefore
  <2>5. h \in DOMAIN ledger' /\ ledger'[h] = ledger[h] /\ n + 1 \in DOMAIN ledger'
    BY <1>2, <1>6
  <2> QED
    BY <1>2, <1>5, <1>7, <1>8, <2>4, <2>5 DEF NamesBothSides
<1>10. StillFrozen(c)'
  BY <1>2, <1>8 DEF StillFrozen
<1> QED
  BY <1>9, <1>10

LEMMA WritesKeepAccounts ==
    ASSUME CoreInv, ObjectInv, ConflictsAccountedFor, NEW c \in Caller, Writes(c)
    PROVE  ConflictsAccountedFor'
<1>1. PICK ev \in Event, status \in DecidedStatus, error \in ErrorCode :
         Justified(ev, status) /\ Commit(ev, status, error)
  BY DEF Writes
<1>2. ev.object \in Object /\ conflicts \subseteq ConflictRow /\ conflicts' \subseteq ConflictRow
  BY EventAssumption, WritesKeepStore DEF ClientEvent, CoreInv, TypeOK, StoreTypeOK
<1>3. conflicts' = ConflictsAfter(ev, NextServerSequence, status)
  BY <1>1 DEF Commit
<1> DEFINE Accounted(d) == /\ NamesBothSides(d)
                           /\ d.status = "open" => StillFrozen(d)
                           /\ d.status = "resolved" => ResolvedByFirst(d)
<1>4. ASSUME NEW d \in conflicts,
             d.status = "open" => ~(ev.object = d.object /\ status = "accepted")
      PROVE  Accounted(d)'
  <2>1. d \in ConflictRow /\ Accounted(d)
    BY <1>2 DEF ConflictsAccountedFor
  <2> QED
    BY <1>1, <1>4, <2>1, CommitKeepsConflict
<1>5. CASE status = "conflicted"
  <2>1. OpenConflicts(ev.object) = {}
    BY <1>1, <1>2, <1>5 DEF Justified, ObjectInv, ConflictFlagged
  <2>2. PICK d : d = [object |-> ev.object,
                      events |-> HeadEventIds(ev.object) \cup {ev.id},
                      detected |-> NextServerSequence, status |-> "open", resolution |-> {}]
    OBVIOUS
  <2>3. conflicts' = conflicts \cup {d}
    BY <1>3, <1>5, <2>1, <2>2 DEF ConflictsAfter, OpenedConflict
  <2>4. d \in ConflictRow
    BY <1>2, <2>3
  <2>5. Accounted(d)'
    BY <1>1, <1>5, <2>2, <2>4, OpenedConflictIsAccountedFor DEF ObjectInv
  <2>6. \A e \in conflicts : Accounted(e)'
    BY <1>4, <1>5
  <2> QED
    BY <2>3, <2>5, <2>6 DEF ConflictsAccountedFor
<1>6. CASE status = "accepted" /\ ev.type = "CONFLICT_RESOLVED"
  <2>1. conflicts' = ResolvedConflict(ev)
    BY <1>3, <1>6 DEF ConflictsAfter
  <2>2. ASSUME NEW e \in conflicts, e \notin OpenConflicts(ev.object)
        PROVE  Accounted(e)'
    BY <1>4, <2>2 DEF OpenConflicts
  <2>3. ASSUME NEW e \in OpenConflicts(ev.object), NEW d,
               d = [e EXCEPT !.status = "resolved", !.resolution = {ev.id}]
        PROVE  Accounted(d)'
    <3>1. /\ e \in ConflictRow /\ e.object = ev.object /\ e.status = "open"
          /\ NamesBothSides(e) /\ StillFrozen(e)
      BY <1>2, <2>3 DEF OpenConflicts, ConflictsAccountedFor
    <3>2. /\ d \in ConflictRow /\ d.object = e.object /\ d.events = e.events
          /\ d.detected = e.detected /\ d.status = "resolved" /\ d.resolution = {ev.id}
      <4>1. ev.id \in EventId
        BY DEF EventId
      <4> QED
        BY <2>3, <3>1, <4>1 DEF ConflictRow
    <3>3. NamesBothSides(e)'
      BY <1>1, <3>1, CommitKeepsConflict
    <3>4. NamesBothSides(d)'
      BY <3>2, <3>3 DEF NamesBothSides
    <3>5. ResolvedByFirst(d)'
      <4>1. PICK n \in Nat : n = Len(ledger)
        BY DEF CoreInv, TypeOK, StoreTypeOK
      <4>2. /\ DOMAIN ledger = 1..n /\ DOMAIN ledger' = 1 .. n + 1
            /\ ledger'[n + 1].event = ev
            /\ \A o, i : AcceptedOn(o, i)' <=>
                  \/ AcceptedOn(o, i)
                  \/ i = n + 1 /\ ev.object = o /\ status = "accepted"
        BY <1>1, <4>1, CommittedRow
      <4>3. e.detected \in 1..n /\ ~AcceptedOn(e.object, e.detected)
        BY <3>1, <4>2 DEF NamesBothSides, AcceptedOn
      <4>4. ASSUME NEW i \in e.detected .. n
            PROVE  ~AcceptedOn(e.object, i)'
        <5>1. i \in 1..n /\ i # n + 1 /\ (i = e.detected \/ i > e.detected)
          BY <4>3
        <5> QED
          BY <3>1, <4>2, <4>3, <5>1 DEF StillFrozen
      <4>5. AcceptedOn(e.object, n + 1)'
        BY <1>6, <3>1, <4>2
      <4>6. n + 1 \in DOMAIN ledger' /\ n + 1 > d.detected /\ (n + 1) - 1 = n
        BY <3>2, <4>2, <4>3
      <4> QED
        BY <1>6, <3>2, <4>2, <4>4, <4>5, <4>6 DEF ResolvedByFirst
    <3> QED
      BY <3>2, <3>4, <3>5
  <2>4. \A d \in conflicts' : Accounted(d)'
    <3>1. SUFFICES ASSUME NEW d \in conflicts' PROVE Accounted(d)'
      OBVIOUS
    <3>2. PICK e \in conflicts :
             d = IF e \in OpenConflicts(ev.object)
                 THEN [e EXCEPT !.status = "resolved", !.resolution = {ev.id}]
                 ELSE e
      BY <2>1 DEF ResolvedConflict
    <3>3. CASE e \in OpenConflicts(ev.object)
      BY <2>3, <3>2, <3>3
    <3>4. CASE e \notin OpenConflicts(ev.object)
      BY <2>2, <3>2, <3>4
    <3> QED
      BY <3>3, <3>4
  <2> QED
    BY <2>4 DEF ConflictsAccountedFor
<1>7. CASE status # "conflicted" /\ ~(status = "accepted" /\ ev.type = "CONFLICT_RESOLVED")
  <2>1. conflicts' = conflicts
    BY <1>3, <1>7 DEF ConflictsAfter
  <2>2. ASSUME NEW d \in conflicts
        PROVE  d.status = "open" => ~(ev.object = d.object /\ status = "accepted")
    <3>1. SUFFICES ASSUME d.status = "open", ev.object = d.object, status = "accepted"
                   PROVE  FALSE
      OBVIOUS
    <3>2. d \in OpenConflicts(ev.object)
      BY <3>1 DEF OpenConflicts
    <3>3. heads[ev.object].conflicted
      BY <1>2, <3>2 DEF ObjectInv, ConflictFlagged
    <3> QED
      BY <1>1, <1>7, <3>1, <3>3 DEF Justified
  <2>3. \A d \in conflicts : Accounted(d)'
    BY <1>4, <2>2
  <2> QED
    BY <2>1, <2>3 DEF ConflictsAccountedFor
<1> QED
  BY <1>5, <1>6, <1>7

LEMMA AccountsInductive ==
    ASSUME CoreInv, ObjectInv, ConflictsAccountedFor, [Next]_vars
    PROVE  ConflictsAccountedFor'
<1>1. CASE UNCHANGED store
  <2>1. ledger' = ledger /\ conflicts' = conflicts
    BY <1>1 DEF store
  <2> QED
    BY <2>1 DEF ConflictsAccountedFor, NamesBothSides, StillFrozen, ResolvedByFirst,
                HeadBefore, AcceptedOn
<1>2. ASSUME NEW c \in Caller, Writes(c)
      PROVE  ConflictsAccountedFor'
  BY <1>2, WritesKeepAccounts
<1> QED
  BY <1>1, <1>2, StepWrites

\* Every conflict names the event it challenges and the challenger, and ends, if
\* it ends, with the first event accepted on its object since.
THEOREM ConflictsStayAccountedFor == Spec => []ConflictsAccountedFor
<1>1. Init => CoreInv /\ ObjectInv /\ ConflictsAccountedFor
  BY CoreInitially, ObjectsInitially DEF Init, StoreInit, ConflictsAccountedFor
<1>2. CoreInv /\ ObjectInv /\ ConflictsAccountedFor /\ [Next]_vars
        => CoreInv' /\ ObjectInv' /\ ConflictsAccountedFor'
  BY CoreInductive, ObjectsInductive, AccountsInductive
<1> QED
  BY <1>1, <1>2, PTL DEF Spec

-----------------------------------------------------------------------------
(* What a row rests on. *)

LEMMA WritesKeepEffects ==
    ASSUME CoreInv, EffectsAreVerified, NEW c \in Caller, Writes(c)
    PROVE  EffectsAreVerified'
<1>1. PICK ev \in Event, status \in DecidedStatus, error \in ErrorCode :
         Justified(ev, status) /\ Commit(ev, status, error)
  BY DEF Writes
<1>2. PICK n \in Nat : n = Len(ledger)
  BY DEF CoreInv, TypeOK, StoreTypeOK
<1>3. /\ DOMAIN ledger = 1..n /\ DOMAIN ledger' = 1 .. n + 1
      /\ \A i \in 1..n : ledger'[i] = ledger[i]
      /\ ledger'[n + 1].event = ev /\ ledger'[n + 1].status = status
      /\ \A i \in 1..n : ledger[i].event \in Event
  BY <1>1, <1>2, CommittedRow, RowFields
<1>4. \A d \in Device : devices'[d].owner = devices[d].owner
  BY <1>1 DEF Commit, MoveWatermark, CoreInv, TypeOK, StoreTypeOK, DeviceRow
<1>5. keys' = keys
  BY <1>1 DEF Commit
<1>6. \A e \in Event : Vouched(e) => Vouched(e)'
  <2>1. \A e \in Event : e.device \in Device
    BY EventAssumption DEF ClientEvent
  <2> QED
    BY <1>4, <1>5, <2>1 DEF Vouched
<1>7. \A i \in 1..n : ledger[i].status # "rejected" => Vouched(ledger[i].event)
  BY <1>3 DEF EffectsAreVerified, Vouched
<1>8. ASSUME NEW i \in 1 .. n + 1, ledger'[i].status # "rejected"
      PROVE  \E e \in Event : e = ledger'[i].event /\ Vouched(e)'
  <2>1. CASE i = n + 1
    BY <1>1, <1>3, <1>6, <1>8, <2>1 DEF Justified
  <2>2. CASE i \in 1..n
    BY <1>3, <1>6, <1>7, <1>8, <2>2
  <2> QED
    BY <2>1, <2>2
<1> QED
  BY <1>3, <1>8 DEF EffectsAreVerified, Vouched

LEMMA EffectsInductive ==
    CoreInv /\ EffectsAreVerified /\ [Next]_vars => EffectsAreVerified'
<1>1. EffectsAreVerified /\ UNCHANGED store => EffectsAreVerified'
  BY DEF EffectsAreVerified, store
<1> QED
  BY <1>1, StepWrites, WritesKeepEffects

-----------------------------------------------------------------------------
(* The append-only ledger. *)

LEMMA EntriesKept ==
    ASSUME CoreInv, [Next]_vars
    PROVE  /\ DOMAIN ledger \subseteq DOMAIN ledger'
           /\ \A i \in DOMAIN ledger : ledger'[i] = ledger[i]
<1>1. CASE UNCHANGED store
  BY <1>1 DEF store
<1>2. ASSUME NEW c \in Caller, Writes(c)
      PROVE  /\ DOMAIN ledger \subseteq DOMAIN ledger'
             /\ \A i \in DOMAIN ledger : ledger'[i] = ledger[i]
  <2>1. PICK ev \in Event, status \in DecidedStatus, error \in ErrorCode :
           Commit(ev, status, error)
    BY <1>2 DEF Writes
  <2>2. PICK n \in Nat : n = Len(ledger)
    BY DEF CoreInv, TypeOK, StoreTypeOK
  <2> QED BY <2>1, <2>2, CommittedRow
<1> QED BY <1>1, <1>2, StepWrites

\* Acknowledgements are only ever added.
LEMMA AcksGrow ==
    ASSUME CoreInv, [Next]_vars
    PROVE  acks \subseteq acks'
<1>1. CASE UNCHANGED vars \/ Crash
  BY <1>1 DEF vars, Crash
<1>2. ASSUME NEW c \in Caller, Submit(c) \/ Continue(c)
      PROVE  acks \subseteq acks'
  BY <1>2 DEF Submit, Continue
<1>3. ASSUME NEW c \in Caller, NEW r \in Requests, SubmitOne(c, r)
      PROVE  acks \subseteq acks'
  BY <1>3 DEF SubmitOne
<1>4. ASSUME NEW c \in Caller, Serve(c) \/ WorkFails(c)
      PROVE  acks \subseteq acks'
  <2>1. Throw(c) \/ Repeats(c) \/ Writes(c)
    BY <1>4, ServedRequest, AppendNowOutcomes DEF Serve, WorkFails
  <2> QED BY <2>1 DEF Throw, Repeats, Writes, Answer
<1> QED BY <1>1, <1>2, <1>3, <1>4 DEF Next

LEMMA StepExtendsLedger ==
    ASSUME CoreInv, CoreInv', AcksPinLedger', RowsUnique', [Next]_vars
    PROVE  Promise!LedgerNext
<1>1. Promise!Extends
  BY EntriesKept DEF Promise!Extends, Entries, RowAck
<1>2. Promise!OneEntryEach'
  BY DEF Promise!OneEntryEach, Entries, RowAck, RowsUnique
<1>3. Receipts \subseteq Receipts'
  BY AcksGrow DEF Receipts
<1>4. \A a \in Receipts' : \E i \in DOMAIN Entries' : a = Entries'[i]
  BY DEF Receipts, Entries, AcksPinLedger, RowAck
<1> QED BY <1>1, <1>2, <1>3, <1>4 DEF Promise!LedgerNext, Promise!Issue

\* LedgerAppender implements AppendOnlyLedger: crashes, retries, duplicates and
\* failed calls included, it only adds entries and acknowledges what is there.
THEOREM AppenderKeepsItsPromise == Spec => ImplementsLedger
<1> DEFINE Inv == CoreInv /\ ObjectInv /\ AcksPinLedger
<1>1. Init => Inv
  BY CoreInitially, ObjectsInitially DEF Init, AcksPinLedger
<1>2. Inv /\ [Next]_vars => Inv'
  BY CoreInductive, ObjectsInductive, AcksInductive
<1>3. Init => Promise!LedgerInit
  BY DEF Init, StoreInit, Promise!LedgerInit, Entries, Receipts
<1>4. Inv /\ Inv' /\ [Next]_vars => Promise!LedgerNext
  BY StepExtendsLedger DEF ObjectInv
<1> HIDE DEF Inv
<1> QED BY <1>1, <1>2, <1>3, <1>4, PTL DEF Spec, ImplementsLedger, Promise!LedgerSpec

-----------------------------------------------------------------------------
(* The registers. *)

LEMMA UnwrittenObjects ==
    ASSUME UNCHANGED store
    PROVE  UNCHANGED Objects!registers
  BY DEF store, Objects!registers, HeadBase, HeadResolves

\* What a justified row does to the object of its event, and to no other.
LEMMA WritesRegister ==
    ASSUME CoreInv, ObjectInv, NEW ev \in Event, NEW status \in DecidedStatus,
           NEW error \in ErrorCode, Justified(ev, status), Commit(ev, status, error)
    PROVE  [Objects!RegisterNext]_(Objects!registers)
<1> DEFINE o == ev.object
<1>1. o \in Object
  BY EventAssumption DEF ClientEvent
<1>2. PICK n \in Nat : n = Len(ledger)
  BY DEF CoreInv, TypeOK, StoreTypeOK
<1>3. /\ DOMAIN ledger = 1..n /\ DOMAIN ledger' = 1 .. n + 1
      /\ \A i \in 1..n : ledger'[i] = ledger[i]
      /\ ledger'[n + 1].event = ev
      /\ NextServerSequence = n + 1
  BY <1>2, CommittedRow
<1>4. heads' = HeadsAfter(ev, n + 1, status)
  BY <1>3 DEF Commit
<1>5. /\ heads \in [Object -> HeadRow]
      /\ \A x \in Object : heads[x].seq \in 0..n
  <2>1. heads \in [Object -> HeadRow]
    BY DEF CoreInv, TypeOK, StoreTypeOK
  <2>2. \A x \in Object : heads[x].seq # 0 => heads[x].seq \in 1..n
    BY <1>3 DEF ObjectInv, HeadsAreLatest, AcceptedOn
  <2> QED BY <2>1, <2>2 DEF HeadRow
<1>6. ASSUME NEW x \in Object, heads'[x].seq = heads[x].seq
      PROVE  HeadBase(x)' = HeadBase(x) /\ HeadResolves(x)' = HeadResolves(x)
  BY <1>3, <1>5, <1>6 DEF HeadBase, HeadResolves
<1> HIDE DEF o
<1>7. CASE status = "accepted"
  <2>1. heads' = [heads EXCEPT ![o] = [seq |-> n + 1, conflicted |-> FALSE]]
    BY <1>4, <1>7 DEF HeadsAfter, o
  <2>2. heads'[o].seq = n + 1 /\ ~heads'[o].conflicted
    BY <1>1, <1>5, <2>1
  <2>3. \A x \in Object \ {o} : heads'[x] = heads[x]
    BY <1>5, <2>1
  <2>4. HeadBase(o)' = ev.base /\ HeadResolves(o)' = (ev.type = "CONFLICT_RESOLVED")
    BY <1>3, <2>2 DEF HeadBase, HeadResolves
  <2>5. Objects!NewVersion(o)
    BY <1>1, <1>5, <2>2 DEF Objects!NewVersion
  <2>6. Objects!Resolve(o) \/ Objects!Write(o)
    <3>1. CASE ev.type = "CONFLICT_RESOLVED" /\ ConflictIsOpen(ev.object)
      BY <1>1, <2>4, <2>5, <3>1 DEF Objects!Resolve, ConflictIsOpen, o
    <3>2. CASE /\ ev.type # "CONFLICT_RESOLVED"
               /\ ~heads[ev.object].conflicted
               /\ ev.base >= heads[ev.object].seq
      BY <1>1, <2>4, <2>5, <3>2 DEF Objects!Write, o
    <3> QED BY <1>7, <3>1, <3>2 DEF Justified
  <2>7. \A x \in Object \ {o} : Objects!Untouched(x)
    BY <1>6, <2>3 DEF Objects!Untouched
  <2> QED BY <1>1, <2>6, <2>7 DEF Objects!RegisterNext
<1>8. CASE status = "conflicted"
  <2>1. heads' = [heads EXCEPT ![o].conflicted = TRUE]
    BY <1>4, <1>8 DEF HeadsAfter, o
  <2>2. heads'[o].seq = heads[o].seq /\ heads'[o].conflicted
    BY <1>1, <1>5, <2>1 DEF HeadRow
  <2>3. \A x \in Object \ {o} : heads'[x] = heads[x]
    BY <1>5, <2>1
  <2>4. ~heads[o].conflicted /\ heads[o].seq > 0
    <3>1. ev.base \in Nat /\ ev.base < heads[o].seq /\ ~heads[o].conflicted
      BY <1>8, EventAssumption DEF Justified, ClientEvent, o
    <3> QED BY <1>1, <1>5, <3>1
  <2>5. Objects!Contest(o)
    BY <1>1, <1>6, <2>2, <2>4 DEF Objects!Contest
  <2>6. \A x \in Object \ {o} : Objects!Untouched(x)
    BY <1>6, <2>3 DEF Objects!Untouched
  <2> QED BY <1>1, <2>5, <2>6 DEF Objects!RegisterNext
<1>9. CASE status \notin {"accepted", "conflicted"}
  <2>1. heads' = heads
    BY <1>4, <1>9 DEF HeadsAfter
  <2>2. \A x \in Object : HeadBase(x)' = HeadBase(x) /\ HeadResolves(x)' = HeadResolves(x)
    BY <1>6, <2>1
  <2> QED BY <2>1, <2>2 DEF Objects!registers
<1> QED BY <1>7, <1>8, <1>9

\* LedgerAppender implements ObjectRegister: nobody overwrites what he has not
\* seen, and a contested object is frozen until it is resolved.
THEOREM ObjectsAreRegisters == Spec => ImplementsRegister
<1> DEFINE Inv == CoreInv /\ ObjectInv
<1>1. Init => Inv
  BY CoreInitially, ObjectsInitially
<1>2. Inv /\ [Next]_vars => Inv'
  BY CoreInductive, ObjectsInductive
<1>3. Init => Objects!RegisterInit
  <2> SUFFICES ASSUME Init PROVE Objects!RegisterInit
    OBVIOUS
  <2>1. \A o \in Object : heads[o].seq = 0 /\ heads[o].conflicted = FALSE
    BY DEF Init, StoreInit, NoHead
  <2>2. \A o \in Object : HeadBase(o) = 0 /\ HeadResolves(o) = FALSE
    BY <2>1 DEF HeadBase, HeadResolves
  <2> QED BY <2>1, <2>2 DEF Objects!RegisterInit
<1>4. Inv /\ [Next]_vars => [Objects!RegisterNext]_(Objects!registers)
  <2> SUFFICES ASSUME Inv, [Next]_vars
               PROVE  [Objects!RegisterNext]_(Objects!registers)
    OBVIOUS
  <2>1. CASE UNCHANGED store
    BY <2>1, UnwrittenObjects
  <2>2. ASSUME NEW c \in Caller, Writes(c)
        PROVE  [Objects!RegisterNext]_(Objects!registers)
    BY <2>2, WritesRegister DEF Writes
  <2> QED BY <2>1, <2>2, StepWrites
<1> HIDE DEF Inv
<1> QED BY <1>1, <1>2, <1>3, <1>4, PTL DEF Spec, ImplementsRegister, Objects!RegisterSpec
=============================================================================
