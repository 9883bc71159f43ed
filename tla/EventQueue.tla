----------------------------- MODULE EventQueue -----------------------------
(***************************************************************************)
(* The durable event queue that carries one accounting event per finished  *)
(* gateway request from the replicas to the database                       *)
(* (src/src/gateway/events.py, usage_batch.py, observability.py,           *)
(* src/src/db/bulk.py).                                                    *)
(*                                                                         *)
(* A replica enqueues an event with one Redis RPUSH; while Redis fails it  *)
(* parks events in a bounded process-local outbox, which the next enqueue  *)
(* replays first.  ARQ workers requeue stale claims, claim a batch into    *)
(* the inflight list, write the batch in one transaction, and acknowledge  *)
(* it only after the commit; a failed write requeues the batch, or moves   *)
(* it to the dead-letter list after MaxAttempts failures.                  *)
(*                                                                         *)
(* Every await of the code is a point where other tasks run, so it ends an *)
(* action here; one Lua script, one Redis command and one database         *)
(* transaction are each a single step.                                     *)
(***************************************************************************)
EXTENDS Naturals, Sequences, FiniteSets

CONSTANTS
    Events,       \* finished gateway requests, each enqueued once
    Replicas,     \* gateway processes
    HomeOf,       \* HomeOf[e]: the replica whose finalizer enqueues e
    RequestId,    \* RequestId[e]: the request_id the database row is keyed by
    Poison,       \* events whose row the database can never accept
    Workers,      \* ARQ workers running the flush task
    ClaimIds,     \* numbers that tell inflight envelopes apart (claimed_at_ms)
    BatchSize,    \* DEFAULT_BATCH_SIZE
    MaxAttempts,  \* MAX_RETRY_ATTEMPTS
    OutboxMax,    \* _OUTBOX_MAX_PER_QUEUE
    MaxFaults     \* bound on crashes, commands of a worker that fail, lost
                  \* replies and flushes so slow that their claims turn stale

ASSUME HomeAssumption == HomeOf \in [Events -> Replicas]
ASSUME PoisonAssumption == Poison \subseteq Events
ASSUME ClaimIdsAssumption == ClaimIds \subseteq Nat
ASSUME BoundsAssumption ==
    /\ BatchSize \in Nat \ {0}
    /\ MaxAttempts \in Nat \ {0}
    /\ OutboxMax \in Nat \ {0}
    /\ MaxFaults \in Nat

VARIABLES
    task,      \* task[e]: where the finalizer's enqueue of e stands
    held,      \* held[e]: the outbox event that e's task popped and replays
    outbox,    \* outbox[r]: the replica's parked events, oldest first
    pending,   \* the Redis list of serialized payloads
    inflight,  \* the Redis list of claimed envelopes
    stale,     \* claims older than DEFAULT_INFLIGHT_STALE_SECONDS
    dlq,       \* the dead-letter list
    rows,      \* rows[e]: the rows of the table written for event e
    wpc,       \* wpc[w]: where worker w's flush stands
    batch,     \* batch[w]: the envelopes worker w has still to handle
    faults,    \* faults so far
    accepted,  \* history: events of which an RPUSH took effect
    purged     \* history: events an administrator flushed from the DLQ

taskVars == <<task, held, outbox>>
workerVars == <<wpc, batch>>
vars == <<task, held, outbox, pending, inflight, stale, dlq, rows, wpc, batch,
          faults, accepted, purged>>

None == "none"
Payload == [ev : Events, attempt : 0..MaxAttempts]
Envelope == [payload : Payload, claim : ClaimIds]

TaskState == {"new", "replay", "push", "queued", "parked", "lost"}
WorkerState == {"idle", "claim", "insert", "retry", "retryRem", "ack"}

TypeOK ==
    /\ task \in [Events -> TaskState]
    /\ held \in [Events -> Events \cup {None}]
    /\ outbox \in [Replicas -> Seq(Events)]
    /\ pending \in Seq(Payload)
    /\ inflight \in SUBSET Envelope
    /\ stale \in SUBSET ClaimIds
    /\ dlq \in SUBSET Payload
    /\ rows \in [Events -> Nat]
    /\ wpc \in [Workers -> WorkerState]
    /\ batch \in [Workers -> Seq(Envelope)]
    /\ faults \in 0..MaxFaults
    /\ accepted \in SUBSET Events
    /\ purged \in SUBSET Events

Init ==
    /\ task = [e \in Events |-> "new"]
    /\ held = [e \in Events |-> None]
    /\ outbox = [r \in Replicas |-> <<>>]
    /\ pending = <<>>
    /\ inflight = {}
    /\ stale = {}
    /\ dlq = {}
    /\ rows = [e \in Events |-> 0]
    /\ wpc = [w \in Workers |-> "idle"]
    /\ batch = [w \in Workers |-> <<>>]
    /\ faults = 0
    /\ accepted = {}
    /\ purged = {}

-----------------------------------------------------------------------------
(* The outbox is a deque(maxlen = OutboxMax): a push on a full deque drops  *)
(* the element at the opposite end.                                         *)

PushRight(box, e) ==
    IF Len(box) >= OutboxMax THEN Append(Tail(box), e) ELSE Append(box, e)

PushLeft(box, e) ==
    <<e>> \o (IF Len(box) >= OutboxMax THEN SubSeq(box, 1, OutboxMax - 1) ELSE box)

Fresh(e) == [ev |-> e, attempt |-> 0]

\* RPUSH of a serialized payload that takes effect on the server.
Rpush(e) ==
    /\ pending' = Append(pending, Fresh(e))
    /\ accepted' = accepted \cup {e}

\* An RPUSH that raises: Redis cannot be reached, or the reply is lost, a fault,
\* after the command has taken effect.
RpushRaises(e) ==
    \/ UNCHANGED <<pending, accepted, faults>>
    \/ /\ faults < MaxFaults
       /\ faults' = faults + 1
       /\ Rpush(e)

-----------------------------------------------------------------------------
(* enqueue_event and _flush_outbox, on the replica HomeOf[e].               *)

\* The head of _flush_outbox's loop: pop the oldest parked event and start to
\* replay it, or, with nothing parked, go on to push the event itself.
NextReplay(e, box) ==
    IF box = <<>>
    THEN /\ task' = [task EXCEPT ![e] = "push"]
         /\ held' = [held EXCEPT ![e] = None]
         /\ UNCHANGED outbox
    ELSE /\ task' = [task EXCEPT ![e] = "replay"]
         /\ held' = [held EXCEPT ![e] = Head(box)]
         /\ outbox' = [outbox EXCEPT ![HomeOf[e]] = Tail(box)]

EnqueueStart(e) ==
    /\ task[e] = "new"
    /\ NextReplay(e, outbox[HomeOf[e]])
    /\ UNCHANGED <<pending, inflight, stale, dlq, rows, workerVars, faults,
                   accepted, purged>>

ReplayOk(e) ==
    /\ task[e] = "replay"
    /\ Rpush(held[e])
    /\ NextReplay(e, outbox[HomeOf[e]])
    /\ UNCHANGED <<inflight, stale, dlq, rows, workerVars, faults, purged>>

\* Mutant of ReplayRaises: the popped event is not put back.
ReplayRaisesDropping(e) ==
    /\ task[e] = "replay"
    /\ RpushRaises(held[e])
    /\ outbox' = [outbox EXCEPT ![HomeOf[e]] = PushRight(@, e)]
    /\ task' = [task EXCEPT ![e] = "parked"]
    /\ held' = [held EXCEPT ![e] = None]
    /\ UNCHANGED <<inflight, stale, dlq, rows, workerVars, purged>>

\* The replayed event goes back to the front, the error unwinds into
\* enqueue_event, which parks its own event at the back.
ReplayRaises(e) ==
    LET r == HomeOf[e] IN
    /\ task[e] = "replay"
    /\ RpushRaises(held[e])
    /\ outbox' = [outbox EXCEPT ![r] = PushRight(PushLeft(@, held[e]), e)]
    /\ task' = [task EXCEPT ![e] = "parked"]
    /\ held' = [held EXCEPT ![e] = None]
    /\ UNCHANGED <<inflight, stale, dlq, rows, workerVars, purged>>

PushOk(e) ==
    /\ task[e] = "push"
    /\ Rpush(e)
    /\ task' = [task EXCEPT ![e] = "queued"]
    /\ UNCHANGED <<held, outbox, inflight, stale, dlq, rows, workerVars,
                   faults, purged>>

PushRaises(e) ==
    /\ task[e] = "push"
    /\ RpushRaises(e)
    /\ outbox' = [outbox EXCEPT ![HomeOf[e]] = PushRight(@, e)]
    /\ task' = [task EXCEPT ![e] = "parked"]
    /\ UNCHANGED <<held, inflight, stale, dlq, rows, workerVars, purged>>

\* The process dies: its outbox and the enqueues under way die with it.
ReplicaCrash(r) ==
    /\ faults < MaxFaults
    /\ faults' = faults + 1
    /\ outbox' = [outbox EXCEPT ![r] = <<>>]
    /\ task' = [e \in Events |->
                   IF HomeOf[e] = r /\ task[e] # "queued" THEN "lost"
                   ELSE task[e]]
    /\ held' = [e \in Events |-> IF HomeOf[e] = r THEN None ELSE held[e]]
    /\ UNCHANGED <<pending, inflight, stale, dlq, rows, workerVars, accepted,
                   purged>>

-----------------------------------------------------------------------------
(* The flush task of a worker: flush_usage_records / flush_gateway_logs.    *)

Written == {e \in Events : rows[e] > 0}

HasRow(e) == \E f \in Written : RequestId[f] = RequestId[e]

\* Sequences that list every element of S once, in some order.
Listings(S) ==
    {s \in [1..Cardinality(S) -> S] :
        \A x \in S : \E i \in 1..Cardinality(S) : s[i] = x}

\* The Lua script of recover_stale_claims: every stale envelope leaves the
\* inflight list and its payload goes back to the queue, with its attempt
\* count as it was.
RequeueStale ==
    LET old == {v \in inflight : v.claim \in stale} IN
    /\ \E s \in Listings(old) :
          pending' = pending \o [i \in DOMAIN s |-> s[i].payload]
    /\ inflight' = inflight \ old

\* Mutant of RecoverStaleClaims: the flush never requeues stale claims.
NoRecovery(w) ==
    /\ wpc[w] = "idle"
    /\ wpc' = [wpc EXCEPT ![w] = "claim"]
    /\ UNCHANGED <<taskVars, pending, inflight, stale, dlq, rows, batch, faults,
                   accepted, purged>>

\* The flush begins with recover_stale_claims, which swallows its errors.
RecoverStaleClaims(w) ==
    /\ wpc[w] = "idle"
    /\ wpc' = [wpc EXCEPT ![w] = "claim"]
    /\ \/ /\ RequeueStale
          /\ UNCHANGED faults
       \/ /\ faults < MaxFaults
          /\ faults' = faults + 1
          /\ UNCHANGED <<pending, inflight>>
    /\ UNCHANGED <<taskVars, stale, dlq, rows, batch, accepted, purged>>

\* Claims a worker is at work on, and claims that are in use.
Worked == UNION {{batch[w][i].claim : i \in DOMAIN batch[w]} : w \in Workers}
InUse == Worked \cup {v.claim : v \in inflight}

\* Mutant of ClaimOne: a plain LPOP, with no copy in the inflight list.
ClaimByPop(w) ==
    /\ wpc[w] = "claim"
    /\ Len(batch[w]) < BatchSize
    /\ pending # <<>>
    /\ \E c \in ClaimIds \ InUse :
          batch' = [batch EXCEPT ![w] =
                       Append(@, [payload |-> Head(pending), claim |-> c])]
    /\ pending' = Tail(pending)
    /\ UNCHANGED <<taskVars, inflight, stale, dlq, rows, wpc, faults, accepted,
                   purged>>

\* One run of the claim script: pop the oldest payload into the inflight list.
\* The envelope's identity is the least one free: only equality matters.
ClaimOne(w) ==
    /\ wpc[w] = "claim"
    /\ Len(batch[w]) < BatchSize
    /\ pending # <<>>
    /\ \E c \in ClaimIds \ InUse :
          LET v == [payload |-> Head(pending), claim |-> c] IN
          /\ \A d \in ClaimIds \ InUse : c <= d
          /\ pending' = Tail(pending)
          /\ inflight' = inflight \cup {v}
          /\ batch' = [batch EXCEPT ![w] = Append(@, v)]
          /\ stale' = stale \ {c}
    /\ UNCHANGED <<taskVars, dlq, rows, wpc, faults, accepted, purged>>

\* claim_batch returns: nothing claimed ends the flush, else the write starts.
ClaimDone(w) ==
    /\ wpc[w] = "claim"
    /\ Len(batch[w]) = BatchSize \/ pending = <<>>
    /\ wpc' = [wpc EXCEPT ![w] = IF batch[w] = <<>> THEN "idle" ELSE "insert"]
    /\ UNCHANGED <<taskVars, pending, inflight, stale, dlq, rows, batch, faults,
                   accepted, purged>>

\* Mutant of NewRows: a plain INSERT, without ON CONFLICT DO NOTHING.
FirstRows(b) ==
    {b[i].payload.ev : i \in {k \in DOMAIN b : \A j \in 1..(k - 1) :
        RequestId[b[j].payload.ev] # RequestId[b[k].payload.ev]}}

\* _bulk_insert_usage: the first event of the batch for each request_id, less
\* those ON CONFLICT (request_id) DO NOTHING skips.
NewRows(b) ==
    {b[i].payload.ev : i \in {k \in DOMAIN b :
        /\ ~HasRow(b[k].payload.ev)
        /\ \A j \in 1..(k - 1) :
              RequestId[b[j].payload.ev] # RequestId[b[k].payload.ev]}}

\* The table once the rows of the batch are added.
WithRows(b) ==
    [e \in Events |-> IF e \in NewRows(b) THEN rows[e] + 1 ELSE rows[e]]

Insertable(b) == \A i \in DOMAIN b : b[i].payload.ev \notin Poison

BulkInsert(w) ==
    /\ wpc[w] = "insert"
    /\ Insertable(batch[w])
    /\ rows' = WithRows(batch[w])
    /\ wpc' = [wpc EXCEPT ![w] = "ack"]
    /\ UNCHANGED <<taskVars, pending, inflight, stale, dlq, batch, faults,
                   accepted, purged>>

\* The transaction raises: a row of the batch is not acceptable, or the
\* database failed, before the commit or after it (the reply is lost).
BulkInsertRaises(w) ==
    /\ wpc[w] = "insert"
    /\ \/ /\ ~Insertable(batch[w])
          /\ UNCHANGED <<rows, faults>>
       \/ /\ Insertable(batch[w])
          /\ faults < MaxFaults
          /\ faults' = faults + 1
          /\ rows' \in {rows, WithRows(batch[w])}
    /\ wpc' = [wpc EXCEPT ![w] = "retry"]
    /\ UNCHANGED <<taskVars, pending, inflight, stale, dlq, batch, accepted,
                   purged>>

\* LREM of the first envelope the worker has still to handle; the flush ends
\* with the last one.
RemoveEnvelope(w, more) ==
    /\ inflight' = inflight \ {Head(batch[w])}
    /\ batch' = [batch EXCEPT ![w] = Tail(@)]
    /\ wpc' = [wpc EXCEPT ![w] = IF Len(batch[w]) = 1 THEN "idle" ELSE more]

AckClaimed(w) ==
    /\ wpc[w] = "ack"
    /\ RemoveEnvelope(w, "ack")
    /\ UNCHANGED <<taskVars, pending, stale, dlq, rows, faults, accepted, purged>>

\* retry_or_dlq_claimed, first command: push the payload with its attempt
\* count raised, to the queue or, at the limit, to the dead-letter list.
RetryPush(w) ==
    LET p == Head(batch[w]).payload
        q == [p EXCEPT !.attempt = @ + 1]
    IN
    /\ wpc[w] = "retry"
    /\ \/ /\ q.attempt >= MaxAttempts
          /\ dlq' = dlq \cup {q}
          /\ UNCHANGED pending
       \/ /\ q.attempt < MaxAttempts
          /\ pending' = Append(pending, q)
          /\ UNCHANGED dlq
    /\ wpc' = [wpc EXCEPT ![w] = "retryRem"]
    /\ UNCHANGED <<taskVars, inflight, stale, rows, batch, faults, accepted,
                   purged>>

\* Second command: remove the envelope.
RetryRemove(w) ==
    /\ wpc[w] = "retryRem"
    /\ RemoveEnvelope(w, "retry")
    /\ UNCHANGED <<taskVars, pending, stale, dlq, rows, faults, accepted, purged>>

\* The flush stops where it is: the worker crashes, or a Redis command raises
\* and claim_batch, ack_claimed or retry_or_dlq_claimed swallows the error and
\* returns.  What it had claimed stays in the inflight list.
Abandon(w) ==
    /\ wpc[w] # "idle"
    /\ faults < MaxFaults
    /\ faults' = faults + 1
    /\ wpc' = [wpc EXCEPT ![w] = "idle"]
    /\ batch' = [batch EXCEPT ![w] = <<>>]
    /\ UNCHANGED <<taskVars, pending, inflight, stale, dlq, rows, accepted, purged>>

-----------------------------------------------------------------------------
\* DEFAULT_INFLIGHT_STALE_SECONDS pass.  That a claim turns stale under a
\* worker still at work on it takes a stalled flush, which counts as a fault.
ClaimAges(c) ==
    /\ \E v \in inflight : v.claim = c
    /\ c \notin stale
    /\ stale' = stale \cup {c}
    /\ \/ /\ c \notin Worked
          /\ UNCHANGED faults
       \/ /\ c \in Worked
          /\ faults < MaxFaults
          /\ faults' = faults + 1
    /\ UNCHANGED <<taskVars, pending, inflight, dlq, rows, workerVars, accepted,
                   purged>>

\* flush_dlq, the administrator's DELETE of the dead-letter list.
FlushDlq ==
    /\ dlq # {}
    /\ dlq' = {}
    /\ purged' = purged \cup {p.ev : p \in dlq}
    /\ UNCHANGED <<taskVars, pending, inflight, stale, rows, workerVars, faults,
                   accepted>>

EnqueueStep(e) == EnqueueStart(e) \/ ReplayOk(e) \/ PushOk(e)
EnqueueFault(e) == ReplayRaises(e) \/ PushRaises(e)

FlushStep(w) ==
    \/ RecoverStaleClaims(w) \/ ClaimOne(w) \/ ClaimDone(w)
    \/ BulkInsert(w) \/ BulkInsertRaises(w)
    \/ AckClaimed(w) \/ RetryPush(w) \/ RetryRemove(w)

Next ==
    \/ \E e \in Events : EnqueueStep(e) \/ EnqueueFault(e)
    \/ \E r \in Replicas : ReplicaCrash(r)
    \/ \E w \in Workers : FlushStep(w) \/ Abandon(w)
    \/ \E c \in ClaimIds : ClaimAges(c)
    \/ FlushDlq

Spec == Init /\ [][Next]_vars

\* The ARQ cron runs the flush task for ever, an enqueue that started is
\* driven by the event loop, and time passes.
FairSpec ==
    /\ Spec
    /\ \A w \in Workers : WF_vars(FlushStep(w))
    /\ \A e \in Events : WF_vars(EnqueueStep(e))
    /\ \A c \in ClaimIds : WF_vars(ClaimAges(c))

-----------------------------------------------------------------------------
(* Properties.                                                              *)

InPending(e) == \E i \in DOMAIN pending : pending[i].ev = e
InInflight(e) == \E v \in inflight : v.payload.ev = e
InDlq(e) == \E p \in dlq : p.ev = e

\* At-least-once accounting: an event whose RPUSH took effect is never lost by
\* the claim, acknowledge, retry and recovery protocol.  Whatever crashes, it
\* is queued, inflight or dead-lettered, or its request_id has a row, or an
\* administrator deleted it.
NoAcceptedEventLost ==
    \A e \in accepted :
        InPending(e) \/ InInflight(e) \/ InDlq(e) \/ HasRow(e) \/ e \in purged

\* The strengthening that makes it inductive: an envelope whose payload is
\* already pushed back, and which the worker is about to remove, does not count
\* as a copy; and a worker past its claims has a batch in hand.
Doomed == {Head(batch[w]) : w \in {x \in Workers : wpc[x] = "retryRem"}}

CopySurvives(e) ==
    \/ InPending(e)
    \/ \E v \in inflight : v \notin Doomed /\ v.payload.ev = e
    \/ InDlq(e)
    \/ HasRow(e)
    \/ e \in purged

BatchInHand ==
    \A w \in Workers :
        /\ wpc[w] = "idle" => batch[w] = <<>>
        /\ wpc[w] \notin {"idle", "claim"} => batch[w] # <<>>

\* Exactly-once rows: two workers that write copies of one event, made by a
\* retry or by stale-claim recovery, leave one row per request_id.
OneRowPerRequestId ==
    /\ \A e \in Events : rows[e] <= 1
    /\ \A e, f \in Written : RequestId[e] = RequestId[f] => e = f

\* Acknowledgement comes after the commit: a worker that removes envelopes
\* from the inflight list has a row in the table for each of them.
AckOnlyAfterCommit ==
    \A w \in Workers : wpc[w] = "ack" =>
        \A i \in DOMAIN batch[w] : HasRow(batch[w][i].payload.ev)

\* An event parked by a failed enqueue stays in its replica's memory until
\* Redis has it, through concurrent replays that fail half way.  (The bound
\* of the outbox evicts nothing while the outbox can hold every event.)
NoParkedEventLost ==
    OutboxMax >= Cardinality(Events) =>
        \A e \in Events : task[e] = "parked" =>
            \/ e \in accepted
            \/ \E i \in DOMAIN outbox[HomeOf[e]] : outbox[HomeOf[e]][i] = e
            \/ \E f \in Events : held[f] = e

\* A retry never forgets a failure: a queued payload has failed fewer than
\* MaxAttempts times, and a dead-lettered one exactly MaxAttempts times.
RetriesBounded ==
    /\ \A i \in DOMAIN pending : pending[i].attempt < MaxAttempts
    /\ \A v \in inflight : v.payload.attempt < MaxAttempts
    /\ \A p \in dlq : p.attempt = MaxAttempts

\* Every accepted event is resolved: it gets its row or is dead-lettered, even
\* when the worker that claimed it died and when it can never be written.
EveryAcceptedEventResolved ==
    \A e \in Events :
        e \in accepted ~> (HasRow(e) \/ InDlq(e) \/ e \in purged)

=============================================================================
