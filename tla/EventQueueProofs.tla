-------------------------- MODULE EventQueueProofs --------------------------
(***************************************************************************)
(* Proofs about EventQueue, for any number of events, replicas, workers    *)
(* and faults: its types, the bound on retries, that no accepted event is  *)
(* lost, that rows are written once and before the acknowledgement, and    *)
(* that parked events stay parked until Redis has them.                    *)
(***************************************************************************)
EXTENDS EventQueue, TLAPS, FiniteSetTheorems, SequenceTheorems,
        NaturalsInduction, WellFoundedInduction

\* What is still to be written has failed fewer than MaxAttempts times.
LivePayload == [ev : Events, attempt : 0..(MaxAttempts - 1)]
LiveEnvelope == [payload : LivePayload, claim : ClaimIds]
DeadPayload == [ev : Events, attempt : {MaxAttempts}]

\* The inductive form of TypeOK and RetriesBounded, in three parts: the
\* replicas' memory, the Redis lists and the table, the workers.
ReplicaTypes ==
    /\ task \in [Events -> TaskState]
    /\ held \in [Events -> Events \cup {None}]
    /\ \A e \in Events : task[e] = "replay" => held[e] \in Events
    /\ outbox \in [Replicas -> Seq(Events)]

StoreTypes ==
    /\ pending \in Seq(LivePayload)
    /\ inflight \in SUBSET LiveEnvelope
    /\ IsFiniteSet(inflight)
    /\ stale \in SUBSET ClaimIds
    /\ dlq \in SUBSET DeadPayload
    /\ rows \in [Events -> Nat]
    /\ faults \in 0..MaxFaults
    /\ accepted \in SUBSET Events
    /\ purged \in SUBSET Events

WorkerTypes ==
    /\ wpc \in [Workers -> WorkerState]
    /\ batch \in [Workers -> Seq(LiveEnvelope)]
    /\ BatchInHand

Typed == ReplicaTypes /\ StoreTypes /\ WorkerTypes

-----------------------------------------------------------------------------
(* Lemmas on the operators of the model.                                    *)

\* A bounded deque of events stays a sequence of events under append.
LEMMA PushRightType ==
    ASSUME NEW box \in Seq(Events), NEW e \in Events
    PROVE  PushRight(box, e) \in Seq(Events)
<1>1. CASE Len(box) >= OutboxMax
  <2>1. box # <<>>
    BY <1>1, BoundsAssumption
  <2> QED BY <1>1, <2>1 DEF PushRight
<1>2. CASE ~(Len(box) >= OutboxMax)
  BY <1>2 DEF PushRight
<1> QED BY <1>1, <1>2

\* ... and under appendleft.
LEMMA PushLeftType ==
    ASSUME NEW box \in Seq(Events), NEW e \in Events
    PROVE  PushLeft(box, e) \in Seq(Events)
<1>1. <<e>> \in Seq(Events)
  OBVIOUS
<1>2. CASE Len(box) >= OutboxMax
  <2>1. SubSeq(box, 1, OutboxMax - 1) \in Seq(Events)
    BY <1>2, BoundsAssumption, SubSeqProperties, LenProperties
  <2> QED BY <1>1, <1>2, <2>1, ConcatProperties DEF PushLeft
<1>3. CASE ~(Len(box) >= OutboxMax)
  BY <1>1, <1>3, ConcatProperties DEF PushLeft
<1> QED BY <1>2, <1>3

\* A listing of a finite set of envelopes, projected to payloads, is a
\* sequence of payloads.
LEMMA ListingPayloads ==
    ASSUME NEW S \in SUBSET LiveEnvelope, IsFiniteSet(S), NEW s \in Listings(S)
    PROVE  [i \in DOMAIN s |-> s[i].payload] \in Seq(LivePayload)
<1>1. Cardinality(S) \in Nat
  BY FS_CardinalityType
<1>2. s \in [1..Cardinality(S) -> S]
  BY DEF Listings
<1>3. \A i \in 1..Cardinality(S) : s[i].payload \in LivePayload
  BY <1>2 DEF LiveEnvelope
<1> QED BY <1>1, <1>2, <1>3, IsASeq

\* The rows of a batch are events.
LEMMA NewRowsType ==
    ASSUME NEW b \in Seq(LiveEnvelope)
    PROVE  NewRows(b) \subseteq Events
<1>1. ASSUME NEW i \in DOMAIN b PROVE b[i].payload.ev \in Events
  <2>1. b[i] \in LiveEnvelope
    OBVIOUS
  <2> QED BY <2>1 DEF LiveEnvelope, LivePayload
<1> QED BY <1>1 DEF NewRows

\* Adding the rows of a batch removes none, and writes those of the batch.
LEMMA WithRowsGrows ==
    ASSUME rows \in [Events -> Nat], NEW b \in Seq(LiveEnvelope),
           rows' = WithRows(b)
    PROVE  /\ rows' \in [Events -> Nat]
           /\ Written' = Written \cup NewRows(b)
<1>1. NewRows(b) \subseteq Events
  BY NewRowsType
<1>2. \A e \in Events :
         rows'[e] = IF e \in NewRows(b) THEN rows[e] + 1 ELSE rows[e]
  BY DEF WithRows
<1>3. \A e \in Events : rows'[e] > 0 <=> rows[e] > 0 \/ e \in NewRows(b)
  BY <1>2
<1>4. rows' \in [Events -> Nat]
  BY DEF WithRows
<1> QED BY <1>1, <1>3, <1>4 DEF Written

-----------------------------------------------------------------------------
(* Types.                                                                   *)

LEMMA InitTyped == Init => Typed
<1> SUFFICES ASSUME Init PROVE Typed
  OBVIOUS
<1> USE DEF Init
<1>1. ReplicaTypes
  BY DEF ReplicaTypes, TaskState
<1>2. StoreTypes
  BY BoundsAssumption, FS_EmptySet DEF StoreTypes
<1>3. WorkerTypes
  BY DEF WorkerTypes, WorkerState, BatchInHand
<1> QED BY <1>1, <1>2, <1>3 DEF Typed

\* NextReplay keeps the replica's memory typed.
LEMMA NextReplayTypes ==
    ASSUME ReplicaTypes, NEW e \in Events, NextReplay(e, outbox[HomeOf[e]])
    PROVE  ReplicaTypes'
<1> DEFINE box == outbox[HomeOf[e]]
<1>1. box \in Seq(Events) /\ HomeOf[e] \in Replicas
  BY HomeAssumption DEF ReplicaTypes
<1>2. CASE box = <<>>
  BY <1>1, <1>2, SMTT(30) DEF ReplicaTypes, NextReplay, TaskState
<1>3. CASE box # <<>>
  <2>1. Head(box) \in Events /\ Tail(box) \in Seq(Events)
    BY <1>1, <1>3
  <2> QED BY <1>1, <1>3, <2>1 DEF ReplicaTypes, NextReplay, TaskState
<1> QED BY <1>2, <1>3

\* An RPUSH of an event keeps the Redis lists typed.
LEMMA RpushTypes ==
    ASSUME StoreTypes, NEW e \in Events, Rpush(e)
    PROVE  pending' \in Seq(LivePayload) /\ accepted' \in SUBSET Events
<1>1. Fresh(e) \in LivePayload
  BY BoundsAssumption DEF Fresh, LivePayload
<1> QED BY <1>1 DEF Rpush, StoreTypes

LEMMA RpushRaisesTypes ==
    ASSUME StoreTypes, NEW e \in Events, RpushRaises(e)
    PROVE  /\ pending' \in Seq(LivePayload) /\ accepted' \in SUBSET Events
           /\ faults' \in 0..MaxFaults
<1>1. faults' \in 0..MaxFaults
  BY BoundsAssumption DEF RpushRaises, StoreTypes
<1>2. pending' \in Seq(LivePayload) /\ accepted' \in SUBSET Events
  BY RpushTypes DEF RpushRaises, StoreTypes
<1> QED BY <1>1, <1>2

\* RequeueStale keeps the Redis lists typed.
LEMMA RequeueStaleTypes ==
    ASSUME StoreTypes, RequeueStale
    PROVE  /\ pending' \in Seq(LivePayload)
           /\ inflight' \in SUBSET LiveEnvelope /\ IsFiniteSet(inflight')
<1> DEFINE old == {v \in inflight : v.claim \in stale}
<1>1. old \in SUBSET LiveEnvelope /\ IsFiniteSet(old)
  BY FS_Subset DEF StoreTypes
<1>2. PICK s \in Listings(old) :
          pending' = pending \o [i \in DOMAIN s |-> s[i].payload]
  BY DEF RequeueStale
<1>3. pending' \in Seq(LivePayload)
  <2>1. [i \in DOMAIN s |-> s[i].payload] \in Seq(LivePayload)
    BY <1>1, ListingPayloads
  <2> QED BY <1>2, <2>1, ConcatProperties DEF StoreTypes
<1>4. inflight' = inflight \ old
  BY DEF RequeueStale
<1> QED BY <1>3, <1>4, FS_Subset DEF StoreTypes

\* The worker's next envelope, and what is left without it.
LEMMA HeadOfBatch ==
    ASSUME WorkerTypes, NEW w \in Workers, wpc[w] \notin {"idle", "claim"}
    PROVE  /\ batch[w] # <<>>
           /\ Head(batch[w]) \in LiveEnvelope
           /\ Tail(batch[w]) \in Seq(LiveEnvelope)
           /\ Tail(batch[w]) = <<>> <=> Len(batch[w]) = 1
<1> DEFINE b == batch[w]
<1>1. b \in Seq(LiveEnvelope) /\ b # <<>>
  BY DEF WorkerTypes, BatchInHand
<1> HIDE DEF b
<1>2. Head(b) \in LiveEnvelope /\ Tail(b) \in Seq(LiveEnvelope)
  BY <1>1
<1>3. Len(b) \in Nat /\ Len(Tail(b)) = Len(b) - 1
  BY <1>1
<1>4. Tail(b) = <<>> <=> Len(Tail(b)) = 0
  BY <1>2, EmptySeq
<1>5. Tail(b) = <<>> <=> Len(b) = 1
  BY <1>3, <1>4
<1> QED BY <1>1, <1>2, <1>5 DEF b

LEMMA RemoveEnvelopeTypes ==
    ASSUME Typed, NEW w \in Workers, wpc[w] \notin {"idle", "claim"},
           NEW more \in WorkerState \ {"idle", "claim"}, RemoveEnvelope(w, more)
    PROVE  /\ inflight' \in SUBSET LiveEnvelope /\ IsFiniteSet(inflight')
           /\ WorkerTypes'
<1>1. /\ batch[w] # <<>>
      /\ Tail(batch[w]) \in Seq(LiveEnvelope)
      /\ Tail(batch[w]) = <<>> <=> Len(batch[w]) = 1
  BY HeadOfBatch DEF Typed
<1>2. inflight' \in SUBSET LiveEnvelope /\ IsFiniteSet(inflight')
  BY FS_Subset DEF RemoveEnvelope, Typed, StoreTypes
<1>3. wpc' \in [Workers -> WorkerState] /\ batch' \in [Workers -> Seq(LiveEnvelope)]
  BY <1>1 DEF RemoveEnvelope, Typed, WorkerTypes, WorkerState
<1>4. BatchInHand'
  BY <1>1 DEF RemoveEnvelope, Typed, WorkerTypes, BatchInHand
<1> QED BY <1>2, <1>3, <1>4 DEF WorkerTypes

\* Every step keeps the types.
LEMMA NextTyped == Typed /\ [Next]_vars => Typed'
<1> SUFFICES ASSUME Typed, [Next]_vars PROVE Typed'
  OBVIOUS
<1> USE DEF Typed
<1>1. ASSUME NEW e \in Events, EnqueueStart(e) PROVE Typed'
  <2>1. ReplicaTypes'
    BY <1>1, NextReplayTypes DEF EnqueueStart
  <2> QED BY <1>1, <2>1
       DEF EnqueueStart, StoreTypes, WorkerTypes, BatchInHand, workerVars
<1>2. ASSUME NEW e \in Events, ReplayOk(e) PROVE Typed'
  <2>1. ReplicaTypes'
    BY <1>2, NextReplayTypes DEF ReplayOk
  <2>2. held[e] \in Events
    BY <1>2 DEF ReplayOk, ReplicaTypes
  <2>3. pending' \in Seq(LivePayload) /\ accepted' \in SUBSET Events
    BY <1>2, <2>2, RpushTypes DEF ReplayOk
  <2> QED BY <1>2, <2>1, <2>3
       DEF ReplayOk, StoreTypes, WorkerTypes, BatchInHand, workerVars
<1>3. ASSUME NEW e \in Events, ReplayRaises(e) PROVE Typed'
  <2>1. held[e] \in Events /\ HomeOf[e] \in Replicas
    BY <1>3, HomeAssumption DEF ReplayRaises, ReplicaTypes
  <2>2. /\ pending' \in Seq(LivePayload) /\ accepted' \in SUBSET Events
        /\ faults' \in 0..MaxFaults
    BY <1>3, <2>1, RpushRaisesTypes DEF ReplayRaises
  <2>3. PushRight(PushLeft(outbox[HomeOf[e]], held[e]), e) \in Seq(Events)
    BY <2>1, PushLeftType, PushRightType DEF ReplicaTypes
  <2>4. ReplicaTypes'
    BY <1>3, <2>1, <2>3 DEF ReplayRaises, ReplicaTypes, TaskState
  <2> QED BY <1>3, <2>2, <2>4
       DEF ReplayRaises, StoreTypes, WorkerTypes, BatchInHand, workerVars
<1>4. ASSUME NEW e \in Events, PushOk(e) PROVE Typed'
  <2>1. pending' \in Seq(LivePayload) /\ accepted' \in SUBSET Events
    BY <1>4, RpushTypes DEF PushOk
  <2>2. ReplicaTypes'
    BY <1>4 DEF PushOk, ReplicaTypes, TaskState
  <2> QED BY <1>4, <2>1, <2>2
       DEF PushOk, StoreTypes, WorkerTypes, BatchInHand, workerVars
<1>5. ASSUME NEW e \in Events, PushRaises(e) PROVE Typed'
  <2>1. /\ pending' \in Seq(LivePayload) /\ accepted' \in SUBSET Events
        /\ faults' \in 0..MaxFaults
    BY <1>5, RpushRaisesTypes DEF PushRaises
  <2>2. PushRight(outbox[HomeOf[e]], e) \in Seq(Events)
    BY HomeAssumption, PushRightType DEF ReplicaTypes
  <2>3. ReplicaTypes'
    BY <1>5, <2>2 DEF PushRaises, ReplicaTypes, TaskState
  <2> QED BY <1>5, <2>1, <2>3
       DEF PushRaises, StoreTypes, WorkerTypes, BatchInHand, workerVars
<1>6. ASSUME NEW r \in Replicas, ReplicaCrash(r) PROVE Typed'
  <2>1. ReplicaTypes'
    BY <1>6 DEF ReplicaCrash, ReplicaTypes, TaskState
  <2>2. faults' \in 0..MaxFaults
    BY <1>6, BoundsAssumption DEF ReplicaCrash, StoreTypes
  <2> QED BY <1>6, <2>1, <2>2
       DEF ReplicaCrash, StoreTypes, WorkerTypes, BatchInHand, workerVars
<1>7. ASSUME NEW w \in Workers, RecoverStaleClaims(w) PROVE Typed'
  <2>1. /\ pending' \in Seq(LivePayload) /\ faults' \in 0..MaxFaults
        /\ inflight' \in SUBSET LiveEnvelope /\ IsFiniteSet(inflight')
    BY <1>7, RequeueStaleTypes, BoundsAssumption DEF RecoverStaleClaims, StoreTypes
  <2>2. WorkerTypes'
    BY <1>7 DEF RecoverStaleClaims, WorkerTypes, BatchInHand, WorkerState
  <2> QED BY <1>7, <2>1, <2>2
       DEF RecoverStaleClaims, StoreTypes, ReplicaTypes, taskVars
<1>8. ASSUME NEW w \in Workers, ClaimOne(w) PROVE Typed'
  <2>1. pending # <<>>
    BY <1>8 DEF ClaimOne
  <2>2. Head(pending) \in LivePayload /\ Tail(pending) \in Seq(LivePayload)
    BY <2>1, HeadTailProperties DEF StoreTypes
  <2>3. PICK c \in ClaimIds :
           LET v == [payload |-> Head(pending), claim |-> c] IN
           /\ pending' = Tail(pending)
           /\ inflight' = inflight \cup {v}
           /\ batch' = [batch EXCEPT ![w] = Append(@, v)]
           /\ stale' = stale \ {c}
    BY <1>8 DEF ClaimOne
  <2> DEFINE v == [payload |-> Head(pending), claim |-> c]
  <2>4. v \in LiveEnvelope
    BY <2>2 DEF LiveEnvelope
  <2>5. inflight' \in SUBSET LiveEnvelope /\ IsFiniteSet(inflight')
    BY <2>3, <2>4, FS_AddElement DEF StoreTypes
  <2>6. batch' \in [Workers -> Seq(LiveEnvelope)]
    BY <2>3, <2>4 DEF WorkerTypes
  <2>7. BatchInHand'
    BY <1>8, <2>3 DEF ClaimOne, WorkerTypes, BatchInHand
  <2> QED BY <1>8, <2>2, <2>3, <2>5, <2>6, <2>7
       DEF ClaimOne, StoreTypes, WorkerTypes, ReplicaTypes, taskVars
<1>9. ASSUME NEW w \in Workers, ClaimDone(w) PROVE Typed'
  BY <1>9 DEF ClaimDone, StoreTypes, WorkerTypes, ReplicaTypes, taskVars,
              BatchInHand, WorkerState
<1>10. ASSUME NEW w \in Workers, BulkInsert(w) PROVE Typed'
  <2>1. rows' \in [Events -> Nat]
    BY <1>10, WithRowsGrows DEF BulkInsert, StoreTypes, WorkerTypes
  <2> QED BY <1>10, <2>1 DEF BulkInsert, StoreTypes, WorkerTypes, ReplicaTypes,
             taskVars, BatchInHand, WorkerState
<1>11. ASSUME NEW w \in Workers, BulkInsertRaises(w) PROVE Typed'
  <2>1. rows' \in [Events -> Nat]
    BY <1>11, WithRowsGrows DEF BulkInsertRaises, StoreTypes, WorkerTypes
  <2>2. faults' \in 0..MaxFaults
    BY <1>11, BoundsAssumption DEF BulkInsertRaises, StoreTypes
  <2> QED BY <1>11, <2>1, <2>2 DEF BulkInsertRaises, StoreTypes, WorkerTypes,
             ReplicaTypes, taskVars, BatchInHand, WorkerState
<1>12. ASSUME NEW w \in Workers, AckClaimed(w) PROVE Typed'
  <2>1. /\ inflight' \in SUBSET LiveEnvelope /\ IsFiniteSet(inflight')
        /\ WorkerTypes'
    BY <1>12, RemoveEnvelopeTypes DEF AckClaimed, WorkerState
  <2> QED BY <1>12, <2>1 DEF AckClaimed, StoreTypes, ReplicaTypes, taskVars
<1>13. ASSUME NEW w \in Workers, RetryPush(w) PROVE Typed'
  <2> DEFINE p == Head(batch[w]).payload
             q == [p EXCEPT !.attempt = @ + 1]
  <2>1. p \in LivePayload
    BY <1>13, HeadOfBatch DEF RetryPush, LiveEnvelope
  <2>2. q.attempt = p.attempt + 1 /\ q = [ev |-> p.ev, attempt |-> p.attempt + 1]
    BY <2>1 DEF LivePayload
  <2>3. q.attempt >= MaxAttempts => q \in DeadPayload
    BY <2>1, <2>2, BoundsAssumption DEF LivePayload, DeadPayload
  <2>4. q.attempt < MaxAttempts => q \in LivePayload
    BY <2>1, <2>2, BoundsAssumption DEF LivePayload
  <2>5. \/ q.attempt >= MaxAttempts /\ dlq' = dlq \cup {q} /\ pending' = pending
        \/ q.attempt < MaxAttempts /\ pending' = Append(pending, q) /\ dlq' = dlq
    BY <1>13 DEF RetryPush
  <2>6. pending' \in Seq(LivePayload) /\ dlq' \in SUBSET DeadPayload
    <3> HIDE DEF q
    <3>1. pending \in Seq(LivePayload) /\ dlq \in SUBSET DeadPayload
      BY DEF StoreTypes
    <3> QED BY <2>3, <2>4, <2>5, <3>1
  <2>7. WorkerTypes'
    BY <1>13 DEF RetryPush, WorkerTypes, BatchInHand, WorkerState
  <2> QED BY <1>13, <2>6, <2>7 DEF RetryPush, StoreTypes, ReplicaTypes, taskVars
<1>14. ASSUME NEW w \in Workers, RetryRemove(w) PROVE Typed'
  <2>1. /\ inflight' \in SUBSET LiveEnvelope /\ IsFiniteSet(inflight')
        /\ WorkerTypes'
    BY <1>14, RemoveEnvelopeTypes DEF RetryRemove, WorkerState
  <2> QED BY <1>14, <2>1 DEF RetryRemove, StoreTypes, ReplicaTypes, taskVars
<1>15. ASSUME NEW w \in Workers, Abandon(w) PROVE Typed'
  <2>1. WorkerTypes'
    BY <1>15 DEF Abandon, WorkerTypes, BatchInHand, WorkerState
  <2> QED BY <1>15, <2>1, BoundsAssumption
       DEF Abandon, StoreTypes, ReplicaTypes, taskVars
<1>16. ASSUME NEW c \in ClaimIds, ClaimAges(c) PROVE Typed'
  BY <1>16, BoundsAssumption DEF ClaimAges, StoreTypes, ReplicaTypes, taskVars,
     WorkerTypes, workerVars, BatchInHand
<1>17. CASE FlushDlq
  BY <1>17 DEF FlushDlq, StoreTypes, ReplicaTypes, taskVars, WorkerTypes,
     workerVars, BatchInHand, DeadPayload
<1>18. CASE UNCHANGED vars
  BY <1>18 DEF vars, StoreTypes, ReplicaTypes, WorkerTypes, BatchInHand
<1> QED BY <1>1, <1>2, <1>3, <1>4, <1>5, <1>6, <1>7, <1>8, <1>9, <1>10, <1>11,
           <1>12, <1>13, <1>14, <1>15, <1>16, <1>17, <1>18
        DEF Next, EnqueueStep, EnqueueFault, FlushStep

LEMMA TypedGivesTypes == Typed => TypeOK /\ RetriesBounded
<1> SUFFICES ASSUME Typed PROVE TypeOK /\ RetriesBounded
  OBVIOUS
<1>1. LivePayload \subseteq Payload /\ DeadPayload \subseteq Payload
  BY BoundsAssumption DEF LivePayload, DeadPayload, Payload
<1>2. LiveEnvelope \subseteq Envelope
  BY <1>1 DEF LiveEnvelope, Envelope
<1>3. pending \in Seq(Payload)
  BY <1>1, SeqMonotonic DEF Typed, StoreTypes
<1>4. batch \in [Workers -> Seq(Envelope)]
  BY <1>2, SeqMonotonic DEF Typed, WorkerTypes
<1>5. TypeOK
  BY <1>1, <1>2, <1>3, <1>4
     DEF TypeOK, Typed, ReplicaTypes, StoreTypes, WorkerTypes
<1>6. \A i \in DOMAIN pending : pending[i].attempt < MaxAttempts
  <2>1. \A i \in DOMAIN pending : pending[i] \in LivePayload
    BY DEF Typed, StoreTypes
  <2> QED BY <2>1, BoundsAssumption DEF LivePayload
<1>7. \A v \in inflight : v.payload.attempt < MaxAttempts
  BY BoundsAssumption DEF Typed, StoreTypes, LiveEnvelope, LivePayload
<1>8. \A d \in dlq : d.attempt = MaxAttempts
  BY DEF Typed, StoreTypes, DeadPayload
<1> QED BY <1>5, <1>6, <1>7, <1>8 DEF RetriesBounded

LEMMA AlwaysTyped == Spec => []Typed
BY InitTyped, NextTyped, PTL DEF Spec

\* The state of the queue has its types in every reachable state.
THEOREM TypeCorrect == Spec => []TypeOK
BY AlwaysTyped, TypedGivesTypes, PTL

\* retry_or_dlq_claimed: a payload is retried fewer than MAX_RETRY_ATTEMPTS
\* times, and the dead-letter list holds only payloads that failed as often.
THEOREM RetriesAreBounded == Spec => []RetriesBounded
BY AlwaysTyped, TypedGivesTypes, PTL

-----------------------------------------------------------------------------
(* No accepted event is lost.                                               *)

\* _bulk_insert: within a batch, some event is the first with its request_id.
LEMMA FirstWithRequestId ==
    ASSUME NEW b \in Seq(LiveEnvelope), NEW i \in DOMAIN b
    PROVE  \E k \in DOMAIN b :
              /\ RequestId[b[k].payload.ev] = RequestId[b[i].payload.ev]
              /\ \A j \in 1..(k - 1) :
                    RequestId[b[j].payload.ev] # RequestId[b[k].payload.ev]
<1> DEFINE T == {k \in DOMAIN b :
                   RequestId[b[k].payload.ev] = RequestId[b[i].payload.ev]}
<1>1. DOMAIN b = 1..Len(b) /\ Len(b) \in Nat
  BY LenProperties
<1>2. T \subseteq Nat /\ T # {}
  BY <1>1
<1>3. PICK k \in T : \A j \in T : ~(<<j, k>> \in OpToRel(<, Nat))
  <2> HIDE DEF T
  <2> QED BY <1>2, NatLessThanWellFounded, WFMin
<1>4. \A j \in T : ~(j < k)
  BY <1>2, <1>3 DEF OpToRel
<1>5. ASSUME NEW j \in 1..(k - 1)
      PROVE  RequestId[b[j].payload.ev] # RequestId[b[k].payload.ev]
  <2>1. j \in DOMAIN b /\ j < k
    BY <1>1
  <2> QED BY <1>4, <2>1
<1> QED BY <1>5

\* The transaction leaves a row for every event of the batch.
LEMMA BatchWritten ==
    ASSUME NEW b \in Seq(LiveEnvelope), Written' = Written \cup NewRows(b),
           NEW i \in DOMAIN b
    PROVE  HasRow(b[i].payload.ev)'
<1>1. PICK k \in DOMAIN b :
              /\ RequestId[b[k].payload.ev] = RequestId[b[i].payload.ev]
              /\ \A j \in 1..(k - 1) :
                    RequestId[b[j].payload.ev] # RequestId[b[k].payload.ev]
  BY FirstWithRequestId
<1>2. CASE HasRow(b[k].payload.ev)
  BY <1>1, <1>2 DEF HasRow
<1>3. CASE ~HasRow(b[k].payload.ev)
  <2>1. b[k].payload.ev \in NewRows(b)
    BY <1>1, <1>3 DEF NewRows
  <2> QED BY <1>1, <2>1 DEF HasRow
<1> QED BY <1>2, <1>3

\* A step leaves the table alone or adds the rows of a worker's batch.
LEMMA TableSteps ==
    [Next]_vars => rows' = rows \/ \E w \in Workers : rows' = WithRows(batch[w])
BY DEF Next, vars, EnqueueStep, EnqueueFault, FlushStep, EnqueueStart, ReplayOk,
       ReplayRaises, PushOk, PushRaises, ReplicaCrash, RecoverStaleClaims, ClaimOne,
       ClaimDone, BulkInsert, BulkInsertRaises, AckClaimed, RetryPush, RetryRemove,
       Abandon, ClaimAges, FlushDlq

\* Rows are never removed.
LEMMA RowsGrow == Typed /\ [Next]_vars => Written \subseteq Written'
<1> SUFFICES ASSUME Typed, [Next]_vars PROVE Written \subseteq Written'
  OBVIOUS
<1>1. CASE rows' = rows
  BY <1>1 DEF Written
<1>2. ASSUME NEW w \in Workers, rows' = WithRows(batch[w])
      PROVE  Written \subseteq Written'
  <2>1. rows \in [Events -> Nat] /\ batch[w] \in Seq(LiveEnvelope)
    BY DEF Typed, StoreTypes, WorkerTypes
  <2> QED BY <1>2, <2>1, WithRowsGrows
<1> QED BY <1>1, <1>2, TableSteps

\* A step that lets no worker enter "ack" and hands none a new batch there
\* keeps AckOnlyAfterCommit.
LEMMA AckKept ==
    ASSUME AckOnlyAfterCommit, Written \subseteq Written',
           \A u \in Workers : wpc'[u] = "ack" => wpc[u] = "ack" /\ batch'[u] = batch[u]
    PROVE  AckOnlyAfterCommit'
BY DEF AckOnlyAfterCommit, HasRow

LEMMA NextAck ==
    Typed /\ AckOnlyAfterCommit /\ [Next]_vars => AckOnlyAfterCommit'
<1> SUFFICES ASSUME Typed, AckOnlyAfterCommit, [Next]_vars
             PROVE  AckOnlyAfterCommit'
  OBVIOUS
<1>0. Written \subseteq Written'
  BY RowsGrow
<1>1. wpc \in [Workers -> WorkerState] /\ batch \in [Workers -> Seq(LiveEnvelope)]
  BY DEF Typed, WorkerTypes
<1>2. ASSUME NEW w \in Workers, BulkInsert(w) PROVE AckOnlyAfterCommit'
  <2>0. Written' = Written \cup NewRows(batch[w])
    BY <1>1, <1>2, WithRowsGrows DEF BulkInsert, Typed, StoreTypes
  <2>1. \A i \in DOMAIN batch[w] : HasRow(batch[w][i].payload.ev)'
    <3>1. batch[w] \in Seq(LiveEnvelope) /\ batch' = batch
      BY <1>1, <1>2 DEF BulkInsert
    <3> QED BY <2>0, <3>1, BatchWritten
  <2>2. \A u \in Workers \ {w} : wpc'[u] = wpc[u] /\ batch'[u] = batch[u]
    BY <1>1, <1>2 DEF BulkInsert
  <2>3. batch'[w] = batch[w]
    BY <1>2 DEF BulkInsert
  <2> QED BY <1>0, <2>1, <2>2, <2>3 DEF AckOnlyAfterCommit, HasRow
<1>3. ASSUME NEW w \in Workers, AckClaimed(w) PROVE AckOnlyAfterCommit'
  <2>1. \A u \in Workers \ {w} : wpc'[u] = wpc[u] /\ batch'[u] = batch[u]
    BY <1>1, <1>3 DEF AckClaimed, RemoveEnvelope
  <2>2. batch'[w] = Tail(batch[w]) /\ wpc[w] = "ack"
    BY <1>1, <1>3 DEF AckClaimed, RemoveEnvelope
  <2>3. batch[w] # <<>>
    BY <2>2, HeadOfBatch DEF Typed
  <2>4. ASSUME NEW i \in DOMAIN Tail(batch[w])
        PROVE  i + 1 \in DOMAIN batch[w] /\ Tail(batch[w])[i] = batch[w][i + 1]
    BY <1>1, <2>3, HeadTailProperties, LenProperties
  <2>5. \A i \in DOMAIN Tail(batch[w]) : HasRow(Tail(batch[w])[i].payload.ev)
    BY <2>2, <2>4 DEF AckOnlyAfterCommit
  <2>6. \A u \in Workers : wpc'[u] = "ack" =>
           \A i \in DOMAIN batch'[u] : HasRow(batch'[u][i].payload.ev)
    BY <2>1, <2>2, <2>5 DEF AckOnlyAfterCommit
  <2> QED BY <1>0, <2>6 DEF AckOnlyAfterCommit, HasRow
<1>4. ASSUME NEW w \in Workers,
             \/ RecoverStaleClaims(w) \/ ClaimOne(w) \/ ClaimDone(w)
             \/ BulkInsertRaises(w) \/ RetryPush(w) \/ RetryRemove(w) \/ Abandon(w)
      PROVE  AckOnlyAfterCommit'
  <2>1. \A u \in Workers :
           wpc'[u] = "ack" => wpc[u] = "ack" /\ batch'[u] = batch[u]
    BY <1>1, <1>4 DEF RecoverStaleClaims, ClaimOne, ClaimDone, BulkInsertRaises,
       RetryPush, RetryRemove, RemoveEnvelope, Abandon
  <2> QED BY <1>0, <2>1, AckKept
<1>5. ASSUME UNCHANGED workerVars PROVE AckOnlyAfterCommit'
  <2>1. wpc' = wpc /\ batch' = batch
    BY <1>5 DEF workerVars
  <2> QED BY <1>0, <2>1 DEF AckOnlyAfterCommit, HasRow
<1>6. \/ UNCHANGED workerVars
      \/ \E w \in Workers : FlushStep(w) \/ Abandon(w)
  BY DEF Next, vars, workerVars, EnqueueStep, EnqueueFault, EnqueueStart, ReplayOk,
     ReplayRaises, PushOk, PushRaises, ReplicaCrash, ClaimAges, FlushDlq
<1> QED BY <1>2, <1>3, <1>4, <1>5, <1>6 DEF FlushStep

\* What keeps a copy of an event: every place that may hold it only grows, and
\* no more inflight envelopes are doomed.
LEMMA CopyKept ==
    ASSUME NEW e, CopySurvives(e), InPending(e) => InPending(e)',
           inflight \subseteq inflight', Doomed' \cap inflight \subseteq Doomed,
           dlq \subseteq dlq', Written \subseteq Written', purged \subseteq purged'
    PROVE  CopySurvives(e)'
BY DEF CopySurvives, InDlq, HasRow

\* RPUSH keeps what is queued and queues the new payload.
LEMMA AppendKeepsPending ==
    ASSUME pending \in Seq(LivePayload), NEW q \in LivePayload,
           pending' = Append(pending, q)
    PROVE  /\ \A e : InPending(e) => InPending(e)'
           /\ InPending(q.ev)'
<1>1. \A i \in DOMAIN pending : i \in DOMAIN pending' /\ pending'[i] = pending[i]
  BY AppendProperties, LenProperties
<1>2. Len(pending) + 1 \in DOMAIN pending' /\ pending'[Len(pending) + 1] = q
  BY AppendProperties, LenProperties
<1> QED BY <1>1, <1>2 DEF InPending

\* A worker outside "retryRem" dooms nothing.
LEMMA DoomedShrinks ==
    ASSUME wpc \in [Workers -> WorkerState], NEW w \in Workers,
           wpc'[w] # "retryRem",
           \A u \in Workers \ {w} : wpc'[u] = wpc[u] /\ batch'[u] = batch[u]
    PROVE  Doomed' \subseteq Doomed
BY DEF Doomed

\* The events that the Redis lists, the table or the administrator account for.
Durable == \A e \in accepted : CopySurvives(e)

\* The steps of the enqueueing replicas, of time and of the administrator keep
\* every copy.
LEMMA EnqueueDurable ==
    ASSUME Typed, Durable, UNCHANGED <<wpc, batch, inflight, dlq, rows, purged>>,
           \/ UNCHANGED <<pending, accepted>>
           \/ \E e \in Events : Rpush(e)
    PROVE  Durable'
<1>1. Doomed' = Doomed
  BY DEF Doomed
<1>2. CASE UNCHANGED <<pending, accepted>>
  BY <1>1, <1>2, CopyKept DEF Durable, InPending, Written
<1>3. CASE \E e \in Events : Rpush(e)
  <2>1. PICK e \in Events : Rpush(e)
    BY <1>3
  <2>2. Fresh(e) \in LivePayload /\ Fresh(e).ev = e
    BY BoundsAssumption DEF Fresh, LivePayload
  <2>3. (\A f : InPending(f) => InPending(f)') /\ InPending(e)'
    BY <2>1, <2>2, AppendKeepsPending DEF Rpush, Typed, StoreTypes
  <2>4. CopySurvives(e)'
    BY <2>3 DEF CopySurvives
  <2>5. \A f \in accepted : CopySurvives(f)'
    BY <1>1, <2>3, CopyKept DEF Durable, Written
  <2> QED BY <2>1, <2>4, <2>5 DEF Durable, Rpush
<1> QED BY <1>2, <1>3

LEMMA RequeueDurable ==
    ASSUME Typed, Durable, NEW w \in Workers, RecoverStaleClaims(w)
    PROVE  Durable'
<1>0. Doomed' \subseteq Doomed
  <2>1. wpc'[w] # "retryRem"
    BY DEF RecoverStaleClaims, Typed, WorkerTypes
  <2>2. \A u \in Workers \ {w} : wpc'[u] = wpc[u] /\ batch'[u] = batch[u]
    BY DEF RecoverStaleClaims, Typed, WorkerTypes
  <2> QED BY <2>1, <2>2, DoomedShrinks DEF Typed, WorkerTypes
<1>1. CASE UNCHANGED <<pending, inflight>>
  BY <1>0, <1>1, CopyKept DEF Durable, InPending, Written, RecoverStaleClaims
<1>2. CASE RequeueStale
  <2> DEFINE old == {v \in inflight : v.claim \in stale}
  <2>1. PICK s \in Listings(old) :
            pending' = pending \o [i \in DOMAIN s |-> s[i].payload]
    BY <1>2 DEF RequeueStale
  <2> DEFINE t == [i \in DOMAIN s |-> s[i].payload]
  <2>2. old \in SUBSET LiveEnvelope /\ IsFiniteSet(old)
    BY FS_Subset DEF Typed, StoreTypes
  <2>3. pending \in Seq(LivePayload) /\ t \in Seq(LivePayload)
    BY <2>2, ListingPayloads DEF Typed, StoreTypes
  <2>4. \A i \in DOMAIN pending : i \in DOMAIN pending' /\ pending'[i] = pending[i]
    <3> HIDE DEF t
    <3> QED BY <2>1, <2>3, ConcatProperties, LenProperties DEF t
  <2>5. ASSUME NEW v \in old PROVE InPending(v.payload.ev)'
    <3>1. PICK i \in DOMAIN s : s[i] = v
      BY DEF Listings
    <3>2. i \in DOMAIN t /\ t[i] = v.payload
      BY <3>1
    <3>3. /\ Len(pending) + i \in DOMAIN pending'
          /\ pending'[Len(pending) + i] = t[i]
      <4>1. pending' = pending \o t
        BY <2>1
      <4> HIDE DEF t
      <4> QED BY <2>3, <3>2, <4>1, ConcatProperties, LenProperties
    <3> QED BY <3>2, <3>3 DEF InPending
  <2>6. ASSUME NEW e \in accepted PROVE CopySurvives(e)'
    <3>1. CopySurvives(e)
      BY DEF Durable
    <3>2. CASE \E v \in old : v.payload.ev = e
      BY <2>5, <3>2 DEF CopySurvives
    <3>3. CASE ~\E v \in old : v.payload.ev = e
      <4>1. InPending(e) => InPending(e)'
        BY <2>4 DEF InPending
      <4>2. inflight' = inflight \ old
        BY <1>2 DEF RequeueStale
      <4>3. dlq' = dlq /\ rows' = rows /\ purged' = purged
        BY DEF RecoverStaleClaims
      <4> QED BY <1>0, <3>1, <3>3, <4>1, <4>2, <4>3
           DEF CopySurvives, InDlq, HasRow, Written
    <3> QED BY <3>2, <3>3
  <2> QED BY <2>6 DEF Durable, RecoverStaleClaims
<1> QED BY <1>1, <1>2 DEF RecoverStaleClaims

LEMMA ClaimDurable ==
    ASSUME Typed, Durable, NEW w \in Workers, ClaimOne(w)
    PROVE  Durable'
<1>1. pending \in Seq(LivePayload) /\ pending # <<>>
  BY DEF ClaimOne, Typed, StoreTypes
<1>2. PICK c \in ClaimIds \ InUse :
         LET v == [payload |-> Head(pending), claim |-> c] IN
         /\ pending' = Tail(pending)
         /\ inflight' = inflight \cup {v}
         /\ batch' = [batch EXCEPT ![w] = Append(@, v)]
  BY DEF ClaimOne
<1> DEFINE v == [payload |-> Head(pending), claim |-> c]
<1>3. Doomed' = Doomed
  BY <1>2 DEF Doomed, ClaimOne, Typed, WorkerTypes
<1>4. v \notin Doomed
  <2>1. SUFFICES ASSUME NEW u \in Workers, wpc[u] = "retryRem", v = Head(batch[u])
                 PROVE  FALSE
    BY DEF Doomed
  <2>2. batch[u] \in Seq(LiveEnvelope) /\ batch[u] # <<>>
    BY <2>1 DEF Typed, WorkerTypes, BatchInHand
  <2>3. 1 \in DOMAIN batch[u] /\ Head(batch[u]) = batch[u][1]
    BY <2>2, EmptySeq, LenProperties
  <2>4. batch[u][1].claim = c
    BY <2>1, <2>3
  <2>5. c \in Worked
    BY <2>3, <2>4 DEF Worked
  <2> QED BY <2>5 DEF InUse
<1>5. ASSUME NEW e \in accepted PROVE CopySurvives(e)'
  <2>1. CopySurvives(e)
    BY DEF Durable
  <2>2. dlq' = dlq /\ rows' = rows /\ purged' = purged
    BY DEF ClaimOne
  <2>3. CASE Head(pending).ev = e
    BY <1>2, <1>3, <1>4, <2>3 DEF CopySurvives
  <2>4. CASE Head(pending).ev # e
    <3>1. InPending(e) => InPending(e)'
      <4>1. SUFFICES ASSUME NEW i \in DOMAIN pending, pending[i].ev = e
                     PROVE  InPending(e)'
        BY DEF InPending
      <4>2. DOMAIN pending = 1..Len(pending) /\ Len(pending) \in Nat
        BY <1>1, LenProperties
      <4>3. i # 1
        BY <1>1, <2>4, <4>1
      <4>4. /\ Len(Tail(pending)) = Len(pending) - 1
            /\ \A j \in 1..Len(Tail(pending)) : Tail(pending)[j] = pending[j + 1]
            /\ DOMAIN Tail(pending) = 1..Len(Tail(pending))
        BY <1>1, HeadTailProperties, LenProperties
      <4>5. i - 1 \in DOMAIN Tail(pending) /\ Tail(pending)[i - 1] = pending[i]
        BY <4>2, <4>3, <4>4
      <4> QED BY <1>2, <4>1, <4>5 DEF InPending
    <3> QED BY <1>2, <1>3, <2>1, <2>2, <3>1, CopyKept DEF Written
  <2> QED BY <2>3, <2>4
<1> QED BY <1>5 DEF Durable, ClaimOne

LEMMA AckDurable ==
    ASSUME Typed, Durable, AckOnlyAfterCommit, NEW w \in Workers, AckClaimed(w)
    PROVE  Durable'
<1>0. wpc \in [Workers -> WorkerState] /\ batch \in [Workers -> Seq(LiveEnvelope)]
  BY DEF Typed, WorkerTypes
<1>1. Doomed' \subseteq Doomed
  <2>1. wpc'[w] # "retryRem"
    BY <1>0 DEF AckClaimed, RemoveEnvelope
  <2>2. \A u \in Workers \ {w} : wpc'[u] = wpc[u] /\ batch'[u] = batch[u]
    BY <1>0 DEF AckClaimed, RemoveEnvelope
  <2> QED BY <1>0, <2>1, <2>2, DoomedShrinks
<1>2. HasRow(Head(batch[w]).payload.ev)
  <2>1. batch[w] # <<>> /\ wpc[w] = "ack"
    BY HeadOfBatch DEF AckClaimed, Typed
  <2>2. 1 \in DOMAIN batch[w] /\ Head(batch[w]) = batch[w][1]
    BY <1>0, <2>1, EmptySeq, LenProperties
  <2> QED BY <2>1, <2>2 DEF AckOnlyAfterCommit
<1>3. inflight' = inflight \ {Head(batch[w])}
  BY DEF AckClaimed, RemoveEnvelope
<1>4. ASSUME NEW e \in accepted PROVE CopySurvives(e)'
  <2>1. CopySurvives(e)
    BY DEF Durable
  <2>2. pending' = pending /\ dlq' = dlq /\ rows' = rows /\ purged' = purged
    BY DEF AckClaimed
  <2>3. CASE e = Head(batch[w]).payload.ev
    BY <1>2, <2>2, <2>3 DEF CopySurvives, HasRow, Written
  <2>4. CASE e # Head(batch[w]).payload.ev
    BY <1>1, <1>3, <2>1, <2>2, <2>4 DEF CopySurvives, InPending, InDlq,
       HasRow, Written
  <2> QED BY <2>3, <2>4
<1> QED BY <1>4 DEF Durable, AckClaimed

LEMMA RetryPushDurable ==
    ASSUME Typed, Durable, NEW w \in Workers, RetryPush(w)
    PROVE  Durable'
<1> DEFINE h == Head(batch[w])
           q == [h.payload EXCEPT !.attempt = @ + 1]
<1>0. wpc \in [Workers -> WorkerState] /\ pending \in Seq(LivePayload)
  BY DEF Typed, WorkerTypes, StoreTypes
<1>1. h \in LiveEnvelope
  BY HeadOfBatch DEF RetryPush, Typed
<1>2. /\ q = [ev |-> h.payload.ev, attempt |-> h.payload.attempt + 1]
      /\ h.payload.attempt \in 0..(MaxAttempts - 1) /\ h.payload.ev \in Events
  BY <1>1 DEF LiveEnvelope, LivePayload
<1>3. \/ dlq' = dlq \cup {q} /\ pending' = pending
      \/ q.attempt < MaxAttempts /\ pending' = Append(pending, q) /\ dlq' = dlq
  BY DEF RetryPush
<1>4. Doomed' \subseteq Doomed \cup {h}
  BY <1>0 DEF RetryPush, Doomed
<1>x. PICK x \in Events : x = h.payload.ev
  BY <1>2
<1>5. (InPending(x) \/ InDlq(x))'
      /\ dlq \subseteq dlq' /\ (\A e : InPending(e) => InPending(e)')
  <2>1. CASE dlq' = dlq \cup {q} /\ pending' = pending
    <3>1. q.ev = x
      BY <1>2, <1>x
    <3> HIDE DEF q
    <3> QED BY <2>1, <3>1 DEF InPending, InDlq, RetryPush
  <2>2. CASE q.attempt < MaxAttempts /\ pending' = Append(pending, q) /\ dlq' = dlq
    <3>1. q \in LivePayload /\ q.ev = x
      BY <1>2, <1>x, <2>2, BoundsAssumption, SMTT(30) DEF LivePayload
    <3> HIDE DEF q
    <3> QED BY <1>0, <2>2, <3>1, AppendKeepsPending
  <2> QED BY <1>3, <2>1, <2>2
<1>6. ASSUME NEW e \in accepted PROVE CopySurvives(e)'
  <2>1. CopySurvives(e)
    BY DEF Durable
  <2>2. inflight' = inflight /\ rows' = rows /\ purged' = purged
    BY DEF RetryPush
  <2>3. CASE e = x
    BY <1>5, <2>3 DEF CopySurvives
  <2>4. CASE e # x
    BY <1>x, <1>4, <1>5, <2>1, <2>2, <2>4 DEF CopySurvives, InDlq, HasRow, Written
  <2> QED BY <2>3, <2>4
<1> QED BY <1>6 DEF Durable, RetryPush

LEMMA RetryRemoveDurable ==
    ASSUME Typed, Durable, NEW w \in Workers, RetryRemove(w)
    PROVE  Durable'
<1>0. wpc \in [Workers -> WorkerState] /\ batch \in [Workers -> Seq(LiveEnvelope)]
  BY DEF Typed, WorkerTypes
<1>1. Doomed' \subseteq Doomed
  <2>1. wpc'[w] # "retryRem"
    BY <1>0 DEF RetryRemove, RemoveEnvelope
  <2>2. \A u \in Workers \ {w} : wpc'[u] = wpc[u] /\ batch'[u] = batch[u]
    BY <1>0 DEF RetryRemove, RemoveEnvelope
  <2> QED BY <1>0, <2>1, <2>2, DoomedShrinks
<1>2. Head(batch[w]) \in Doomed
  BY DEF Doomed, RetryRemove
<1>3. inflight' = inflight \ {Head(batch[w])}
  BY DEF RetryRemove, RemoveEnvelope
<1> QED BY <1>1, <1>2, <1>3
     DEF Durable, CopySurvives, InPending, InDlq, HasRow, Written, RetryRemove

\* A step that neither removes a copy nor enters "retryRem".
LEMMA WorkerDurable ==
    ASSUME Typed, Durable, NEW w \in Workers,
           ClaimDone(w) \/ BulkInsert(w) \/ BulkInsertRaises(w) \/ Abandon(w)
    PROVE  Durable'
<1>0. wpc \in [Workers -> WorkerState] /\ batch \in [Workers -> Seq(LiveEnvelope)]
  BY DEF Typed, WorkerTypes
<1> USE DEF ClaimDone, BulkInsert, BulkInsertRaises, Abandon
<1>1. Doomed' \subseteq Doomed
  <2>1. wpc'[w] # "retryRem"
    BY <1>0
  <2>2. \A u \in Workers \ {w} : wpc'[u] = wpc[u] /\ batch'[u] = batch[u]
    BY <1>0
  <2> QED BY <1>0, <2>1, <2>2, DoomedShrinks
<1>2. /\ pending' = pending /\ inflight' = inflight /\ dlq' = dlq
      /\ purged' = purged /\ accepted' = accepted
  OBVIOUS
<1>3. Written \subseteq Written'
  <2>1. [Next]_vars
    BY DEF Next, FlushStep
  <2> QED BY <2>1, RowsGrow
<1> QED BY <1>1, <1>2, <1>3, CopyKept DEF Durable, InPending

LEMMA NextDurable ==
    Typed /\ AckOnlyAfterCommit /\ Durable /\ [Next]_vars => Durable'
<1> SUFFICES ASSUME Typed, AckOnlyAfterCommit, Durable, [Next]_vars
             PROVE  Durable'
  OBVIOUS
<1>1. ASSUME NEW e \in Events, EnqueueStep(e) \/ EnqueueFault(e) PROVE Durable'
  <2>1. /\ UNCHANGED <<wpc, batch, inflight, dlq, rows, purged>>
        /\ \/ UNCHANGED <<pending, accepted>>
           \/ \E f \in Events : Rpush(f)
    BY <1>1 DEF EnqueueStep, EnqueueFault, EnqueueStart, ReplayOk, ReplayRaises,
       PushOk, PushRaises, RpushRaises, workerVars, Typed, ReplicaTypes
  <2> QED BY <2>1, EnqueueDurable
<1>2. CASE UNCHANGED vars \/ (\E r \in Replicas : ReplicaCrash(r))
           \/ (\E c \in ClaimIds : ClaimAges(c))
  <2>1. UNCHANGED <<wpc, batch, inflight, dlq, rows, purged, pending, accepted>>
    BY <1>2 DEF vars, ReplicaCrash, ClaimAges, workerVars
  <2> QED BY <2>1, EnqueueDurable
<1>3. CASE FlushDlq
  <2>1. Doomed' = Doomed
    BY <1>3 DEF FlushDlq, Doomed, workerVars
  <2> QED BY <1>3, <2>1 DEF FlushDlq, Durable, CopySurvives, InPending, InDlq,
       HasRow, Written
<1>4. ASSUME NEW w \in Workers, FlushStep(w) \/ Abandon(w) PROVE Durable'
  BY <1>4, RequeueDurable, ClaimDurable, AckDurable, RetryPushDurable,
     RetryRemoveDurable, WorkerDurable DEF FlushStep
<1> QED BY <1>1, <1>2, <1>3, <1>4 DEF Next

\* At-least-once accounting: whatever crashes, stalls, is retried or recovered,
\* an event that Redis accepted stays queued, inflight or dead-lettered until
\* its request_id has a row or an administrator deletes it.
THEOREM NothingAcceptedIsLost == Spec => []NoAcceptedEventLost
<1> DEFINE IInv == Typed /\ AckOnlyAfterCommit /\ Durable
<1>1. Init => IInv
  <2>1. Init => AckOnlyAfterCommit /\ Durable
    BY DEF Init, AckOnlyAfterCommit, Durable
  <2> QED BY <2>1, InitTyped
<1>2. IInv /\ [Next]_vars => IInv'
  BY NextTyped, NextAck, NextDurable
<1>3. IInv => NoAcceptedEventLost
  BY DEF Durable, CopySurvives, NoAcceptedEventLost, InInflight
<1> QED BY <1>1, <1>2, <1>3, PTL DEF Spec

\* ack_claimed runs only after the commit: each envelope it removes has a row.
THEOREM AcknowledgedIsWritten == Spec => []AckOnlyAfterCommit
<1>1. Init => AckOnlyAfterCommit
  BY DEF Init, AckOnlyAfterCommit
<1> QED BY <1>1, AlwaysTyped, NextAck, PTL DEF Spec

-----------------------------------------------------------------------------
(* One row per request_id.                                                  *)

\* A transaction adds at most one row per request_id, and none for one that
\* has a row.
LEMMA InsertKeepsOneRow ==
    ASSUME NEW b \in Seq(LiveEnvelope), OneRowPerRequestId,
           rows \in [Events -> Nat], rows' = WithRows(b)
    PROVE  OneRowPerRequestId'
<1>1. DOMAIN b = 1..Len(b) /\ Len(b) \in Nat
  BY LenProperties
<1>2. ASSUME NEW e \in NewRows(b), NEW f \in NewRows(b),
             RequestId[e] = RequestId[f]
      PROVE  e = f
  <2>1. PICK k \in DOMAIN b : /\ e = b[k].payload.ev
            /\ \A j \in 1..(k - 1) :
                  RequestId[b[j].payload.ev] # RequestId[b[k].payload.ev]
    BY DEF NewRows
  <2>2. PICK l \in DOMAIN b : /\ f = b[l].payload.ev
            /\ \A j \in 1..(l - 1) :
                  RequestId[b[j].payload.ev] # RequestId[b[l].payload.ev]
    BY DEF NewRows
  <2>3. ~(k < l) /\ ~(l < k)
    BY <1>1, <1>2, <2>1, <2>2
  <2> QED BY <1>1, <2>1, <2>2, <2>3
<1>3. ASSUME NEW e \in NewRows(b), NEW f \in Written
      PROVE  RequestId[e] # RequestId[f]
  BY DEF NewRows, HasRow
<1>4. Written' = Written \cup NewRows(b)
  BY WithRowsGrows
<1>5. ASSUME NEW e \in Events PROVE rows'[e] <= 1
  <2>1. e \in NewRows(b) => rows[e] = 0
    BY <1>3 DEF Written
  <2> QED BY <2>1 DEF WithRows, OneRowPerRequestId
<1> QED BY <1>2, <1>3, <1>4, <1>5 DEF OneRowPerRequestId

\* insert_ignore_conflicts: however often copies of an event are written, by
\* however many workers, its request_id has one row.
THEOREM OneRowEach == Spec => []OneRowPerRequestId
<1>1. Init => OneRowPerRequestId
  BY DEF Init, OneRowPerRequestId, Written
<1>2. Typed /\ OneRowPerRequestId /\ [Next]_vars => OneRowPerRequestId'
  <2> SUFFICES ASSUME Typed, OneRowPerRequestId, [Next]_vars
               PROVE  OneRowPerRequestId'
    OBVIOUS
  <2>2. CASE rows' = rows
    BY <2>2 DEF OneRowPerRequestId, Written
  <2>3. ASSUME NEW w \in Workers, rows' = WithRows(batch[w])
        PROVE  OneRowPerRequestId'
    BY <2>3, InsertKeepsOneRow DEF Typed, StoreTypes, WorkerTypes
  <2> QED BY <2>2, <2>3, TableSteps
<1> QED BY <1>1, <1>2, AlwaysTyped, PTL DEF Spec

-----------------------------------------------------------------------------
(* Parked events.                                                           *)

In(x, s) == \E i \in DOMAIN s : s[i] = x
Unique(s) == \A i, j \in DOMAIN s : s[i] = s[j] => i = j

\* Taking the first element off a sequence without repetitions.
LEMMA TailOnce ==
    ASSUME NEW s \in Seq(Events), s # <<>>, Unique(s)
    PROVE  /\ Unique(Tail(s))
           /\ ~In(Head(s), Tail(s))
           /\ \A x : In(x, s) <=> (x = Head(s) \/ In(x, Tail(s)))
<1>1. Len(s) \in Nat \ {0} /\ DOMAIN s = 1..Len(s) /\ Head(s) = s[1]
  BY LenProperties, EmptySeq
<1>2. /\ Tail(s) \in Seq(Events) /\ DOMAIN Tail(s) = 1..(Len(s) - 1)
      /\ \A i \in 1..(Len(s) - 1) : Tail(s)[i] = s[i + 1]
  BY <1>1, HeadTailProperties
<1>3. Unique(Tail(s))
  BY <1>1, <1>2 DEF Unique
<1>4. ~In(Head(s), Tail(s))
  BY <1>1, <1>2 DEF Unique, In
<1>5. ASSUME NEW x PROVE In(x, s) <=> (x = Head(s) \/ In(x, Tail(s)))
  <2>1. ASSUME NEW i \in DOMAIN s, s[i] = x PROVE x = Head(s) \/ In(x, Tail(s))
    <3>1. CASE i = 1
      BY <1>1, <2>1, <3>1
    <3>2. CASE i # 1
      <4>1. i - 1 \in 1..(Len(s) - 1) /\ Tail(s)[i - 1] = s[i]
        BY <1>1, <1>2, <3>2
      <4> QED BY <1>2, <2>1, <4>1 DEF In
    <3> QED BY <3>1, <3>2
  <2>2. ASSUME NEW i \in DOMAIN Tail(s), Tail(s)[i] = x PROVE In(x, s)
    <3>1. i + 1 \in DOMAIN s /\ s[i + 1] = x
      BY <1>1, <1>2, <2>2
    <3> QED BY <3>1 DEF In
  <2>3. In(Head(s), s)
    BY <1>1 DEF In
  <2> QED BY <2>1, <2>2, <2>3 DEF In
<1> QED BY <1>3, <1>4, <1>5

\* Adding an element that a sequence without repetitions lacks, at the back ...
LEMMA AppendOnce ==
    ASSUME NEW s \in Seq(Events), NEW e \in Events, Unique(s), ~In(e, s)
    PROVE  /\ Unique(Append(s, e))
           /\ \A x : In(x, Append(s, e)) <=> (x = e \/ In(x, s))
<1>1. Len(s) \in Nat /\ DOMAIN s = 1..Len(s)
  BY LenProperties
<1>2. /\ DOMAIN Append(s, e) = 1..(Len(s) + 1)
      /\ Append(s, e)[Len(s) + 1] = e
      /\ \A i \in 1..Len(s) : Append(s, e)[i] = s[i]
  BY <1>1, AppendProperties
<1>3. Unique(Append(s, e))
  <2> SUFFICES ASSUME NEW i \in 1..(Len(s) + 1), NEW j \in 1..(Len(s) + 1),
                      Append(s, e)[i] = Append(s, e)[j]
               PROVE  i = j
    BY <1>2 DEF Unique
  <2>1. \A k \in 1..(Len(s) + 1) : k = Len(s) + 1 \/ k \in 1..Len(s)
    BY <1>1
  <2> QED BY <1>1, <1>2, <2>1 DEF Unique, In
<1>4. ASSUME NEW x PROVE In(x, Append(s, e)) <=> (x = e \/ In(x, s))
  <2>1. \A k \in 1..(Len(s) + 1) : k = Len(s) + 1 \/ k \in 1..Len(s)
    BY <1>1
  <2>2. Len(s) + 1 \in 1..(Len(s) + 1) /\ \A k \in 1..Len(s) : k \in 1..(Len(s) + 1)
    BY <1>1
  <2> QED BY <1>1, <1>2, <2>1, <2>2 DEF In
<1> QED BY <1>3, <1>4

\* ... and at the front.
LEMMA PrependOnce ==
    ASSUME NEW s \in Seq(Events), NEW e \in Events, Unique(s), ~In(e, s)
    PROVE  /\ <<e>> \o s \in Seq(Events)
           /\ Unique(<<e>> \o s)
           /\ \A x : In(x, <<e>> \o s) <=> (x = e \/ In(x, s))
<1> DEFINE t == <<e>> \o s
<1>1. <<e>> \in Seq(Events) /\ Len(<<e>>) = 1
  OBVIOUS
<1>2. t \in Seq(Events) /\ Len(t) = Len(s) + 1
  BY <1>1, ConcatProperties
<1>3. t[1] = e /\ t # <<>>
  BY <1>1, <1>2, ConcatProperties, LenProperties
<1>4. Head(t) = e /\ Tail(t) = s
  <2>1. Tail(t) \in Seq(Events) /\ Len(Tail(t)) = Len(s)
    BY <1>2, <1>3, HeadTailProperties, LenProperties
  <2>2. ASSUME NEW i \in 1..Len(s) PROVE Tail(t)[i] = s[i]
    <3>1. i + 1 \in 1..Len(t) /\ Tail(t)[i] = t[i + 1]
      BY <1>2, <1>3, <2>1, HeadTailProperties, LenProperties
    <3>2. t[i + 1] = s[(i + 1) - Len(<<e>>)]
      BY <1>1, <1>2, ConcatProperties, LenProperties
    <3> QED BY <1>1, <3>1, <3>2, LenProperties
  <2>3. Tail(t) = s
    BY <2>1, <2>2, SeqEqual
  <2> QED BY <1>2, <1>3, <2>3, HeadTailProperties
<1>5. \A i \in DOMAIN t : i = 1 \/ (i - 1 \in DOMAIN s /\ t[i] = s[i - 1])
  <2> SUFFICES ASSUME NEW i \in 1..Len(t), i # 1
               PROVE  i - 1 \in 1..Len(s) /\ t[i] = s[i - 1]
    BY <1>2, LenProperties
  <2>1. i - 1 \in 1..Len(s)
    BY <1>2, LenProperties
  <2>2. t[i] = s[i - Len(<<e>>)]
    BY <1>1, <1>2, <2>1, ConcatProperties, LenProperties
  <2> QED BY <1>1, <2>1, <2>2
<1>6. \A i \in DOMAIN s : i + 1 \in DOMAIN t /\ t[i + 1] = s[i]
  <2> SUFFICES ASSUME NEW i \in 1..Len(s)
               PROVE  i + 1 \in 1..Len(t) /\ t[i + 1] = s[i]
    BY <1>2, LenProperties
  <2>1. t[i + 1] = s[(i + 1) - Len(<<e>>)]
    BY <1>1, <1>2, ConcatProperties, LenProperties
  <2> QED BY <1>1, <1>2, <2>1, LenProperties
<1>7. 1 \in DOMAIN t /\ DOMAIN s \subseteq Int /\ DOMAIN t \subseteq Int
  BY <1>2, LenProperties
<1> HIDE DEF t
<1>8. Unique(t)
  BY <1>3, <1>5, <1>7 DEF Unique, In
<1>9. \A x : In(x, t) <=> (x = e \/ In(x, s))
  BY <1>3, <1>5, <1>6, <1>7 DEF In
<1> QED BY <1>2, <1>8, <1>9 DEF t

\* An outbox that holds no event twice, and not every event, is not full.
LEMMA RoomLeft ==
    ASSUME IsFiniteSet(Events), OutboxMax >= Cardinality(Events),
           NEW s \in Seq(Events), NEW e \in Events, Unique(s), ~In(e, s)
    PROVE  ~(Len(s) >= OutboxMax)
<1> SUFFICES ASSUME Len(s) >= OutboxMax PROVE FALSE
  OBVIOUS
<1> DEFINE Rest == Events \ {e}
<1>1. Len(s) \in Nat /\ DOMAIN s = 1..Len(s) /\ OutboxMax \in Nat
  BY LenProperties, BoundsAssumption
<1>2. IsFiniteSet(1..Len(s)) /\ Cardinality(1..Len(s)) = Len(s)
  <2>1. /\ IsFiniteSet(1..Len(s))
        /\ Cardinality(1..Len(s)) = IF 1 > Len(s) THEN 0 ELSE Len(s) - 1 + 1
    <3>1. 1 \in Int /\ Len(s) \in Int
      BY <1>1
    <3> QED BY <3>1, FS_Interval
  <2> QED BY <1>1, <2>1
<1>3. /\ IsFiniteSet(Rest) /\ Cardinality(Rest) = Cardinality(Events) - 1
      /\ Cardinality(Events) \in Nat
  BY FS_RemoveElement, FS_CardinalityType
<1>4. Cardinality(Rest) < Cardinality(1..Len(s))
  BY <1>1, <1>2, <1>3
<1>5. [i \in 1..Len(s) |-> s[i]] \in [1..Len(s) -> Rest]
  BY <1>1 DEF In
<1>6. \E i, j \in 1..Len(s) : i # j /\ s[i] = s[j]
  <2>1. \A f \in [1..Len(s) -> Rest] : \E i, j \in 1..Len(s) : i # j /\ f[i] = f[j]
    BY <1>2, <1>3, <1>4, FS_PigeonHole
  <2> QED BY <1>5, <2>1
<1> QED BY <1>1, <1>6 DEF Unique

\* Then parking an event evicts none ...
LEMMA ParkBack ==
    ASSUME IsFiniteSet(Events), OutboxMax >= Cardinality(Events),
           NEW s \in Seq(Events), NEW e \in Events, Unique(s), ~In(e, s)
    PROVE  /\ Unique(PushRight(s, e))
           /\ \A x : In(x, PushRight(s, e)) <=> (x = e \/ In(x, s))
<1>1. PushRight(s, e) = Append(s, e)
  BY RoomLeft DEF PushRight
<1> QED BY <1>1, AppendOnce

\* ... and neither does putting back the one that was being replayed.
LEMMA PutBack ==
    ASSUME IsFiniteSet(Events), OutboxMax >= Cardinality(Events),
           NEW s \in Seq(Events), NEW e \in Events, Unique(s), ~In(e, s)
    PROVE  /\ PushLeft(s, e) \in Seq(Events)
           /\ Unique(PushLeft(s, e))
           /\ \A x : In(x, PushLeft(s, e)) <=> (x = e \/ In(x, s))
<1>1. PushLeft(s, e) = <<e>> \o s
  BY RoomLeft DEF PushLeft
<1> QED BY <1>1, PrependOnce

\* Where parked events are: each outbox holds parked events of its replica, once;
\* the event a task replays is a parked one of the same replica, out of its outbox,
\* replayed by no other task; every parked event is in one of these places, or
\* Redis has it.
OutboxInv ==
    /\ \A r \in Replicas : Unique(outbox[r])
    /\ \A r \in Replicas, e \in Events :
          In(e, outbox[r]) => task[e] = "parked" /\ HomeOf[e] = r
    /\ \A f \in Events : task[f] = "replay" =>
          /\ task[held[f]] = "parked"
          /\ HomeOf[held[f]] = HomeOf[f]
          /\ ~In(held[f], outbox[HomeOf[f]])
    /\ \A f, g \in Events :
          task[f] = "replay" /\ task[g] = "replay" /\ held[f] = held[g] => f = g
    /\ \A e \in Events : task[e] = "parked" =>
          \/ e \in accepted
          \/ In(e, outbox[HomeOf[e]])
          \/ \E f \in Events : task[f] = "replay" /\ held[f] = e

LEMMA OutboxInit == Init => OutboxInv
BY DEF Init, OutboxInv, In, Unique

\* A step that leaves the replicas' memory alone.
LEMMA OutboxUntouched ==
    ASSUME OutboxInv, UNCHANGED taskVars, accepted \subseteq accepted'
    PROVE  OutboxInv'
BY DEF OutboxInv, taskVars

\* A task takes the next parked event, once Redis has the one it replayed.
LEMMA OutboxNextReplay ==
    ASSUME ReplicaTypes, OutboxInv, NEW e \in Events,
           task[e] \in {"new", "replay"},
           task[e] = "replay" => held[e] \in accepted',
           accepted \subseteq accepted',
           NextReplay(e, outbox[HomeOf[e]])
    PROVE  OutboxInv'
<1> DEFINE r == HomeOf[e]
           box == outbox[r]
<1>1. r \in Replicas /\ box \in Seq(Events)
  BY HomeAssumption DEF ReplicaTypes
<1>2. CASE box = <<>>
  <2>1. /\ task' = [task EXCEPT ![e] = "push"]
        /\ held' = [held EXCEPT ![e] = None]
        /\ outbox' = outbox
    BY <1>2 DEF NextReplay
  <2>2. \A f \in Events : /\ task'[f] = "replay" <=> (task[f] = "replay" /\ f # e)
                          /\ task'[f] = "parked" <=> task[f] = "parked"
                          /\ f # e => held'[f] = held[f]
    BY <2>1 DEF ReplicaTypes
  <2>3. \A f \in Events : task[f] = "replay" => held[f] \in Events
    BY DEF ReplicaTypes
  <2>4. \A s \in Replicas : Unique(outbox'[s])
    BY <2>1 DEF OutboxInv
  <2>5. \A s \in Replicas, x \in Events :
           In(x, outbox'[s]) => task'[x] = "parked" /\ HomeOf[x] = s
    BY <2>1, <2>2 DEF OutboxInv
  <2>6. ASSUME NEW f \in Events, task'[f] = "replay"
        PROVE  /\ task'[held'[f]] = "parked"
               /\ HomeOf[held'[f]] = HomeOf[f]
               /\ ~In(held'[f], outbox'[HomeOf[f]])
    BY <2>1, <2>2, <2>3, <2>6 DEF OutboxInv
  <2>7. \A f, g \in Events :
           task'[f] = "replay" /\ task'[g] = "replay" /\ held'[f] = held'[g] => f = g
    BY <2>2 DEF OutboxInv
  <2>8. ASSUME NEW x \in Events, task'[x] = "parked"
        PROVE  \/ x \in accepted'
               \/ In(x, outbox'[HomeOf[x]])
               \/ \E f \in Events : task'[f] = "replay" /\ held'[f] = x
    <3>1. ASSUME NEW f \in Events, task[f] = "replay", held[f] = x
          PROVE  x \in accepted' \/ (task'[f] = "replay" /\ held'[f] = x)
      BY <2>2, <3>1
    <3> QED BY <2>1, <2>2, <2>8, <3>1 DEF OutboxInv
  <2> QED BY <2>4, <2>5, <2>6, <2>7, <2>8 DEF OutboxInv
<1>3. CASE box # <<>>
  <2> DEFINE h == Head(box)
  <2>1. /\ Unique(Tail(box)) /\ ~In(h, Tail(box))
        /\ \A x : In(x, box) <=> (x = h \/ In(x, Tail(box)))
    BY <1>1, <1>3, TailOnce DEF OutboxInv
  <2>2. h \in Events
    BY <1>1, <1>3
  <2>3. /\ task' = [task EXCEPT ![e] = "replay"]
        /\ held' = [held EXCEPT ![e] = h]
        /\ outbox' = [outbox EXCEPT ![r] = Tail(box)]
    BY <1>3 DEF NextReplay
  <2>4. task[h] = "parked" /\ HomeOf[h] = r /\ h # e
    BY <1>1, <2>1, <2>2 DEF OutboxInv
  <2>5. \A f \in Events : task[f] = "replay" => held[f] # h
    BY <1>1, <2>1, <2>2, <2>4 DEF OutboxInv
  <2> HIDE DEF h
  <2>6. /\ task'[e] = "replay" /\ held'[e] = h
        /\ \A f \in Events \ {e} : task'[f] = task[f] /\ held'[f] = held[f]
        /\ outbox'[r] = Tail(box)
        /\ \A s \in Replicas \ {r} : outbox'[s] = outbox[s]
    BY <1>1, <2>3 DEF ReplicaTypes
  <2>7. \A s \in Replicas : Unique(outbox'[s])
    BY <2>1, <2>6 DEF OutboxInv
  <2>8. ASSUME NEW s \in Replicas, NEW x \in Events
        PROVE  In(x, outbox'[s]) => task'[x] = "parked" /\ HomeOf[x] = s
    <3>1. In(x, outbox'[s]) => In(x, outbox[s])
      BY <2>1, <2>6
    <3> QED BY <2>6, <3>1 DEF OutboxInv
  <2>9. ASSUME NEW f \in Events, task'[f] = "replay"
        PROVE  /\ task'[held'[f]] = "parked"
               /\ HomeOf[held'[f]] = HomeOf[f]
               /\ ~In(held'[f], outbox'[HomeOf[f]])
    <3>1. CASE f = e
      BY <1>1, <2>1, <2>2, <2>4, <2>6, <3>1
    <3>2. CASE f # e
      <4>1. task[f] = "replay" /\ held'[f] = held[f] /\ held[f] \in Events
        BY <2>6, <2>9, <3>2 DEF ReplicaTypes
      <4>2. /\ task[held[f]] = "parked" /\ HomeOf[held[f]] = HomeOf[f]
            /\ ~In(held[f], outbox[HomeOf[f]])
        BY <4>1 DEF OutboxInv
      <4>3. ~In(held[f], outbox'[HomeOf[f]])
        BY <2>1, <2>6, <4>2, HomeAssumption
      <4> QED BY <2>6, <4>1, <4>2, <4>3
    <3> QED BY <3>1, <3>2
  <2>10. ASSUME NEW f \in Events, NEW g \in Events, task'[f] = "replay",
                task'[g] = "replay", held'[f] = held'[g]
         PROVE  f = g
    BY <2>5, <2>6, <2>10 DEF OutboxInv
  <2>11. ASSUME NEW x \in Events, task'[x] = "parked"
         PROVE  \/ x \in accepted'
                \/ In(x, outbox'[HomeOf[x]])
                \/ \E f \in Events : task'[f] = "replay" /\ held'[f] = x
    <3>1. task[x] = "parked"
      BY <2>6, <2>11
    <3>2. CASE In(x, outbox[HomeOf[x]])
      BY <1>1, <2>1, <2>6, <3>2, HomeAssumption
    <3>3. ASSUME NEW f \in Events, task[f] = "replay", held[f] = x
          PROVE  x \in accepted' \/ (task'[f] = "replay" /\ held'[f] = x)
      BY <2>6, <3>3
    <3> QED BY <3>1, <3>2, <3>3 DEF OutboxInv
  <2> QED BY <2>7, <2>8, <2>9, <2>10, <2>11 DEF OutboxInv
<1> QED BY <1>2, <1>3

\* A task whose enqueue failed parks its event, and puts back what it replayed.
LEMMA OutboxPark ==
    ASSUME IsFiniteSet(Events), OutboxMax >= Cardinality(Events),
           ReplicaTypes, OutboxInv, NEW e \in Events,
           ReplayRaises(e) \/ PushRaises(e), accepted \subseteq accepted'
    PROVE  OutboxInv'
<1> DEFINE r == HomeOf[e]
           h == held[e]
           box == outbox[r]
           putBack == IF task[e] = "replay" THEN PushLeft(box, h) ELSE box
<1>1. r \in Replicas /\ box \in Seq(Events) /\ Unique(box) /\ task[e] \in {"replay", "push"}
  BY HomeAssumption DEF ReplicaTypes, OutboxInv, ReplayRaises, PushRaises
<1>2. ~In(e, box)
  BY <1>1 DEF OutboxInv
<1>3. task[e] = "replay" => h \in Events /\ h # e /\ ~In(h, box) /\ task[h] = "parked" /\ HomeOf[h] = r
  BY DEF OutboxInv, ReplicaTypes
<1>4. /\ putBack \in Seq(Events)
      /\ Unique(putBack)
      /\ \A x : In(x, putBack) <=> ((task[e] = "replay" /\ x = h) \/ In(x, box))
  <2>1. CASE task[e] = "replay"
    BY <1>1, <1>3, <2>1, PutBack
  <2>2. CASE task[e] # "replay"
    BY <1>1, <2>2
  <2> QED BY <2>1, <2>2
<1>5. ~In(e, putBack)
  BY <1>2, <1>3, <1>4
<1> DEFINE after == PushRight(putBack, e)
<1>6. /\ task' = [task EXCEPT ![e] = "parked"]
      /\ outbox' = [outbox EXCEPT ![r] = after]
      /\ \A f \in Events \ {e} : held'[f] = held[f]
  BY DEF ReplayRaises, PushRaises, ReplicaTypes
<1> HIDE DEF putBack, h
<1>7. /\ Unique(after)
      /\ \A x : In(x, after) <=> \/ x = e
                                 \/ task[e] = "replay" /\ x = h
                                 \/ In(x, box)
  BY <1>4, <1>5, ParkBack
<1> HIDE DEF after
<1>8. /\ task'[e] = "parked"
      /\ \A f \in Events \ {e} : task'[f] = task[f] /\ held'[f] = held[f]
      /\ outbox'[r] = after
      /\ \A s \in Replicas \ {r} : outbox'[s] = outbox[s]
  BY <1>1, <1>6 DEF ReplicaTypes
<1>9. \A s \in Replicas : Unique(outbox'[s])
  BY <1>7, <1>8 DEF OutboxInv
<1>10. ASSUME NEW s \in Replicas, NEW x \in Events, In(x, outbox'[s])
       PROVE  task'[x] = "parked" /\ HomeOf[x] = s
  <2>1. CASE s = r
    BY <1>1, <1>3, <1>7, <1>8, <1>10, <2>1 DEF OutboxInv
  <2>2. CASE s # r
    BY <1>8, <1>10, <2>2 DEF OutboxInv
  <2> QED BY <2>1, <2>2
<1>11. ASSUME NEW f \in Events, task'[f] = "replay"
       PROVE  /\ task'[held'[f]] = "parked"
              /\ HomeOf[held'[f]] = HomeOf[f]
              /\ ~In(held'[f], outbox'[HomeOf[f]])
  <2>1. f # e /\ task[f] = "replay" /\ held'[f] = held[f] /\ held[f] \in Events
    BY <1>8, <1>11 DEF ReplicaTypes
  <2>2. /\ task[held[f]] = "parked" /\ HomeOf[held[f]] = HomeOf[f]
        /\ ~In(held[f], outbox[HomeOf[f]])
    BY <2>1 DEF OutboxInv
  <2>3. held[f] # e /\ (task[e] = "replay" => held[f] # h)
    BY <1>1, <2>1, <2>2 DEF OutboxInv, h
  <2>4. ~In(held[f], outbox'[HomeOf[f]])
    BY <1>7, <1>8, <2>2, <2>3, HomeAssumption
  <2> QED BY <1>8, <2>1, <2>2, <2>3, <2>4
<1>12. ASSUME NEW f \in Events, NEW g \in Events, task'[f] = "replay",
              task'[g] = "replay", held'[f] = held'[g]
       PROVE  f = g
  BY <1>8, <1>12 DEF OutboxInv
<1>13. ASSUME NEW x \in Events, task'[x] = "parked"
       PROVE  \/ x \in accepted'
              \/ In(x, outbox'[HomeOf[x]])
              \/ \E f \in Events : task'[f] = "replay" /\ held'[f] = x
  <2>1. CASE x = e
    BY <1>7, <1>8, <2>1
  <2>2. CASE x # e
    <3>1. task[x] = "parked"
      BY <1>8, <1>13, <2>2
    <3>2. CASE In(x, outbox[HomeOf[x]])
      BY <1>7, <1>8, <3>2, HomeAssumption
    <3>3. ASSUME NEW f \in Events, task[f] = "replay", held[f] = x
          PROVE  \/ In(x, outbox'[HomeOf[x]])
                 \/ task'[f] = "replay" /\ held'[f] = x
      <4>1. CASE f = e
        BY <1>3, <1>7, <1>8, <3>3, <4>1 DEF h
      <4>2. CASE f # e
        BY <1>8, <3>3, <4>2
      <4> QED BY <4>1, <4>2
    <3> QED BY <3>1, <3>2, <3>3 DEF OutboxInv
  <2> QED BY <2>1, <2>2
<1> QED BY <1>9, <1>10, <1>11, <1>12, <1>13 DEF OutboxInv

\* A crash empties the outbox with the tasks that replay it.
LEMMA OutboxCrash ==
    ASSUME ReplicaTypes, OutboxInv, NEW r \in Replicas, ReplicaCrash(r)
    PROVE  OutboxInv'
<1>1. /\ \A e \in Events : task'[e] = IF HomeOf[e] = r /\ task[e] # "queued" THEN "lost" ELSE task[e]
      /\ \A e \in Events : HomeOf[e] # r => held'[e] = held[e]
      /\ outbox'[r] = <<>>
      /\ \A s \in Replicas \ {r} : outbox'[s] = outbox[s]
      /\ accepted' = accepted
  BY DEF ReplicaCrash, ReplicaTypes
<1>2. Unique(<<>>) /\ \A x : ~In(x, <<>>)
  BY DEF Unique, In
<1>3. ASSUME NEW f \in Events, task'[f] = "replay"
      PROVE  task[f] = "replay" /\ HomeOf[f] # r /\ held'[f] = held[f] /\ held[f] \in Events
  BY <1>1, <1>3 DEF ReplicaTypes
<1>4. \A s \in Replicas : Unique(outbox'[s])
  BY <1>1, <1>2 DEF OutboxInv
<1>5. ASSUME NEW s \in Replicas, NEW x \in Events, In(x, outbox'[s])
      PROVE  task'[x] = "parked" /\ HomeOf[x] = s
  BY <1>1, <1>2, <1>5 DEF OutboxInv
<1>6. ASSUME NEW f \in Events, task'[f] = "replay"
      PROVE  /\ task'[held'[f]] = "parked"
             /\ HomeOf[held'[f]] = HomeOf[f]
             /\ ~In(held'[f], outbox'[HomeOf[f]])
  BY <1>1, <1>3, <1>6, HomeAssumption DEF OutboxInv
<1>7. ASSUME NEW f \in Events, NEW g \in Events, task'[f] = "replay",
             task'[g] = "replay", held'[f] = held'[g]
      PROVE  f = g
  BY <1>3, <1>7 DEF OutboxInv
<1>8. ASSUME NEW x \in Events, task'[x] = "parked"
      PROVE  \/ x \in accepted'
             \/ In(x, outbox'[HomeOf[x]])
             \/ \E f \in Events : task'[f] = "replay" /\ held'[f] = x
  <2>1. task[x] = "parked" /\ HomeOf[x] # r
    BY <1>1, <1>8
  <2>2. CASE In(x, outbox[HomeOf[x]])
    BY <1>1, <2>1, <2>2, HomeAssumption
  <2>3. ASSUME NEW f \in Events, task[f] = "replay", held[f] = x
        PROVE  task'[f] = "replay" /\ held'[f] = x
    BY <1>1, <2>1, <2>3 DEF OutboxInv
  <2> QED BY <1>1, <2>1, <2>2, <2>3 DEF OutboxInv
<1> QED BY <1>4, <1>5, <1>6, <1>7, <1>8 DEF OutboxInv

LEMMA OutboxStep ==
    ASSUME IsFiniteSet(Events), OutboxMax >= Cardinality(Events)
    PROVE  Typed /\ OutboxInv /\ [Next]_vars => OutboxInv'
<1> SUFFICES ASSUME Typed, OutboxInv, [Next]_vars
             PROVE  OutboxInv'
  OBVIOUS
<1>1. ReplicaTypes
  BY DEF Typed
<1>2. ASSUME NEW e \in Events, EnqueueStart(e) \/ ReplayOk(e)
      PROVE  OutboxInv'
  BY <1>1, <1>2, OutboxNextReplay DEF EnqueueStart, ReplayOk, Rpush
<1>3. ASSUME NEW e \in Events, PushOk(e)
      PROVE  OutboxInv'
  <2>1. /\ task[e] = "push" /\ task' = [task EXCEPT ![e] = "queued"]
        /\ held' = held /\ outbox' = outbox /\ accepted \subseteq accepted'
    BY <1>3 DEF PushOk, Rpush
  <2>2. \A x \in Events : (task'[x] = "replay" <=> task[x] = "replay")
                          /\ (task'[x] = "parked" <=> task[x] = "parked")
    BY <1>1, <2>1 DEF ReplicaTypes
  <2>3. \A f \in Events : task[f] = "replay" => held[f] \in Events
    BY <1>1 DEF ReplicaTypes
  <2> QED BY <2>1, <2>2, <2>3 DEF OutboxInv
<1>4. ASSUME NEW e \in Events, EnqueueFault(e)
      PROVE  OutboxInv'
  <2>1. accepted \subseteq accepted'
    BY <1>4 DEF EnqueueFault, ReplayRaises, PushRaises, RpushRaises, Rpush
  <2> QED BY <1>1, <1>4, <2>1, OutboxPark DEF EnqueueFault
<1>5. ASSUME NEW w \in Workers, FlushStep(w) \/ Abandon(w)
      PROVE  OutboxInv'
  <2>1. UNCHANGED taskVars /\ accepted' = accepted
    BY <1>5 DEF FlushStep, Abandon, RecoverStaleClaims, ClaimOne, ClaimDone, BulkInsert,
                BulkInsertRaises, AckClaimed, RetryPush, RetryRemove
  <2> QED BY <2>1, OutboxUntouched
<1>6. ASSUME (\E c \in ClaimIds : ClaimAges(c)) \/ FlushDlq \/ UNCHANGED vars
      PROVE  OutboxInv'
  <2>1. UNCHANGED taskVars /\ accepted' = accepted
    BY <1>6 DEF ClaimAges, FlushDlq, vars, taskVars
  <2> QED BY <2>1, OutboxUntouched
<1> QED BY <1>1, <1>2, <1>3, <1>4, <1>5, <1>6, OutboxCrash DEF Next, EnqueueStep

\* Of finitely many events, none that a failed enqueue parked leaves its replica's
\* memory before Redis has it, however many tasks replay the outbox at once and
\* wherever their pushes fail, as long as the bound of the outbox evicts nothing.
THEOREM ParkedStayParked ==
    ASSUME IsFiniteSet(Events)
    PROVE  Spec => []NoParkedEventLost
<1>1. CASE OutboxMax >= Cardinality(Events)
  <2>1. OutboxInv => NoParkedEventLost
    BY DEF OutboxInv, NoParkedEventLost, In
  <2>2. Typed /\ OutboxInv /\ [Next]_vars => OutboxInv'
    BY <1>1, OutboxStep
  <2> QED BY <2>1, <2>2, InitTyped, NextTyped, OutboxInit, PTL DEF Spec
<1>2. CASE ~(OutboxMax >= Cardinality(Events))
  <2>1. NoParkedEventLost
    BY <1>2 DEF NoParkedEventLost
  <2> QED BY <2>1, PTL
<1> QED BY <1>1, <1>2

=============================================================================
