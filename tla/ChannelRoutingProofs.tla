------------------------ MODULE ChannelRoutingProofs ------------------------
(***************************************************************************)
(* Proofs about ChannelRouting, for any channels, replicas, probers and    *)
(* limits: its types, that a channel is disabled only for failures it had, *)
(* and that no router is replaced by an older one.                         *)
(***************************************************************************)
EXTENDS ChannelRouting, TLAPS

\* TypeOK in parts: the catalog and the health records, the finalizers, the
\* probers, the replicas.
CatalogTypes ==
    /\ config \in RowsType
    /\ writes \in 0..MaxWrites
    /\ faults \in 0..MaxFaults

HealthTypes ==
    /\ degraded \subseteq Channels
    /\ window \in [Channels -> [total : 0..MaxWindow, errors : 0..MaxWindow]]
    /\ \A c \in Channels : window[c].errors <= window[c].total
    /\ failures \in [Channels -> 0..MaxProbeFailures]
    /\ lock \subseteq Channels
    /\ streak \in [Channels -> 0..MaxProbeFailures]

FinRecord == [pc : {"idle", "rate", "add", "state"}, chan : SUBSET Channels]
FinTypes == fin \in [Finalizers -> FinRecord]

ProbePcs == {"idle", "next", "probe", "remove", "clear", "clearWindow", "read", "write",
             "disable", "release"}
ProbeRecord ==
    [pc : ProbePcs, todo : SUBSET Channels, chan : SUBSET Channels, seen : 0..MaxProbeFailures]
ProbeTypes == probe \in [Probers -> ProbeRecord]

TaskRecord == [pc : {"sleep", "quiet", "read"}, rows : RowsType]
RouterRecord == [built : BOOLEAN, rows : RowsType]
ReplicaTypes ==
    /\ task \in [Replicas -> [Tasks -> TaskRecord]]
    /\ router \in [Replicas -> RouterRecord]
    /\ event \in [Replicas -> BOOLEAN]

Typed == CatalogTypes /\ HealthTypes /\ FinTypes /\ ProbeTypes /\ ReplicaTypes

-----------------------------------------------------------------------------
(* Types.                                                                   *)

LEMMA NoneType == None \in RowsType
  BY RoutingAssumption DEF None, RowsType

LEMMA InitTyped == Init => Typed
<1> SUFFICES ASSUME Init PROVE Typed
  OBVIOUS
<1> USE RoutingAssumption DEF Init
<1>1. CatalogTypes
  BY DEF CatalogTypes, RowsType
<1>2. HealthTypes
  BY DEF HealthTypes
<1>3. FinTypes
  BY DEF FinTypes, FinRecord, NoFin
<1>4. ProbeTypes
  BY DEF ProbeTypes, ProbeRecord, ProbePcs, NoProbe
<1>5. ReplicaTypes
  <2>1. Sleeping \in TaskRecord /\ NoRouter \in RouterRecord
    BY NoneType DEF Sleeping, TaskRecord, NoRouter, RouterRecord
  <2> QED BY <2>1 DEF ReplicaTypes
<1> QED BY <1>1, <1>2, <1>3, <1>4, <1>5 DEF Typed

\* Leaving channels out of rows leaves rows.
LEMMA WithoutType ==
    ASSUME NEW rows \in RowsType, NEW ids
    PROVE  Without(rows, ids) \in RowsType
  BY RoutingAssumption DEF Without, RowsType

\* A publish keeps the events typed.
LEMMA PublishType == Publish => event' \in [Replicas -> BOOLEAN]
<1> SUFFICES ASSUME Publish PROVE event' \in [Replicas -> BOOLEAN]
  OBVIOUS
<1>1. PICK R \in SUBSET Replicas : event' = [r \in Replicas |-> event[r] \/ r \in R]
  BY DEF Publish
<1>2. \A r \in Replicas : (event[r] \/ r \in R) \in BOOLEAN
  OBVIOUS
<1> QED BY <1>1, <1>2

\* The steps of a finalizer.
LEMMA FinalizerTyped ==
    ASSUME Typed, NEW f \in Finalizers, RecordAndEvaluate(f)
    PROVE  CatalogTypes' /\ HealthTypes' /\ FinTypes'
<1> USE RoutingAssumption DEF Typed, FinTypes, FinRecord, NoFin
<1>1. CASE RecordOutcome(f)
  <2>1. PICK r \in Replicas, c \in Channels, failed \in BOOLEAN :
          /\ window[c].total < MaxWindow
          /\ window' = [window EXCEPT ![c].total = @ + 1,
                                      ![c].errors = IF failed THEN @ + 1 ELSE @]
          /\ fin' = IF failed THEN [fin EXCEPT ![f] = [pc |-> "rate", chan |-> {c}]] ELSE fin
    BY <1>1 DEF RecordOutcome
  <2>2. FinTypes'
    BY <2>1
  <2>3. /\ window' \in [Channels -> [total : 0..MaxWindow, errors : 0..MaxWindow]]
        /\ \A d \in Channels : window'[d].errors <= window'[d].total
    <3> DEFINE e == IF failed THEN window[c].errors + 1 ELSE window[c].errors
               n == window[c].total + 1
    <3>1. /\ window[c].total \in 0..MaxWindow /\ window[c].errors \in 0..MaxWindow
          /\ window[c].errors <= window[c].total
      BY DEF HealthTypes
    <3>2. e \in 0..MaxWindow /\ n \in 0..MaxWindow /\ e <= n
      BY <2>1, <3>1
    <3>3. window' = [window EXCEPT ![c].total = n, ![c].errors = e]
      BY <2>1 DEF HealthTypes
    <3> HIDE DEF e, n
    <3>4. window' \in [Channels -> [total : 0..MaxWindow, errors : 0..MaxWindow]]
      BY <3>2, <3>3, ZenonT(30) DEF HealthTypes
    <3>5. ASSUME NEW d \in Channels PROVE window'[d].errors <= window'[d].total
      <4>1. CASE d = c
        BY <3>2, <3>3, <4>1 DEF HealthTypes
      <4>2. CASE d # c
        BY <3>3, <4>2 DEF HealthTypes
      <4> QED BY <4>1, <4>2
    <3> QED BY <3>4, <3>5
  <2> QED BY <1>1, <2>2, <2>3
          DEF RecordOutcome, FinUnchanged, catalogVars, CatalogTypes, HealthTypes
<1>2. CASE GetErrorRate(f)
  <2>1. FinTypes'
    BY <1>2 DEF GetErrorRate
  <2>2. faults' \in 0..MaxFaults
    BY <1>2 DEF GetErrorRate, Fault, NoFault, CatalogTypes
  <2> QED BY <1>2, <2>1, <2>2
          DEF GetErrorRate, FinUnchanged, catalogVars, CatalogTypes, HealthTypes
<1>3. CASE AddToDegraded(f)
  <2>1. FinTypes'
    BY <1>3 DEF AddToDegraded
  <2>2. faults' \in 0..MaxFaults
    BY <1>3 DEF AddToDegraded, Fault, NoFault, CatalogTypes
  <2>3. degraded' \subseteq Channels
    BY <1>3 DEF AddToDegraded, HealthTypes
  <2> QED BY <1>3, <2>1, <2>2, <2>3
          DEF AddToDegraded, FinUnchanged, catalogVars, CatalogTypes, HealthTypes
<1>4. CASE UpdateChannelState(f)
  <2>1. FinTypes'
    BY <1>4 DEF UpdateChannelState
  <2>2. faults' \in 0..MaxFaults
    BY <1>4 DEF UpdateChannelState, Fault, NoFault, CatalogTypes
  <2>3. failures' \in [Channels -> 0..MaxProbeFailures]
    BY <1>4 DEF UpdateChannelState, HealthTypes
  <2> QED BY <1>4, <2>1, <2>2, <2>3
          DEF UpdateChannelState, FinUnchanged, catalogVars, CatalogTypes, HealthTypes
<1> QED BY <1>1, <1>2, <1>3, <1>4 DEF RecordAndEvaluate

\* The steps of a prober keep its record typed.
LEMMA ProberRecord ==
    ASSUME Typed, NEW p \in Probers, ProbeStep(p) \/ ProberDies(p)
    PROVE  ProbeTypes'
<1> USE RoutingAssumption DEF Typed, ProbeTypes, ProbeRecord, ProbePcs, NoProbe
<1>1. CASE ListDegraded(p)
  <2> DEFINE e == [NoProbe EXCEPT !.pc = "next", !.todo = degraded]
  <2>1. degraded \in SUBSET Channels /\ {} \in SUBSET Channels /\ 0 \in 0..MaxProbeFailures
    BY DEF HealthTypes
  <2>2. e \in ProbeRecord
    BY <2>1
  <2>3. probe' = [probe EXCEPT ![p] = e]
    BY <1>1 DEF ListDegraded
  <2> HIDE DEF e
  <2> QED BY <2>2, <2>3
<1>2. CASE AcquireProbeLock(p)
  <2>1. CASE probe' = [probe EXCEPT ![p] = NoProbe]
    BY <2>1
  <2>2. ASSUME NEW c \in probe[p].todo,
               \/ probe' = [probe EXCEPT ![p].todo = @ \ {c}]
               \/ probe' = [probe EXCEPT ![p].todo = @ \ {c}, ![p].chan = {c}, ![p].pc = "probe"]
        PROVE  ProbeTypes'
    <3>1. probe[p].todo \ {c} \in SUBSET Channels /\ {c} \in SUBSET Channels
      BY <2>2
    <3> QED BY <2>2, <3>1
  <2> QED BY <1>2, <2>1, <2>2 DEF AcquireProbeLock
<1>3. CASE ProbeSingleChannel(p)
  BY <1>3 DEF ProbeSingleChannel, ProbeGo
<1>4. CASE RemoveFromDegraded(p)
  BY <1>4 DEF RemoveFromDegraded, ProbeGo
<1>5. CASE ClearChannelState(p)
  BY <1>5 DEF ClearChannelState, ProbeGo
<1>6. CASE RecordProbeFailure(p)
  <2>1. CASE ProbeAt(p, "read")
    <3>1. PICK n \in {0} \cup {failures[c] : c \in probe[p].chan} :
            probe' = [probe EXCEPT ![p].seen = n, ![p].pc = "write"]
      BY <1>6, <2>1 DEF RecordProbeFailure, ProbeAt
    <3>2. n \in 0..MaxProbeFailures
      <4>1. probe[p].chan \subseteq Channels
        OBVIOUS
      <4> QED BY <3>1, <4>1 DEF HealthTypes
    <3> QED BY <3>1, <3>2, ZenonT(30)
  <2>2. CASE ProbeAt(p, "write")
    BY <1>6, <2>2 DEF RecordProbeFailure, ProbeAt
  <2> QED BY <1>6, <2>1, <2>2 DEF RecordProbeFailure
<1>7. CASE HardDisableChannel(p)
  BY <1>7 DEF HardDisableChannel, ProbeGo
<1>8. CASE ReleaseProbeLock(p)
  BY <1>8, ZenonT(30) DEF ReleaseProbeLock
<1>9. CASE ProberDies(p)
  BY <1>9 DEF ProberDies
<1> QED BY <1>1, <1>2, <1>3, <1>4, <1>5, <1>6, <1>7, <1>8, <1>9 DEF ProbeStep

\* ... and the catalog and the health records.
LEMMA ProberTyped ==
    ASSUME Typed, NEW p \in Probers, ProbeStep(p) \/ ProberDies(p)
    PROVE  CatalogTypes' /\ HealthTypes'
<1> USE RoutingAssumption DEF Typed
<1>1. probe[p].chan \in SUBSET Channels /\ probe[p].todo \in SUBSET Channels
      /\ probe[p].seen \in 0..MaxProbeFailures
  BY DEF ProbeTypes, ProbeRecord
<1>2. writes' = writes
  BY DEF ProbeStep, ListDegraded, AcquireProbeLock, ProbeSingleChannel, RemoveFromDegraded,
         ClearChannelState, RecordProbeFailure, HardDisableChannel, ReleaseProbeLock,
         ProberDies, ProbeUnchanged
<1>3. faults' \in 0..MaxFaults
  <2>1. Fault \/ NoFault
    BY DEF ProbeStep, ListDegraded, AcquireProbeLock, ProbeSingleChannel, RemoveFromDegraded,
           ClearChannelState, RecordProbeFailure, HardDisableChannel, ReleaseProbeLock,
           ProberDies, NoFault
  <2> QED BY <2>1 DEF Fault, NoFault, CatalogTypes
<1>4. CASE ListDegraded(p) \/ ProberDies(p)
  BY <1>2, <1>3, <1>4 DEF ListDegraded, ProberDies, healthVars, CatalogTypes, HealthTypes
<1>5. CASE AcquireProbeLock(p)
  <2>1. lock' = lock \/ \E c \in probe[p].todo : lock' = lock \cup {c}
    BY <1>5 DEF AcquireProbeLock
  <2>2. lock' \subseteq Channels
    BY <1>1, <2>1 DEF HealthTypes
  <2> QED BY <1>2, <1>3, <1>5, <2>2 DEF AcquireProbeLock, CatalogTypes, HealthTypes
<1>6. CASE ProbeSingleChannel(p)
  <2>1. streak' \in [Channels -> 0..MaxProbeFailures]
    BY <1>6 DEF ProbeSingleChannel, HealthTypes, CountUp
  <2> QED BY <1>2, <1>3, <1>6, <2>1 DEF ProbeSingleChannel, CatalogTypes, HealthTypes
<1>7. CASE RemoveFromDegraded(p)
  <2>1. degraded' \subseteq Channels
    BY <1>7 DEF RemoveFromDegraded, HealthTypes
  <2> QED BY <1>2, <1>3, <1>7, <2>1 DEF RemoveFromDegraded, CatalogTypes, HealthTypes
<1>8. CASE ClearChannelState(p)
  <2>1. /\ failures' \in [Channels -> 0..MaxProbeFailures]
        /\ streak' \in [Channels -> 0..MaxProbeFailures]
    BY <1>8 DEF ClearChannelState, HealthTypes
  <2>2. /\ window' \in [Channels -> [total : 0..MaxWindow, errors : 0..MaxWindow]]
        /\ \A c \in Channels : window'[c].errors <= window'[c].total
    <3>1. CASE window' = window
      BY <3>1 DEF HealthTypes
    <3>2. CASE window' = [c \in Channels |->
                 IF c \in probe[p].chan THEN [total |-> 0, errors |-> 0] ELSE window[c]]
      BY <3>2 DEF HealthTypes
    <3> QED BY <1>8, <3>1, <3>2 DEF ClearChannelState
  <2> QED BY <1>2, <1>3, <1>8, <2>1, <2>2 DEF ClearChannelState, CatalogTypes, HealthTypes
<1>9. CASE RecordProbeFailure(p)
  <2>1. failures' \in [Channels -> 0..MaxProbeFailures]
    BY <1>1, <1>9 DEF RecordProbeFailure, HealthTypes, CountUp
  <2> QED BY <1>2, <1>3, <1>9, <2>1 DEF RecordProbeFailure, CatalogTypes, HealthTypes
<1>10. CASE HardDisableChannel(p)
  <2>1. config' \in RowsType
    BY <1>10, WithoutType DEF HardDisableChannel, CatalogTypes
  <2> QED BY <1>2, <1>3, <1>10, <2>1 DEF HardDisableChannel, healthVars, CatalogTypes, HealthTypes
<1>11. CASE ReleaseProbeLock(p)
  <2>1. lock' \subseteq Channels
    BY <1>11 DEF ReleaseProbeLock, HealthTypes
  <2> QED BY <1>2, <1>3, <1>11, <2>1 DEF ReleaseProbeLock, CatalogTypes, HealthTypes
<1> QED BY <1>4, <1>5, <1>6, <1>7, <1>8, <1>9, <1>10, <1>11 DEF ProbeStep

\* The administrator, the passing of time and a manual recovery.
LEMMA EnvironmentTyped ==
    ASSUME Typed,
           \/ WriteCatalog
           \/ \E c \in Channels : SlideWindow(c) \/ ExpireProbeLock(c) \/ RecoverChannel(c)
    PROVE  CatalogTypes' /\ HealthTypes'
<1> USE RoutingAssumption DEF Typed
<1>1. CASE WriteCatalog
  <2>1. PICK c \in Channels, on \in BOOLEAN :
          config' = [config EXCEPT ![c] = IF on THEN writes' + 1 ELSE 0]
    BY <1>1 DEF WriteCatalog
  <2>2. writes' \in 0..MaxWrites /\ faults' = faults
    BY <1>1 DEF WriteCatalog, CatalogTypes
  <2>3. config' \in RowsType
    <3>1. (IF on THEN writes' + 1 ELSE 0) \in 0..MaxWrites + 1
      <4>1. MaxWrites \in Nat
        OBVIOUS
      <4>2. \A w \in 0..MaxWrites : w + 1 \in 0..MaxWrites + 1
        BY <4>1
      <4>3. 0 \in 0..MaxWrites + 1
        BY <4>1
      <4> QED BY <2>2, <4>2, <4>3
    <3> QED BY <2>1, <3>1 DEF RowsType, CatalogTypes
  <2> QED BY <1>1, <2>2, <2>3 DEF WriteCatalog, healthVars, CatalogTypes, HealthTypes
<1>2. ASSUME NEW c \in Channels, SlideWindow(c) PROVE CatalogTypes' /\ HealthTypes'
  <2>1. /\ window' \in [Channels -> [total : 0..MaxWindow, errors : 0..MaxWindow]]
        /\ \A d \in Channels : window'[d].errors <= window'[d].total
    BY <1>2 DEF SlideWindow, HealthTypes
  <2> QED BY <1>2, <2>1 DEF SlideWindow, catalogVars, CatalogTypes, HealthTypes
<1>3. ASSUME NEW c \in Channels, ExpireProbeLock(c) PROVE CatalogTypes' /\ HealthTypes'
  <2>1. faults' \in 0..MaxFaults
    BY <1>3 DEF ExpireProbeLock, Fault, NoFault, CatalogTypes
  <2> QED BY <1>3, <2>1 DEF ExpireProbeLock, catalogVars, CatalogTypes, HealthTypes
<1>4. ASSUME NEW c \in Channels, RecoverChannel(c) PROVE CatalogTypes' /\ HealthTypes'
  <2>1. faults' \in 0..MaxFaults
    BY <1>4 DEF RecoverChannel, Fault, CatalogTypes
  <2>2. /\ window' \in [Channels -> [total : 0..MaxWindow, errors : 0..MaxWindow]]
        /\ \A d \in Channels : window'[d].errors <= window'[d].total
    BY <1>4 DEF RecoverChannel, HealthTypes
  <2>3. /\ degraded' \subseteq Channels
        /\ failures' \in [Channels -> 0..MaxProbeFailures]
        /\ streak' \in [Channels -> 0..MaxProbeFailures]
    BY <1>4 DEF RecoverChannel, HealthTypes
  <2> QED BY <1>4, <2>1, <2>2, <2>3 DEF RecoverChannel, ProbeUnchanged, CatalogTypes, HealthTypes
<1> QED BY <1>1, <1>2, <1>3, <1>4

\* The steps of a replica keep its tasks, router and event typed.
LEMMA ReplicaTyped ==
    ASSUME Typed, NEW r \in Replicas, Debounce(r) \/ \E t \in Tasks : Rebuild(r, t)
    PROVE  ReplicaTypes'
<1> USE RoutingAssumption DEF Typed
<1>1. Sleeping \in TaskRecord
  BY NoneType DEF Sleeping, TaskRecord
<1>2. ASSUME NEW t \in Tasks, NEW e \in TaskRecord, task' = [task EXCEPT ![r][t] = e]
      PROVE  task' \in [Replicas -> [Tasks -> TaskRecord]]
  <2>1. [task[r] EXCEPT ![t] = e] \in [Tasks -> TaskRecord]
    BY <1>2 DEF ReplicaTypes
  <2> QED BY <1>2, <2>1 DEF ReplicaTypes
<1>3. CASE Debounce(r)
  <2>1. event' \in [Replicas -> BOOLEAN]
    BY <1>3 DEF Debounce, ReplicaTypes
  <2>2. task' = [task EXCEPT ![r]["debounce"].pc = "quiet"]
    BY <1>3 DEF Debounce
  <2>3. "debounce" \in Tasks
    BY DEF Tasks
  <2>4. task[r]["debounce"] \in TaskRecord
    BY <2>3 DEF ReplicaTypes
  <2>5. [task[r]["debounce"] EXCEPT !.pc = "quiet"] \in TaskRecord
    BY <2>4 DEF TaskRecord
  <2>6. task' \in [Replicas -> [Tasks -> TaskRecord]]
    BY <1>2, <2>2, <2>3, <2>5
  <2> QED BY <1>3, <2>1, <2>6 DEF Debounce, ReplicaTypes
<1>4. ASSUME NEW t \in Tasks, ReadRows(r, t) PROVE ReplicaTypes'
  <2>1. [pc |-> "read", rows |-> config] \in TaskRecord
    BY DEF CatalogTypes, TaskRecord
  <2>2. task' \in [Replicas -> [Tasks -> TaskRecord]]
    BY <1>1, <1>2, <1>4, <2>1 DEF ReadRows
  <2> QED BY <1>4, <2>2 DEF ReadRows, ReplicaTypes
<1>5. ASSUME NEW t \in Tasks, SwapRouter(r, t) PROVE ReplicaTypes'
  <2>1. task' \in [Replicas -> [Tasks -> TaskRecord]]
    BY <1>1, <1>2, <1>5 DEF SwapRouter
  <2>2. task[r][t].rows \in RowsType
    BY DEF ReplicaTypes, TaskRecord
  <2>3. PICK ids \in {degraded, {}} :
          \/ router' = router
          \/ router' = [router EXCEPT ![r] =
                          [built |-> TRUE, rows |-> Without(task[r][t].rows, ids)]]
    BY <1>5 DEF SwapRouter
  <2>4. [built |-> TRUE, rows |-> Without(task[r][t].rows, ids)] \in RouterRecord
    BY <2>2, WithoutType DEF RouterRecord
  <2>5. router' \in [Replicas -> RouterRecord]
    BY <2>3, <2>4 DEF ReplicaTypes
  <2> QED BY <1>5, <2>1, <2>5 DEF SwapRouter, ReplicaTypes
<1> QED BY <1>3, <1>4, <1>5 DEF Rebuild

LEMMA NextTyped == Typed /\ [Next]_vars => Typed'
<1> SUFFICES ASSUME Typed, [Next]_vars PROVE Typed'
  OBVIOUS
<1> USE DEF Typed
<1>1. CASE WriteCatalog \/ \E c \in Channels : SlideWindow(c) \/ ExpireProbeLock(c)
                                               \/ RecoverChannel(c)
  <2>1. fin' = fin /\ probe' = probe /\ task' = task /\ router' = router
    BY <1>1 DEF WriteCatalog, SlideWindow, ExpireProbeLock, RecoverChannel, ProbeUnchanged,
                replicaVars
  <2>2. event' = event \/ Publish
    BY <1>1 DEF WriteCatalog, SlideWindow, ExpireProbeLock, RecoverChannel, replicaVars
  <2> QED BY <1>1, <2>1, <2>2, EnvironmentTyped, PublishType
          DEF FinTypes, ProbeTypes, ReplicaTypes
<1>2. ASSUME NEW f \in Finalizers, RecordAndEvaluate(f) PROVE Typed'
  <2>1. probe' = probe /\ task' = task /\ router' = router
    BY <1>2 DEF RecordAndEvaluate, RecordOutcome, GetErrorRate, AddToDegraded,
                UpdateChannelState, FinUnchanged
  <2>2. event' = event \/ Publish
    BY <1>2 DEF RecordAndEvaluate, RecordOutcome, GetErrorRate, AddToDegraded,
                UpdateChannelState
  <2> QED BY <1>2, <2>1, <2>2, FinalizerTyped, PublishType DEF ProbeTypes, ReplicaTypes
<1>3. ASSUME NEW p \in Probers, ProbeStep(p) \/ ProberDies(p) PROVE Typed'
  <2>1. fin' = fin /\ task' = task /\ router' = router
    BY <1>3 DEF ProbeStep, ListDegraded, AcquireProbeLock, ProbeSingleChannel,
                RemoveFromDegraded, ClearChannelState, RecordProbeFailure,
                HardDisableChannel, ReleaseProbeLock, ProberDies, ProbeUnchanged
  <2>2. event' = event \/ Publish
    BY <1>3 DEF ProbeStep, ListDegraded, AcquireProbeLock, ProbeSingleChannel,
                RemoveFromDegraded, ClearChannelState, RecordProbeFailure,
                HardDisableChannel, ReleaseProbeLock, ProberDies
  <2> QED BY <1>3, <2>1, <2>2, ProberTyped, ProberRecord, PublishType
          DEF FinTypes, ReplicaTypes
<1>4. ASSUME NEW r \in Replicas, Debounce(r) \/ \E t \in Tasks : Rebuild(r, t) PROVE Typed'
  <2>1. /\ UNCHANGED <<config, writes, degraded, window, failures, lock, streak, fin, probe>>
        /\ faults' \in 0..MaxFaults
    BY <1>4, RoutingAssumption
       DEF Debounce, Rebuild, ReadRows, SwapRouter, RouterUnchanged, catalogVars, healthVars,
           Fault, NoFault, CatalogTypes
  <2> QED BY <1>4, <2>1, ReplicaTyped DEF CatalogTypes, HealthTypes, FinTypes, ProbeTypes
<1>5. CASE UNCHANGED vars
  BY <1>5 DEF vars, catalogVars, healthVars, replicaVars, CatalogTypes, HealthTypes,
              FinTypes, ProbeTypes, ReplicaTypes
<1> QED BY <1>1, <1>2, <1>3, <1>4, <1>5 DEF Next

\* Every reachable state is well typed, for any catalog, replicas and probers.
THEOREM TypeCorrect == Spec => []TypeOK
<1>1. Typed => TypeOK
  BY DEF Typed, CatalogTypes, HealthTypes, FinTypes, FinRecord, ProbeTypes, ProbeRecord,
         ProbePcs, ReplicaTypes, TaskRecord, RouterRecord, TypeOK
<1> QED BY <1>1, InitTyped, NextTyped, PTL DEF Spec

-----------------------------------------------------------------------------
(* Channels are disabled for failures they had.                             *)

\* The probe lock keeps the probes of a channel apart, ...
Exclusive ==
    /\ \A p \in Probers : probe[p].chan \subseteq lock
    /\ \A p, q \in Probers : p # q => probe[p].chan \cap probe[q].chan = {}

\* ... so that its count never runs ahead of its failures, nor does what a
\* probe is about to write.
Counted ==
    /\ \A c \in Channels : failures[c] <= streak[c]
    /\ \A p \in Probers : \A c \in probe[p].chan :
          /\ ProbeAt(p, "read") => CountUp(failures[c]) <= streak[c]
          /\ ProbeAt(p, "write") => CountUp(probe[p].seen) <= streak[c]
          /\ ProbeAt(p, "disable") => streak[c] >= MaxProbeFailures

EarnedInv == faults = 0 => Exclusive /\ Counted

\* CountUp is monotonic and stays in range.
LEMMA CountUpGrows ==
    ASSUME NEW m \in 0..MaxProbeFailures, NEW n \in 0..MaxProbeFailures, m <= n
    PROVE  /\ CountUp(m) <= CountUp(n)
           /\ n <= CountUp(n)
           /\ CountUp(n) \in 0..MaxProbeFailures
  BY RoutingAssumption DEF CountUp

\* A prober's step changes its own record only.
LEMMA ProberMoves ==
    ASSUME Typed, NEW p \in Probers, ProbeStep(p) \/ ProberDies(p)
    PROVE  \A q \in Probers \ {p} : probe'[q] = probe[q]
  BY DEF Typed, ProbeTypes, ProbeStep, ListDegraded, AcquireProbeLock, ProbeSingleChannel,
         RemoveFromDegraded, ClearChannelState, RecordProbeFailure, HardDisableChannel,
         ReleaseProbeLock, ProberDies, ProbeGo

\* Steps that touch neither locks, probes nor streaks, and no count but to
\* reset it.
LEMMA ResetsKeepCounts ==
    ASSUME Typed, EarnedInv, UNCHANGED <<lock, probe, streak>>, faults' = 0 => faults = 0,
           \A c \in Channels : failures'[c] = failures[c] \/ failures'[c] = 0
    PROVE  EarnedInv'
<1> SUFFICES ASSUME faults' = 0 PROVE (Exclusive /\ Counted)'
  BY DEF EarnedInv
<1>1. Exclusive /\ Counted
  BY DEF EarnedInv
<1>2. Exclusive'
  BY <1>1 DEF Exclusive
<1>3. \A c \in Channels : /\ failures[c] \in 0..MaxProbeFailures
                          /\ streak[c] \in 0..MaxProbeFailures
                          /\ failures'[c] \in 0..MaxProbeFailures
                          /\ failures'[c] <= failures[c]
  BY RoutingAssumption DEF Typed, HealthTypes
<1>4. \A c \in Channels : CountUp(failures'[c]) <= CountUp(failures[c])
                          /\ CountUp(failures'[c]) \in 0..MaxProbeFailures
                          /\ CountUp(failures[c]) \in 0..MaxProbeFailures
  BY <1>3, CountUpGrows
<1>5. \A p \in Probers : probe[p].chan \subseteq Channels
  BY DEF Typed, ProbeTypes, ProbeRecord
<1>6. \A c \in Channels : failures'[c] <= streak'[c]
  BY <1>1, <1>3 DEF Counted
<1>7. ASSUME NEW p \in Probers, NEW c \in probe[p].chan, ProbeAt(p, "read")
      PROVE  CountUp(failures'[c]) <= streak[c]
  <2>1. c \in Channels /\ CountUp(failures[c]) <= streak[c]
    BY <1>1, <1>5, <1>7 DEF Counted
  <2> QED BY <2>1, <1>3, <1>4
<1>8. Counted'
  BY <1>1, <1>6, <1>7 DEF Counted, ProbeAt
<1> QED BY <1>2, <1>8

\* Steps of a prober that leave the counts and streaks alone.
LEMMA ProbesKeepCounts ==
    ASSUME Typed, EarnedInv, NEW p \in Probers, ProbeStep(p) \/ ProberDies(p),
           UNCHANGED <<failures, streak>>, faults' = 0 => Exclusive',
           faults' = 0 => faults = 0,
           probe'[p].pc \notin {"read", "write", "disable"}
    PROVE  EarnedInv'
<1> SUFFICES ASSUME faults' = 0 PROVE Counted'
  BY DEF EarnedInv
<1>1. Counted
  BY DEF EarnedInv
<1>2. \A q \in Probers : q = p \/ probe'[q] = probe[q]
  BY ProberMoves
<1> QED BY <1>1, <1>2 DEF Counted, ProbeAt

\* The lock is taken before a channel and given up with it.
LEMMA LocksExclude ==
    ASSUME Typed, Exclusive, NEW p \in Probers, ProbeStep(p)
    PROVE  Exclusive'
<1>1. \A q \in Probers \ {p} : probe'[q] = probe[q]
  BY ProberMoves
<1>2. probe \in [Probers -> ProbeRecord]
  BY DEF Typed, ProbeTypes
<1>3. CASE lock' = lock /\ probe'[p].chan \subseteq probe[p].chan
  BY <1>1, <1>3 DEF Exclusive
<1>4. CASE AcquireProbeLock(p)
  <2>1. CASE lock' = lock /\ probe'[p].chan \subseteq probe[p].chan
    BY <1>3, <2>1
  <2>2. ASSUME NEW c \in probe[p].todo, c \notin lock, lock' = lock \cup {c},
               probe'[p].chan = {c}
        PROVE  Exclusive'
    BY <1>1, <2>2 DEF Exclusive
  <2>3. \/ lock' = lock /\ probe'[p].chan \subseteq probe[p].chan
        \/ \E c \in probe[p].todo : c \notin lock /\ lock' = lock \cup {c}
                                    /\ probe'[p].chan = {c}
    <3>1. CASE probe' = [probe EXCEPT ![p] = NoProbe] /\ lock' = lock
      BY <1>2, <3>1 DEF NoProbe
    <3>2. ASSUME NEW c \in probe[p].todo,
                 probe' = [probe EXCEPT ![p].todo = @ \ {c}] /\ lock' = lock
          PROVE  probe'[p].chan \subseteq probe[p].chan
      BY <1>2, <3>2 DEF ProbeRecord
    <3>3. ASSUME NEW c \in probe[p].todo,
                 probe' = [probe EXCEPT ![p].todo = @ \ {c}, ![p].chan = {c},
                                        ![p].pc = "probe"]
          PROVE  probe'[p].chan = {c}
      BY <1>2, <3>3 DEF ProbeRecord
    <3> QED BY <1>4, <3>1, <3>2, <3>3 DEF AcquireProbeLock
  <2> QED BY <2>1, <2>2, <2>3
<1>5. CASE ReleaseProbeLock(p)
  <2>1. probe'[p].chan = {} /\ lock \ probe[p].chan \subseteq lock' 
    BY <1>2, <1>5 DEF ReleaseProbeLock, ProbeRecord
  <2> QED BY <1>1, <2>1 DEF Exclusive
<1>6. CASE ListDegraded(p)
  <2>1. lock' = lock /\ probe'[p].chan = {}
    BY <1>2, <1>6 DEF ListDegraded, healthVars, NoProbe
  <2> QED BY <1>3, <2>1
<1>7. CASE \/ ProbeSingleChannel(p) \/ RemoveFromDegraded(p) \/ ClearChannelState(p)
           \/ RecordProbeFailure(p) \/ HardDisableChannel(p)
  <2>1. lock' = lock /\ probe'[p].chan = probe[p].chan
    BY <1>2, <1>7, ZenonT(30) DEF ProbeSingleChannel, RemoveFromDegraded, ClearChannelState,
                      RecordProbeFailure, HardDisableChannel, ProbeGo, ProbeRecord, healthVars
  <2> QED BY <1>3, <2>1
<1> QED BY <1>4, <1>5, <1>6, <1>7 DEF ProbeStep

\* A probe that failed raises the streak, so its count may be raised.
LEMMA ProbeEarns ==
    ASSUME Typed, EarnedInv, NEW p \in Probers, ProbeSingleChannel(p)
    PROVE  EarnedInv'
<1> SUFFICES ASSUME faults' = 0 PROVE Exclusive' /\ Counted'
  BY DEF EarnedInv
<1>1. Exclusive /\ Counted
  BY DEF EarnedInv, ProbeSingleChannel
<1>2. Exclusive'
  BY <1>1, LocksExclude DEF ProbeStep
<1>3. \A q \in Probers \ {p} : probe'[q] = probe[q]
  BY ProberMoves DEF ProbeStep
<1>4. \A c \in Channels : failures[c] \in 0..MaxProbeFailures
                          /\ streak[c] \in 0..MaxProbeFailures
  BY DEF Typed, HealthTypes
<1>5. \A q \in Probers : probe[q].chan \subseteq Channels
  BY DEF Typed, ProbeTypes, ProbeRecord
<1>6. failures' = failures /\ probe'[p].chan = probe[p].chan
  BY DEF ProbeSingleChannel, ProbeGo, Typed, ProbeTypes, ProbeRecord
<1>7. CASE streak' = streak /\ probe'[p].pc \notin {"read", "write", "disable"}
  BY <1>1, <1>2, <1>3, <1>6, <1>7 DEF Counted, ProbeAt
<1>8. CASE /\ probe'[p].pc = "read"
           /\ streak' = [c \in Channels |->
                IF c \in probe[p].chan THEN CountUp(streak[c]) ELSE streak[c]]
  <2>1. \A c \in Channels : CountUp(failures[c]) <= CountUp(streak[c])
                            /\ streak[c] <= CountUp(streak[c])
                            /\ CountUp(streak[c]) \in 0..MaxProbeFailures
                            /\ CountUp(failures[c]) \in 0..MaxProbeFailures
    BY <1>1, <1>4, CountUpGrows DEF Counted
  <2>2. \A c \in Channels : streak[c] <= streak'[c] /\ streak'[c] \in 0..MaxProbeFailures
    BY <1>4, <1>8, <2>1
  <2>3. \A c \in Channels : failures'[c] <= streak'[c]
    BY <1>1, <1>4, <1>6, <2>2, RoutingAssumption DEF Counted
  <2>4. \A c \in probe[p].chan : CountUp(failures'[c]) <= streak'[c]
    BY <1>5, <1>6, <1>8, <2>1
  <2>5. ASSUME NEW q \in Probers \ {p}, NEW c \in probe[q].chan
        PROVE  streak'[c] = streak[c]
    <3>1. c \notin probe[p].chan /\ c \in Channels
      BY <1>1, <1>5 DEF Exclusive
    <3> QED BY <1>8, <3>1
  <2>6. ASSUME NEW q \in Probers \ {p}, NEW c \in probe'[q].chan
        PROVE  /\ ProbeAt(q, "read")' => CountUp(failures'[c]) <= streak'[c]
               /\ ProbeAt(q, "write")' => CountUp(probe'[q].seen) <= streak'[c]
               /\ ProbeAt(q, "disable")' => streak'[c] >= MaxProbeFailures
    BY <1>1, <1>3, <1>6, <2>5 DEF Counted, ProbeAt
  <2>7. ASSUME NEW c \in probe'[p].chan
        PROVE  /\ ProbeAt(p, "read")' => CountUp(failures'[c]) <= streak'[c]
               /\ ~ProbeAt(p, "write")' /\ ~ProbeAt(p, "disable")'
    BY <1>6, <1>8, <2>4 DEF ProbeAt
  <2> QED BY <1>2, <2>3, <2>6, <2>7 DEF Counted
<1>9. \/ streak' = streak /\ probe'[p].pc \notin {"read", "write", "disable"}
      \/ /\ probe'[p].pc = "read"
         /\ streak' = [c \in Channels |->
              IF c \in probe[p].chan THEN CountUp(streak[c]) ELSE streak[c]]
  BY DEF ProbeSingleChannel, ProbeGo, Typed, ProbeTypes, ProbeRecord
<1> QED BY <1>7, <1>8, <1>9

\* A recovery clears the count before anything can be counted again.
LEMMA ClearEarns ==
    ASSUME Typed, EarnedInv, NEW p \in Probers, ClearChannelState(p)
    PROVE  EarnedInv'
<1> SUFFICES ASSUME faults' = 0 PROVE Exclusive' /\ Counted'
  BY DEF EarnedInv
<1>1. faults = 0
  BY RoutingAssumption DEF ClearChannelState, Fault, NoFault, Typed, CatalogTypes
<1>2. Exclusive /\ Counted
  BY <1>1 DEF EarnedInv
<1>3. Exclusive'
  BY <1>2, LocksExclude DEF ProbeStep
<1>4. \A q \in Probers \ {p} : probe'[q] = probe[q]
  BY ProberMoves DEF ProbeStep
<1>5. probe'[p].pc \notin {"read", "write", "disable"}
  BY DEF ClearChannelState, ProbeGo, Typed, ProbeTypes, ProbeRecord
<1>6. \A q \in Probers : probe[q].chan \subseteq Channels
  BY DEF Typed, ProbeTypes, ProbeRecord
<1>7. \/ UNCHANGED <<failures, streak>>
      \/ /\ failures' = [c \in Channels |-> IF c \in probe[p].chan THEN 0 ELSE failures[c]]
         /\ streak' = [c \in Channels |-> IF c \in probe[p].chan THEN 0 ELSE streak[c]]
  BY DEF ClearChannelState
<1>8. \A c \in Channels : failures'[c] <= streak'[c]
  BY <1>2, <1>7 DEF Counted
<1>9. ASSUME NEW q \in Probers \ {p}, NEW c \in probe[q].chan
      PROVE  failures'[c] = failures[c] /\ streak'[c] = streak[c]
  <2>1. c \notin probe[p].chan /\ c \in Channels
    BY <1>2, <1>6 DEF Exclusive
  <2> QED BY <1>7, <2>1
<1>10. ASSUME NEW q \in Probers \ {p}, NEW c \in probe'[q].chan
       PROVE  /\ ProbeAt(q, "read")' => CountUp(failures'[c]) <= streak'[c]
              /\ ProbeAt(q, "write")' => CountUp(probe'[q].seen) <= streak'[c]
              /\ ProbeAt(q, "disable")' => streak'[c] >= MaxProbeFailures
  BY <1>2, <1>4, <1>9 DEF Counted, ProbeAt
<1> QED BY <1>3, <1>5, <1>8, <1>10 DEF Counted, ProbeAt

\* What is read is written back one higher, within the streak.
LEMMA FailureEarns ==
    ASSUME Typed, EarnedInv, NEW p \in Probers, RecordProbeFailure(p)
    PROVE  EarnedInv'
<1> SUFFICES ASSUME faults' = 0 PROVE Exclusive' /\ Counted'
  BY DEF EarnedInv
<1>1. faults = 0 /\ ~Fault
  <2>1. ~Fault
    BY RoutingAssumption DEF Fault, Typed, CatalogTypes
  <2>2. Fault \/ NoFault
    BY DEF RecordProbeFailure
  <2> QED BY <2>1, <2>2 DEF NoFault
<1>2. Exclusive /\ Counted
  BY <1>1 DEF EarnedInv
<1>3. Exclusive'
  BY <1>2, LocksExclude DEF ProbeStep
<1>4. \A q \in Probers \ {p} : probe'[q] = probe[q]
  BY ProberMoves DEF ProbeStep
<1>5. \A q \in Probers : probe[q].chan \subseteq Channels
  BY DEF Typed, ProbeTypes, ProbeRecord
<1>6. streak' = streak
  BY DEF RecordProbeFailure
<1>7. \A c \in Channels : failures[c] \in 0..MaxProbeFailures
                          /\ streak[c] \in 0..MaxProbeFailures
  BY DEF Typed, HealthTypes
<1>8. probe \in [Probers -> ProbeRecord] /\ probe[p].seen \in 0..MaxProbeFailures
  BY DEF Typed, ProbeTypes, ProbeRecord
<1>9. CASE ProbeAt(p, "read")
  <2>1. /\ failures' = failures /\ probe'[p].pc = "write"
        /\ probe'[p].chan = probe[p].chan
        /\ \A c \in probe[p].chan : probe'[p].seen = failures[c]
    <3>1. PICK n : /\ IF \A c \in probe[p].chan : n = failures[c] THEN NoFault ELSE Fault
                   /\ probe' = [probe EXCEPT ![p].seen = n, ![p].pc = "write"]
                   /\ failures' = failures
      BY <1>9 DEF RecordProbeFailure, ProbeAt
    <3>2. \A c \in probe[p].chan : n = failures[c]
      BY <1>1, <3>1
    <3>3. /\ probe'[p].pc = "write" /\ probe'[p].chan = probe[p].chan
          /\ probe'[p].seen = n
      BY <1>8, <3>1 DEF ProbeRecord
    <3> QED BY <3>1, <3>2, <3>3
  <2>2. \A c \in probe'[p].chan : CountUp(probe'[p].seen) <= streak[c]
    BY <1>2, <1>9, <2>1 DEF Counted
  <2> QED BY <1>2, <1>3, <1>4, <1>6, <2>1, <2>2 DEF Counted, ProbeAt
<1>10. CASE ProbeAt(p, "write")
  <2>1. /\ failures' = [c \in Channels |->
              IF c \in probe[p].chan THEN CountUp(probe[p].seen) ELSE failures[c]]
        /\ probe'[p].chan = probe[p].chan
        /\ probe'[p].pc = IF Disables(probe[p].seen + 1) THEN "disable" ELSE "release"
    BY <1>1, <1>8, <1>10 DEF RecordProbeFailure, ProbeAt, ProbeRecord
  <2>2. \A c \in probe[p].chan : CountUp(probe[p].seen) <= streak[c]
    BY <1>2, <1>10 DEF Counted
  <2>3. \A c \in Channels : failures'[c] <= streak'[c]
    BY <1>2, <1>6, <2>1, <2>2 DEF Counted
  <2>4. ASSUME NEW q \in Probers \ {p}, NEW c \in probe[q].chan
        PROVE  failures'[c] = failures[c]
    <3>1. c \notin probe[p].chan /\ c \in Channels
      BY <1>2, <1>5 DEF Exclusive
    <3> QED BY <2>1, <3>1
  <2>5. ASSUME NEW q \in Probers \ {p}, NEW c \in probe'[q].chan
        PROVE  /\ ProbeAt(q, "read")' => CountUp(failures'[c]) <= streak'[c]
               /\ ProbeAt(q, "write")' => CountUp(probe'[q].seen) <= streak'[c]
               /\ ProbeAt(q, "disable")' => streak'[c] >= MaxProbeFailures
    BY <1>2, <1>4, <1>6, <2>4 DEF Counted, ProbeAt
  <2>6. Disables(probe[p].seen + 1) => CountUp(probe[p].seen) = MaxProbeFailures
    BY <1>8, RoutingAssumption DEF Disables, CountUp
  <2>7. ASSUME NEW c \in probe[p].chan, Disables(probe[p].seen + 1)
        PROVE  streak[c] >= MaxProbeFailures
    BY <1>5, <1>7, <2>2, <2>6, <2>7, RoutingAssumption
  <2>8. ASSUME NEW c \in probe'[p].chan
        PROVE  /\ ~ProbeAt(p, "read")' /\ ~ProbeAt(p, "write")'
               /\ ProbeAt(p, "disable")' => streak'[c] >= MaxProbeFailures
    BY <1>6, <2>1, <2>7 DEF ProbeAt
  <2> QED BY <1>3, <2>3, <2>5, <2>8 DEF Counted
<1> QED BY <1>9, <1>10 DEF RecordProbeFailure

LEMMA NextEarned == Typed /\ EarnedInv /\ [Next]_vars => EarnedInv'
<1> SUFFICES ASSUME Typed, EarnedInv, [Next]_vars PROVE EarnedInv'
  OBVIOUS
<1>1. Fault => faults' # 0
  BY RoutingAssumption DEF Fault, Typed, CatalogTypes
<1>2. ASSUME WriteCatalog \/ \E c \in Channels : SlideWindow(c) PROVE EarnedInv'
  <2>1. UNCHANGED <<lock, probe, streak, failures, faults>>
    BY <1>2 DEF WriteCatalog, SlideWindow, healthVars
  <2> QED BY <2>1, ResetsKeepCounts
<1>3. ASSUME NEW c \in Channels, RecoverChannel(c) PROVE EarnedInv'
  BY <1>1, <1>3 DEF RecoverChannel, EarnedInv
<1>4. ASSUME NEW c \in Channels, ExpireProbeLock(c) PROVE EarnedInv'
  <2> SUFFICES ASSUME faults' = 0 PROVE Exclusive' /\ Counted'
    BY DEF EarnedInv
  <2>1. faults = 0 /\ \A p \in Probers : c \notin probe[p].chan
    BY <1>1, <1>4 DEF ExpireProbeLock, NoFault
  <2>2. lock' = lock \ {c} /\ UNCHANGED <<probe, failures, streak>>
    BY <1>4 DEF ExpireProbeLock
  <2> QED BY <2>1, <2>2 DEF EarnedInv, Exclusive, Counted, ProbeAt
<1>5. ASSUME NEW f \in Finalizers, RecordAndEvaluate(f) PROVE EarnedInv'
  <2>1. UNCHANGED <<lock, probe, streak>>
    BY <1>5 DEF RecordAndEvaluate, RecordOutcome, GetErrorRate, AddToDegraded,
                UpdateChannelState, FinUnchanged
  <2>2. faults' = 0 => faults = 0
    BY <1>1, <1>5 DEF RecordAndEvaluate, RecordOutcome, GetErrorRate, AddToDegraded,
                      UpdateChannelState, NoFault
  <2>3. \A c \in Channels : failures'[c] = failures[c] \/ failures'[c] = 0
    BY <1>5 DEF RecordAndEvaluate, RecordOutcome, GetErrorRate, AddToDegraded,
                UpdateChannelState
  <2> QED BY <2>1, <2>2, <2>3, ResetsKeepCounts
<1>6. ASSUME NEW p \in Probers, ProberDies(p) PROVE EarnedInv'
  BY <1>1, <1>6 DEF ProberDies, EarnedInv
<1>7. ASSUME NEW p \in Probers,
             \/ ListDegraded(p) \/ AcquireProbeLock(p) \/ RemoveFromDegraded(p)
             \/ HardDisableChannel(p) \/ ReleaseProbeLock(p)
      PROVE  EarnedInv'
  <2>1. UNCHANGED <<failures, streak>> /\ (faults' = 0 => faults = 0) /\ ProbeStep(p)
    BY <1>1, <1>7 DEF ListDegraded, AcquireProbeLock, RemoveFromDegraded,
                      HardDisableChannel, ReleaseProbeLock, healthVars, NoFault, ProbeStep
  <2>2. probe'[p].pc \notin {"read", "write", "disable"}
    <3>1. probe \in [Probers -> ProbeRecord]
      BY DEF Typed, ProbeTypes
    <3>2. CASE ListDegraded(p)
      BY <3>1, <3>2 DEF ListDegraded, NoProbe
    <3>3. CASE AcquireProbeLock(p)
      <4>1. \/ probe' = [probe EXCEPT ![p] = NoProbe]
            \/ \E c \in probe[p].todo :
                  \/ probe' = [probe EXCEPT ![p].todo = @ \ {c}]
                  \/ probe' = [probe EXCEPT ![p].todo = @ \ {c}, ![p].chan = {c},
                                            ![p].pc = "probe"]
        BY <3>3 DEF AcquireProbeLock
      <4>2. probe[p].pc = "next"
        BY <3>3 DEF AcquireProbeLock, ProbeAt
      <4>3. CASE probe' = [probe EXCEPT ![p] = NoProbe]
        BY <3>1, <4>3 DEF NoProbe
      <4>4. ASSUME NEW c, probe' = [probe EXCEPT ![p].todo = @ \ {c}]
            PROVE  probe'[p].pc = "next"
        BY <3>1, <4>2, <4>4 DEF ProbeRecord
      <4>5. ASSUME NEW c, probe' = [probe EXCEPT ![p].todo = @ \ {c}, ![p].chan = {c},
                                                 ![p].pc = "probe"]
            PROVE  probe'[p].pc = "probe"
        BY <3>1, <4>5 DEF ProbeRecord
      <4> QED BY <4>1, <4>3, <4>4, <4>5
    <3>4. CASE RemoveFromDegraded(p) \/ HardDisableChannel(p) \/ ReleaseProbeLock(p)
      BY <3>1, <3>4 DEF RemoveFromDegraded, HardDisableChannel, ReleaseProbeLock, ProbeGo,
                        ProbeRecord
    <3> QED BY <1>7, <3>2, <3>3, <3>4
  <2>3. faults' = 0 => Exclusive'
    BY <2>1, LocksExclude DEF EarnedInv
  <2> QED BY <2>1, <2>2, <2>3, ProbesKeepCounts
<1>8. ASSUME NEW r \in Replicas, Debounce(r) \/ \E t \in Tasks : Rebuild(r, t) PROVE EarnedInv'
  <2>1. UNCHANGED <<lock, probe, streak, failures>> /\ (faults' = 0 => faults = 0)
    BY <1>1, <1>8 DEF Debounce, Rebuild, ReadRows, SwapRouter, RouterUnchanged, healthVars,
                      NoFault
  <2> QED BY <2>1, ResetsKeepCounts
<1>9. CASE UNCHANGED vars
  <2>1. UNCHANGED <<lock, probe, streak, failures, faults>>
    BY <1>9 DEF vars, healthVars
  <2> QED BY <2>1, ResetsKeepCounts
<1> QED BY <1>2, <1>3, <1>4, <1>5, <1>6, <1>7, <1>8, <1>9, ProbeEarns, ClearEarns,
           FailureEarns DEF Next, ProbeStep

\* Without faults the prober disables a channel only when it failed as many
\* probes in a row as the limit says: reads and writes of the count by several
\* probers and finalizers never make it run ahead.
THEOREM DisablesAreEarned == Spec => []DisableIsEarned
<1>1. Init => EarnedInv
  BY DEF Init, EarnedInv, Exclusive, Counted, NoProbe, ProbeAt
<1>2. EarnedInv => DisableIsEarned
  BY DEF EarnedInv, Counted, DisableIsEarned
<1> QED BY <1>1, <1>2, InitTyped, NextTyped, NextEarned, PTL DEF Spec

-----------------------------------------------------------------------------
(* Routers go forward.                                                      *)

\* Revisions only grow: whatever a router or a rebuild holds is no younger than
\* the catalog's, and a rebuild that holds rows is alone in its replica, so its
\* rows are no older than the router's.
Younger(rows, other) == \A c \in Channels : rows[c] # 0 => other[c] <= rows[c]

ForwardInv ==
    /\ \A c \in Channels : config[c] <= writes + 1
    /\ \A r \in Replicas :
          /\ \A c \in Channels : router[r].rows[c] <= writes + 1
          /\ Younger(config, router[r].rows)
          /\ \A t \in Tasks : task[r][t].pc = "read" =>
                /\ \A c \in Channels : task[r][t].rows[c] <= writes + 1
                /\ Younger(config, task[r][t].rows)
                /\ Younger(task[r][t].rows, router[r].rows)
                /\ \A u \in Tasks : task[r][u].pc = "read" => u = t

Forward ==
    \A r \in Replicas, c \in Channels :
        router'[r].rows[c] # 0 => router'[r].rows[c] >= router[r].rows[c]

\* A write gives the channel a revision above all others, or none.
LEMMA WriteForward == Typed /\ ForwardInv /\ WriteCatalog => ForwardInv' /\ Forward
<1> SUFFICES ASSUME Typed, ForwardInv, WriteCatalog PROVE ForwardInv' /\ Forward
  OBVIOUS
<1>1. PICK c \in Channels, on \in BOOLEAN :
        config' = [config EXCEPT ![c] = IF on THEN writes' + 1 ELSE 0]
  BY DEF WriteCatalog
<1>2. UNCHANGED <<task, router>> /\ writes' = writes + 1 /\ writes \in Nat
  BY RoutingAssumption DEF WriteCatalog, Typed, CatalogTypes
<1>3. \A d \in Channels : config'[d] = config[d] \/ config'[d] = writes + 2 \/ config'[d] = 0
  BY <1>1, <1>2 DEF Typed, CatalogTypes, RowsType
<1>4. \A d \in Channels : config[d] \in Nat
  BY RoutingAssumption DEF Typed, CatalogTypes, RowsType
<1>5. \A r \in Replicas : \A d \in Channels : router[r].rows[d] \in Nat
  BY RoutingAssumption DEF Typed, ReplicaTypes, RouterRecord, RowsType
<1>6. \A r \in Replicas, t \in Tasks : \A d \in Channels : task[r][t].rows[d] \in Nat
  <2>1. \A r \in Replicas, t \in Tasks : task[r][t] \in TaskRecord
    BY DEF Typed, ReplicaTypes
  <2> QED BY <2>1, RoutingAssumption DEF TaskRecord, RowsType
<1>7. Forward
  BY <1>2, <1>5 DEF Forward
<1>8. \A d \in Channels : config'[d] <= writes' + 1
  BY <1>2, <1>3, <1>4 DEF ForwardInv
<1>9. ASSUME NEW r \in Replicas
      PROVE  /\ \A d \in Channels : router[r].rows[d] <= writes' + 1
             /\ Younger(config', router[r].rows)
  BY <1>2, <1>3, <1>4, <1>5 DEF ForwardInv, Younger
<1>10. ASSUME NEW r \in Replicas, NEW t \in Tasks, task[r][t].pc = "read"
       PROVE  /\ \A d \in Channels : task[r][t].rows[d] <= writes' + 1
              /\ Younger(config', task[r][t].rows)
  BY <1>2, <1>3, <1>4, <1>6, <1>10 DEF ForwardInv, Younger
<1> QED BY <1>2, <1>7, <1>8, <1>9, <1>10 DEF ForwardInv, Younger

\* A disable takes the revision away.
LEMMA DisableForward ==
    ASSUME Typed, ForwardInv, NEW p \in Probers, HardDisableChannel(p)
    PROVE  ForwardInv' /\ Forward
<1>1. UNCHANGED <<task, router, writes>> /\ writes \in Nat
  BY RoutingAssumption DEF HardDisableChannel, ProbeUnchanged, Typed, CatalogTypes
<1>2. \A d \in Channels : config'[d] = config[d] \/ config'[d] = 0
  BY DEF HardDisableChannel, Without
<1>3. \A r \in Replicas : \A d \in Channels : router[r].rows[d] \in Nat
  BY RoutingAssumption DEF Typed, ReplicaTypes, RouterRecord, RowsType
<1>4. Forward
  BY <1>1, <1>3 DEF Forward
<1>5. \A d \in Channels : config'[d] <= writes' + 1
  BY <1>1, <1>2 DEF ForwardInv
<1>6. \A rows : Younger(config, rows) => Younger(config', rows)
  BY <1>2 DEF Younger
<1> QED BY <1>1, <1>4, <1>5, <1>6 DEF ForwardInv, Younger

\* A rebuild reads the catalog when no other rebuild of its replica holds rows.
LEMMA ReadForward ==
    ASSUME Typed, ForwardInv, NEW r \in Replicas, NEW t \in Tasks, ReadRows(r, t)
    PROVE  ForwardInv' /\ Forward
<1>1. UNCHANGED <<config, writes, router>>
  BY DEF ReadRows, RouterUnchanged, catalogVars
<1>2. PICK e \in {[pc |-> "read", rows |-> config], Sleeping} : task' = [task EXCEPT ![r][t] = e]
  BY DEF ReadRows
<1>3. \A u \in Tasks : task[r][u].pc # "read"
  BY DEF ReadRows
<1>4. \A q \in Replicas, u \in Tasks : task'[q][u] = IF q = r /\ u = t THEN e ELSE task[q][u]
  BY <1>2 DEF Typed, ReplicaTypes
<1>5. e.pc = "read" => e.rows = config
  BY <1>2 DEF Sleeping
<1>6. \A q \in Replicas : \A d \in Channels : router[q].rows[d] \in Nat
  BY RoutingAssumption DEF Typed, ReplicaTypes, RouterRecord, RowsType
<1>7. \A d \in Channels : config[d] \in Nat
  BY RoutingAssumption DEF Typed, CatalogTypes, RowsType
<1>8. Forward
  BY <1>1, <1>6 DEF Forward
<1>9. ASSUME NEW q \in Replicas, NEW u \in Tasks, task'[q][u].pc = "read"
      PROVE  /\ \A c \in Channels : task'[q][u].rows[c] <= writes + 1
             /\ Younger(config, task'[q][u].rows)
             /\ Younger(task'[q][u].rows, router[q].rows)
             /\ \A v \in Tasks : task'[q][v].pc = "read" => v = u
  <2>1. CASE q = r
    <3>1. u = t /\ task'[q][u].rows = config
      BY <1>3, <1>4, <1>5, <1>9, <2>1
    <3>2. \A v \in Tasks : task'[q][v].pc = "read" => v = u
      BY <1>3, <1>4, <2>1, <3>1
    <3> QED BY <1>7, <3>1, <3>2 DEF ForwardInv, Younger
  <2>2. CASE q # r
    BY <1>4, <1>9, <2>2 DEF ForwardInv
  <2> QED BY <2>1, <2>2
<1> QED BY <1>1, <1>8, <1>9 DEF ForwardInv, Younger

\* The router is replaced by rows that are no older.
LEMMA SwapForward ==
    ASSUME Typed, ForwardInv, NEW r \in Replicas, NEW t \in Tasks, SwapRouter(r, t)
    PROVE  ForwardInv' /\ Forward
<1>1. UNCHANGED <<config, writes>> /\ writes \in Nat /\ task[r][t].pc = "read"
  BY RoutingAssumption DEF SwapRouter, RouterUnchanged, catalogVars, Typed, CatalogTypes
<1>2. PICK ids : \/ router' = router
                 \/ router' = [router EXCEPT ![r] =
                                 [built |-> TRUE, rows |-> Without(task[r][t].rows, ids)]]
  BY DEF SwapRouter
<1>3. \A q \in Replicas : \A d \in Channels : router[q].rows[d] \in Nat
  BY RoutingAssumption DEF Typed, ReplicaTypes, RouterRecord, RowsType
<1>4. \A q \in Replicas, u \in Tasks : task'[q][u] = IF q = r /\ u = t THEN Sleeping ELSE task[q][u]
  BY DEF SwapRouter, Typed, ReplicaTypes
<1>5. \A q \in Replicas \ {r} : router'[q] = router[q]
  BY <1>2 DEF Typed, ReplicaTypes
<1>6. \/ router'[r].rows = router[r].rows
      \/ \A d \in Channels : router'[r].rows[d] = 0 \/ router'[r].rows[d] = task[r][t].rows[d]
  BY <1>2 DEF Typed, ReplicaTypes, Without
<1>7. \A d \in Channels : /\ task[r][t].rows[d] \in Nat
                          /\ task[r][t].rows[d] <= writes + 1
                          /\ config[d] # 0 => task[r][t].rows[d] <= config[d]
                          /\ task[r][t].rows[d] # 0 => router[r].rows[d] <= task[r][t].rows[d]
  <2>1. task[r][t] \in TaskRecord
    BY DEF Typed, ReplicaTypes
  <2> QED BY <1>1, <2>1, RoutingAssumption DEF ForwardInv, Younger, TaskRecord, RowsType
<1>8. \A d \in Channels : config[d] \in Nat
  BY RoutingAssumption DEF Typed, CatalogTypes, RowsType
<1>9. Forward
  BY <1>3, <1>5, <1>6, <1>7 DEF Forward
<1>10. ASSUME NEW q \in Replicas
       PROVE  /\ \A d \in Channels : router'[q].rows[d] <= writes + 1
              /\ Younger(config, router'[q].rows)
  <2>1. CASE q = r
    BY <1>1, <1>6, <1>7, <1>8, <2>1 DEF ForwardInv, Younger
  <2>2. CASE q # r
    BY <1>5, <2>2 DEF ForwardInv, Younger
  <2> QED BY <2>1, <2>2
<1>11. \A u \in Tasks : task'[r][u].pc # "read"
  BY <1>1, <1>4 DEF ForwardInv, Sleeping
<1>12. ASSUME NEW q \in Replicas, NEW u \in Tasks, task'[q][u].pc = "read"
       PROVE  q # r /\ task'[q] = task[q] /\ router'[q] = router[q]
  <2>1. q # r
    BY <1>11, <1>12
  <2>2. task'[q] = task[q]
    BY <2>1 DEF SwapRouter, Typed, ReplicaTypes
  <2> QED BY <1>5, <2>1, <2>2
<1> QED BY <1>1, <1>9, <1>10, <1>12 DEF ForwardInv, Younger

LEMMA NextForward == Typed /\ ForwardInv /\ [Next]_vars => ForwardInv' /\ Forward
<1> SUFFICES ASSUME Typed, ForwardInv, [Next]_vars PROVE ForwardInv' /\ Forward
  OBVIOUS
<1>1. CASE UNCHANGED <<config, writes, task, router>>
  <2>1. \A q \in Replicas : \A d \in Channels : router[q].rows[d] \in Nat
    BY RoutingAssumption DEF Typed, ReplicaTypes, RouterRecord, RowsType
  <2> QED BY <1>1, <2>1 DEF ForwardInv, Forward, Younger
<1>2. ASSUME NEW r \in Replicas, Debounce(r) PROVE ForwardInv' /\ Forward
  <2>1. UNCHANGED <<config, writes, router>>
    BY <1>2 DEF Debounce, RouterUnchanged, catalogVars
  <2>2. \A q \in Replicas : \A d \in Channels : router[q].rows[d] \in Nat
    BY RoutingAssumption DEF Typed, ReplicaTypes, RouterRecord, RowsType
  <2>3. task \in [Replicas -> [Tasks -> TaskRecord]] /\ "debounce" \in Tasks
    BY DEF Typed, ReplicaTypes, Tasks
  <2>4. task' = [task EXCEPT ![r]["debounce"].pc = "quiet"]
    BY <1>2 DEF Debounce
  <2>5. \A q \in Replicas, u \in Tasks : task'[q][u].pc = "read" => task'[q][u] = task[q][u]
    <3>1. \A q \in Replicas, u \in Tasks : ~(q = r /\ u = "debounce") => task'[q][u] = task[q][u]
      BY <2>3, <2>4
    <3>2. task'[r]["debounce"].pc = "quiet"
      BY <2>3, <2>4 DEF TaskRecord
    <3> QED BY <3>1, <3>2
  <2> QED BY <2>1, <2>2, <2>5 DEF ForwardInv, Forward, Younger
<1>3. Next => \/ UNCHANGED <<config, writes, task, router>>
              \/ WriteCatalog
              \/ \E p \in Probers : HardDisableChannel(p)
              \/ \E r \in Replicas : Debounce(r) \/ \E t \in Tasks : Rebuild(r, t)
  BY DEF Next, RecordAndEvaluate, RecordOutcome, GetErrorRate, AddToDegraded,
         UpdateChannelState, FinUnchanged, SlideWindow, ExpireProbeLock, RecoverChannel,
         ProbeStep, ListDegraded, AcquireProbeLock, ProbeSingleChannel, RemoveFromDegraded,
         ClearChannelState, RecordProbeFailure, ReleaseProbeLock, ProberDies,
         ProbeUnchanged, catalogVars, replicaVars
<1>4. UNCHANGED vars => UNCHANGED <<config, writes, task, router>>
  BY DEF vars, catalogVars, replicaVars
<1> QED BY <1>1, <1>2, <1>3, <1>4, WriteForward, DisableForward, ReadForward, SwapForward
        DEF Rebuild

\* A router is never replaced by one with an older revision of a channel, for
\* any number of replicas, writes and lost invalidations: the two rebuild tasks
\* of a replica never overlap.
THEOREM RoutersGoForward == Spec => RoutersNeverGoBack
<1>1. Init => ForwardInv
  BY NoneType, RoutingAssumption
     DEF Init, ForwardInv, Younger, NoRouter, Sleeping, None
<1>2. Typed /\ ForwardInv /\ [Next]_vars => [Forward]_vars
  BY NextForward
<1>3. [][Forward]_vars => RoutersNeverGoBack
  BY PTL DEF Forward, RoutersNeverGoBack
<1> QED BY <1>1, <1>2, <1>3, InitTyped, NextTyped, NextForward, PTL DEF Spec
=============================================================================
