---------------------------- MODULE ReplicaProofs ----------------------------
(***************************************************************************)
(* Proofs about Replica, for any number of worker ids and any timeouts:    *)
(* its types, that a lost lease is noticed in time, that a running stream  *)
(* keeps its slot, that the finalizers are drained before the stores are   *)
(* closed, that told usage is counted and that snowflake ids only grow.    *)
(***************************************************************************)
EXTENDS Replica, TLAPS

\* The inductive form of TypeOK, in three parts: the lease, the stream, the
\* generator.  A process that does not serve yet, or any more, has no key.
LeaseTypes ==
    /\ phase \in {"down", "walk", "serving", "stopping", "draining", "releasing", "closed"}
    /\ at \in WorkerIds
    /\ holder \in [WorkerIds -> {"none", "me", "other"}]
    /\ ttl \in 0..TTL
    /\ \A n \in WorkerIds : holder[n] = "me" <=> n = at /\ ttl > 0
    /\ beat \in (-MaxLag)..(Interval + 1)
    /\ since \in 0..TTL
    /\ lost \in 0..(Interval + MaxLag + 1)
    /\ drain \in 0..DrainTimeout
    /\ phase \in {"down", "walk", "closed"} => ttl = 0

StreamStates == {"none", "connect", "check", "wait", "yield", "end", "release", "settle"}

StreamRecord ==
    [state : StreamStates, age : Nat, quiet : Nat, part : BOOLEAN, bears : BOOLEAN,
     counted : BOOLEAN, told : BOOLEAN, attached : BOOLEAN]

StreamTypes ==
    /\ stream \in StreamRecord
    /\ slot \in {"none", "held", "evicted"}
    /\ held \in 0..Stale

GenTypes == gen \in [last : Clock \cup {-1}, seq : 0..MaxSequence]

Typed == LeaseTypes /\ StreamTypes /\ GenTypes

\* Why a loss is noticed: while the process serves, the key has at least the
\* time left that the last answered renewal gave it, and once it is gone the
\* heartbeat comes nearer with every tick.
NoticeInv ==
    /\ phase # "serving" => lost = 0
    /\ phase = "serving" =>
          /\ beat <= Interval
          /\ ttl >= TTL - since
          /\ lost > 0 => ttl = 0 /\ lost + beat <= Interval

\* Why a slot outlives its stream: how long it can have been held in each state
\* of the generator.
SlotInv ==
    StreamBudget < Stale =>
        /\ InProgress => slot = "held"
        /\ stream.state = "connect" => held <= stream.age /\ stream.age <= MaxConnect
        /\ Connected /\ stream.state # "end" /\ stream.age <= MaxDuration =>
              held <= MaxConnect + stream.age
        /\ stream.state = "check" => held <= MaxConnect + MaxDuration + Idle + ClientLag
        /\ stream.state = "wait" =>
              stream.quiet <= Idle /\ held <= MaxConnect + MaxDuration + stream.quiet
        /\ stream.state = "yield" =>
              /\ stream.quiet <= ClientLag
              /\ held <= MaxConnect + MaxDuration + Idle + stream.quiet
        /\ stream.state = "end" =>
              /\ stream.quiet <= ClientLag
              /\ held <= MaxConnect + MaxDuration + Idle + ClientLag + stream.quiet

\* Why the drain suffices: no request is left to start a finalizer, and a
\* finalizer is at least as old as the drain.
DrainInv ==
    /\ phase \in {"draining", "releasing", "closed"} => Unattended
    /\ phase = "draining" /\ Finalizing => stream.age >= drain
    /\ phase \in {"releasing", "closed"} /\ Finalizing => stream.age >= DrainTimeout

\* Why what is told is counted: a chunk that bears usage is counted before it is
\* yielded.
CountInv ==
    /\ stream.told => stream.counted
    /\ stream.bears => stream.counted

-----------------------------------------------------------------------------
(* Types.                                                                  *)

LEMMA InitTyped == Init => Typed
<1> SUFFICES ASSUME Init PROVE Typed
  OBVIOUS
<1> USE ReplicaAssumption DEF Init
<1>1. LeaseTypes
  BY SMTT(30) DEF LeaseTypes, WorkerIds
<1>2. StreamTypes
  BY DEF StreamTypes, StreamRecord, StreamStates, NoStream
<1>3. GenTypes
  BY DEF GenTypes, NewGenerator
<1> QED BY <1>1, <1>2, <1>3 DEF Typed

\* Renewals and fencing keep the lease typed.
LEMMA HeartbeatLease == LeaseTypes /\ (Renew \/ RenewRaises) => LeaseTypes'
<1> SUFFICES ASSUME LeaseTypes, Renew \/ RenewRaises PROVE LeaseTypes'
  OBVIOUS
<1> USE ReplicaAssumption
<1>1. CASE Renew
  BY <1>1 DEF LeaseTypes, Renew, Fence, Beating
<1>2. CASE RenewRaises
  BY <1>2 DEF LeaseTypes, RenewRaises, Fence, Beating
<1> QED BY <1>1, <1>2

\* Time keeps the lease typed.
LEMMA TickLease == LeaseTypes /\ Tick => LeaseTypes'
<1> SUFFICES ASSUME LeaseTypes, Tick PROVE LeaseTypes'
  OBVIOUS
<1> USE ReplicaAssumption
<1>1. ttl' \in 0..TTL /\ (ttl' > 0 <=> ttl > 1)
  BY DEF LeaseTypes, Tick
<1>2. holder' \in [WorkerIds -> {"none", "me", "other"}]
  BY DEF LeaseTypes, Tick
<1>3. \A n \in WorkerIds : holder'[n] = "me" <=> n = at' /\ ttl' > 0
  BY <1>1 DEF LeaseTypes, Tick
<1>4. beat' \in (-MaxLag)..(Interval + 1)
  BY DEF LeaseTypes, Tick, MayPass, Beating
<1>5. since' \in 0..TTL /\ lost' \in 0..(Interval + MaxLag + 1)
  BY DEF LeaseTypes, Tick, Min
<1>6. drain' \in 0..DrainTimeout
  BY DEF LeaseTypes, Tick, MayPass
<1>7. phase' = phase /\ at' = at
  BY DEF Tick
<1>8. phase' \in {"down", "walk", "closed"} => ttl' = 0
  BY <1>7 DEF LeaseTypes, Tick
<1> QED BY <1>1, <1>2, <1>3, <1>4, <1>5, <1>6, <1>7, <1>8 DEF LeaseTypes

\* So does a claim that finds its id free, and one that does not.
LEMMA ClaimLease == LeaseTypes /\ (TryClaim \/ TryClaimRaises) => LeaseTypes'
<1> SUFFICES ASSUME LeaseTypes, TryClaim \/ TryClaimRaises PROVE LeaseTypes'
  OBVIOUS
<1> USE ReplicaAssumption
<1>1. ttl = 0 /\ \A n \in WorkerIds : holder[n] # "me"
  BY DEF LeaseTypes, TryClaim, TryClaimRaises
<1>2. CASE TryClaim /\ holder[at] = "none"
  <2>1. /\ holder' \in [WorkerIds -> {"none", "me", "other"}]
        /\ \A n \in WorkerIds : holder'[n] = "me" <=> n = at
    BY <1>1, <1>2 DEF LeaseTypes, TryClaim
  <2> QED BY <1>2, <2>1 DEF LeaseTypes, TryClaim
<1>3. CASE TryClaim /\ holder[at] # "none"
  <2>1. at' \in WorkerIds
    <3>1. at' = IF at + 1 \in WorkerIds THEN at + 1 ELSE 0
      BY <1>3 DEF TryClaim
    <3>2. 0 \in WorkerIds
      BY DEF WorkerIds
    <3> QED BY <3>1, <3>2
  <2> QED BY <1>1, <1>3, <2>1 DEF LeaseTypes, TryClaim
<1>4. CASE TryClaimRaises
  <2>1. /\ holder' \in [WorkerIds -> {"none", "me", "other"}]
        /\ \A n \in WorkerIds : holder'[n] # "me"
    BY <1>1, <1>4 DEF LeaseTypes, TryClaimRaises
  <2>2. 0 \in WorkerIds
    BY DEF WorkerIds
  <2> QED BY <1>1, <1>4, <2>1, <2>2 DEF LeaseTypes, TryClaimRaises
<1> QED BY <1>2, <1>3, <1>4

\* Every step keeps the lease typed.
LEMMA NextLease == LeaseTypes /\ [Next]_vars => LeaseTypes'
<1> SUFFICES ASSUME LeaseTypes, [Next]_vars PROVE LeaseTypes'
  OBVIOUS
<1> USE ReplicaAssumption
<1>1. CASE UNCHANGED lease
  BY <1>1 DEF LeaseTypes, lease
<1>2. CASE Boot
  BY <1>2 DEF LeaseTypes, Boot, WorkerIds
<1>3. CASE TryClaim \/ TryClaimRaises
  BY <1>3, ClaimLease
<1>5. ASSUME NEW n \in WorkerIds, OtherReplica(n) PROVE LeaseTypes'
  BY <1>5 DEF LeaseTypes, OtherReplica
<1>6. CASE Renew \/ RenewRaises
  BY <1>6, HeartbeatLease
<1>7. CASE Terminate
  BY <1>7 DEF LeaseTypes, Terminate
<1>8. CASE LeaveLifespan
  BY <1>8 DEF LeaseTypes, LeaveLifespan
<1>9. CASE DrainFinalizers
  BY <1>9 DEF LeaseTypes, DrainFinalizers
<1>10. CASE Release
  BY <1>10 DEF LeaseTypes, Release
<1>11. CASE Exit
  BY <1>11 DEF LeaseTypes, Exit, WorkerIds
<1>12. CASE Crash
  BY <1>12, SMTT(30) DEF LeaseTypes, Crash, WorkerIds
<1>13. CASE Tick
  BY <1>13, TickLease
<1>14. Next => \/ UNCHANGED lease \/ Boot \/ TryClaim \/ TryClaimRaises
               \/ \E n \in WorkerIds : OtherReplica(n)
               \/ Renew \/ RenewRaises \/ Terminate \/ LeaveLifespan \/ DrainFinalizers
               \/ Release \/ Exit \/ Crash \/ Tick
  BY DEF Next, Mint, Connect, StreamStep, StartStream, Relay, CheckDuration, ClientTakes,
         EndOfAnswer, Chunk, EndStream, UpstreamRaises, ConnectRaises, Disconnect,
         ReleaseSlot, Settle, EvictStale, Shutdown, UnchangedByStream
<1>15. UNCHANGED vars => UNCHANGED lease
  BY DEF vars
<1> QED BY <1>1, <1>2, <1>3, <1>5, <1>6, <1>7, <1>8, <1>9, <1>10, <1>11, <1>12,
           <1>13, <1>14, <1>15

\* What is left of a stream when it has ended.
LEMMA FinalizerType ==
    ASSUME StreamTypes, NEW a \in BOOLEAN
    PROVE  /\ Finalizer(a) \in StreamRecord
           /\ Finalizer(a).state = "release"
           /\ Finalizer(a).age = 0
           /\ Finalizer(a).bears = FALSE
           /\ Finalizer(a).attached = a
           /\ Finalizer(a).counted = stream.counted
           /\ Finalizer(a).told = stream.told
<1>1. stream.counted \in BOOLEAN /\ stream.told \in BOOLEAN
  BY DEF StreamTypes, StreamRecord
<1> QED BY <1>1 DEF Finalizer, NoStream, StreamRecord, StreamStates

\* A cancelled stream leaves a finalizer nobody waits for; a finalizer loses the
\* request that waited.
LEMMA DisconnectStream ==
    ASSUME StreamTypes, Disconnect
    PROVE  /\ stream' \in StreamRecord
           /\ stream'.state \in {"release", "settle"}
           /\ stream'.attached = FALSE
           /\ stream'.counted = stream.counted
           /\ stream'.told => stream.told \/ stream.bears
           /\ stream'.bears => stream.bears
           /\ Connected \/ (Finalizing /\ stream'.state = stream.state /\ stream'.age = stream.age)
<1>1. CASE Connected
  <2>1. PICK b \in {FALSE, stream.state = "yield" /\ stream.bears} :
            stream' = [Finalizer(FALSE) EXCEPT !.told = @ \/ b]
    BY <1>1 DEF Disconnect
  <2>2. b \in BOOLEAN
    BY <2>1 DEF StreamTypes, StreamRecord
  <2>3. b => stream.bears
    BY <2>1
  <2> QED BY <1>1, <2>1, <2>2, <2>3, FinalizerType DEF StreamRecord, StreamStates
<1>2. CASE ~Connected
  <2>1. stream' = [stream EXCEPT !.attached = FALSE] /\ Finalizing
    BY <1>2 DEF Disconnect
  <2> QED BY <2>1 DEF StreamTypes, StreamRecord, Finalizing
<1> QED BY <1>1, <1>2

\* Every step of the generator's loop keeps the stream typed.
LEMMA RelayStream == StreamTypes /\ Relay => StreamTypes'
<1> SUFFICES ASSUME StreamTypes, Relay PROVE StreamTypes'
  OBVIOUS
<1>1. CASE CheckDuration
  BY <1>1 DEF StreamTypes, StreamRecord, StreamStates, CheckDuration
<1>2. CASE ClientTakes
  BY <1>2 DEF StreamTypes, StreamRecord, StreamStates, ClientTakes
<1>3. CASE EndOfAnswer
  BY <1>3 DEF StreamTypes, StreamRecord, StreamStates, EndOfAnswer
<1>4. ASSUME NEW kind \in {"plain", "half", "rest", "usage"}, Chunk(kind) PROVE StreamTypes'
  <2> DEFINE half == kind = "half"
             whole == kind \in {"usage", "rest"}
  <2>1. stream' = [stream EXCEPT !.state = "yield", !.quiet = 0, !.part = half,
                                 !.bears = whole, !.counted = @ \/ whole]
    BY <1>4 DEF Chunk
  <2>2. half \in BOOLEAN /\ whole \in BOOLEAN
    OBVIOUS
  <2>3. (stream.counted \/ whole) \in BOOLEAN
    OBVIOUS
  <2> HIDE DEF half, whole
  <2>4. stream' \in StreamRecord
    BY <2>1, <2>2, <2>3 DEF StreamTypes, StreamRecord, StreamStates
  <2> QED BY <1>4, <2>4 DEF StreamTypes, Chunk
<1> QED BY <1>1, <1>2, <1>3, <1>4 DEF Relay

\* Time keeps the stream typed.
LEMMA TickStream == StreamTypes /\ Tick => StreamTypes'
<1> SUFFICES ASSUME StreamTypes, Tick PROVE StreamTypes'
  OBVIOUS
<1> USE ReplicaAssumption
<1>1. stream' \in StreamRecord
  <2> DEFINE cap == IF Finalizing THEN DrainTimeout ELSE MaxDuration + MaxConnect + 1
             a == IF stream.state = "none" THEN 0 ELSE Min(stream.age + 1, cap)
             q == IF stream.state \in {"wait", "yield", "end"} THEN stream.quiet + 1
                  ELSE stream.quiet
  <2>1. a \in Nat /\ q \in Nat
    BY DEF StreamTypes, StreamRecord, Min
  <2>2. stream' = [stream EXCEPT !.age = a, !.quiet = q]
    BY DEF Tick, StreamTypes, StreamRecord
  <2> HIDE DEF a, q
  <2> QED BY <2>1, <2>2 DEF StreamTypes, StreamRecord
<1>2. held' \in 0..Stale /\ slot' = slot
  BY DEF StreamTypes, Tick, Min
<1> QED BY <1>1, <1>2 DEF StreamTypes

\* Every step keeps the stream typed.
LEMMA NextStream == StreamTypes /\ [Next]_vars => StreamTypes'
<1> SUFFICES ASSUME StreamTypes, [Next]_vars PROVE StreamTypes'
  OBVIOUS
<1> USE ReplicaAssumption
<1>1. CASE UNCHANGED <<stream, slot, held>>
  BY <1>1 DEF StreamTypes
<1>2. CASE Connect
  <2>1. stream' \in StreamRecord
    BY <1>2 DEF StreamRecord, StreamStates, Connect, NoStream
  <2> QED BY <1>2, <2>1 DEF StreamTypes, Connect
<1>3. CASE StartStream
  BY <1>3 DEF StreamTypes, StreamRecord, StreamStates, StartStream
<1>4. CASE Relay
  BY <1>4, RelayStream
<1>5. CASE EndStream
  BY <1>5, FinalizerType DEF StreamTypes, EndStream
<1>6. CASE UpstreamRaises
  BY <1>6, FinalizerType DEF StreamTypes, UpstreamRaises
<1>7. CASE ConnectRaises
  BY <1>7 DEF StreamTypes, StreamRecord, StreamStates, ConnectRaises
<1>8. CASE Disconnect
  BY <1>8, DisconnectStream DEF StreamTypes, Disconnect
<1>9. CASE ReleaseSlot
  BY <1>9 DEF StreamTypes, StreamRecord, StreamStates, ReleaseSlot
<1>10. CASE Settle
  BY <1>10 DEF StreamTypes, StreamRecord, StreamStates, Settle, NoStream
<1>11. CASE EvictStale
  BY <1>11 DEF StreamTypes, EvictStale
<1>12. CASE Exit
  BY <1>12 DEF StreamTypes, StreamRecord, StreamStates, Exit, NoStream
<1>13. CASE Crash
  BY <1>13 DEF StreamTypes, StreamRecord, StreamStates, Crash, NoStream
<1>14. CASE Tick
  BY <1>14, TickStream
<1>15. Next => \/ UNCHANGED <<stream, slot, held>> \/ Connect \/ StartStream \/ Relay
               \/ EndStream \/ UpstreamRaises \/ ConnectRaises \/ Disconnect
               \/ ReleaseSlot \/ Settle \/ EvictStale \/ Exit \/ Crash \/ Tick
  BY DEF Next, Boot, TryClaim, TryClaimRaises, OtherReplica, Renew, RenewRaises, Mint,
         StreamStep, Terminate, Shutdown, LeaveLifespan, DrainFinalizers, Release
<1>16. UNCHANGED vars => UNCHANGED <<stream, slot, held>>
  BY DEF vars
<1> QED BY <1>1, <1>2, <1>3, <1>4, <1>5, <1>6, <1>7, <1>8, <1>9, <1>10, <1>11, <1>12,
           <1>13, <1>14, <1>15, <1>16

-----------------------------------------------------------------------------
(* Snowflake ids.                                                          *)

\* An id is larger than the one before.
Grows == \/ gen'.last > gen.last
         \/ gen'.last = gen.last /\ gen'.seq > gen.seq

\* The sequence goes on by one or, exhausted, to zero.
LEMMA SequenceStep ==
    ASSUME NEW n \in 0..MaxSequence
    PROVE  \/ n < MaxSequence /\ (n + 1) % (MaxSequence + 1) = n + 1
           \/ n = MaxSequence /\ (n + 1) % (MaxSequence + 1) = 0
  BY ReplicaAssumption

\* An id that is minted is larger than the last one.
LEMMA NextIdGrows ==
    ASSUME GenTypes, NEW now \in Clock, NEW later \in Clock, NextId(now, later)
    PROVE  GenTypes' /\ Grows
<1> DEFINE t == IF now < gen.last THEN later ELSE now
           s == IF t = gen.last THEN (gen.seq + 1) % (MaxSequence + 1) ELSE 0
           exhausted == t = gen.last /\ s = 0
<1>1. gen.last \in Clock \cup {-1} /\ gen.seq \in 0..MaxSequence
  BY DEF GenTypes
<1>2. gen.last \in Int /\ now \in Int /\ later \in Int
  <2>1. \A c \in Clock : c \in Nat
    BY ReplicaAssumption, Zenon
  <2> QED BY <1>1, <2>1
<1>3. now < gen.last => later >= gen.last
  BY DEF NextId
<1>4. t \in Clock /\ t \in Int /\ t >= gen.last
  BY <1>2, <1>3
<1>5. t = gen.last => s \in 0..MaxSequence /\ (s = 0 \/ s > gen.seq)
  BY <1>1, SequenceStep, ReplicaAssumption
<1>6. t # gen.last => s = 0
  OBVIOUS
<1>7. exhausted => later > gen.last
  BY DEF NextId
<1>8. gen' = [last |-> IF exhausted THEN later ELSE t, seq |-> s]
  BY DEF NextId
<1>9. s \in 0..MaxSequence
  BY <1>5, <1>6, ReplicaAssumption
<1> HIDE DEF t, s
<1>10. GenTypes'
  BY <1>4, <1>9, <1>8 DEF GenTypes
<1>11. gen'.last = (IF exhausted THEN later ELSE t) /\ gen'.seq = s
  BY <1>8
<1>12. CASE exhausted
  <2>1. gen'.last = later
    BY <1>11, <1>12
  <2> QED BY <1>7, <1>10, <1>12, <2>1 DEF Grows
<1>13. CASE t = gen.last /\ s # 0
  <2>1. gen'.last = gen.last
    BY <1>11, <1>13
  <2> QED BY <1>5, <1>10, <1>11, <1>13, <2>1 DEF Grows
<1>14. CASE t # gen.last
  <2>1. gen'.last = t
    BY <1>11, <1>14
  <2> QED BY <1>2, <1>4, <1>10, <1>14, <2>1 DEF Grows
<1> QED BY <1>12, <1>13, <1>14

\* Every step keeps the generator typed, and leaves it, makes a larger id, or
\* ends the process.
LEMMA NextGen ==
    ASSUME GenTypes, [Next]_vars
    PROVE  /\ GenTypes'
           /\ gen' = gen \/ Grows \/ (gen' = NewGenerator /\ phase' = "down")
<1>1. CASE gen' = gen
  BY <1>1 DEF GenTypes
<1>2. CASE Mint
  <2>1. PICK now, later \in Clock : NextId(now, later)
    BY <1>2 DEF Mint
  <2> QED BY <2>1, NextIdGrows
<1>3. CASE Exit \/ Crash
  BY <1>3, ReplicaAssumption DEF GenTypes, NewGenerator, Exit, Crash
<1>4. Next => gen' = gen \/ Mint \/ Exit \/ Crash
  BY DEF Next, Boot, TryClaim, TryClaimRaises, OtherReplica, Renew, RenewRaises,
         Connect, StreamStep, StartStream, Relay, CheckDuration, ClientTakes,
         EndOfAnswer, Chunk, EndStream, UpstreamRaises, ConnectRaises, Disconnect,
         ReleaseSlot, Settle, EvictStale, Terminate, Shutdown, LeaveLifespan,
         DrainFinalizers, Release, Tick, UnchangedByStream
<1>5. UNCHANGED vars => gen' = gen
  BY DEF vars
<1> QED BY <1>1, <1>2, <1>3, <1>4, <1>5

\* Every step keeps the inductive form of the types.
LEMMA NextTyped == Typed /\ [Next]_vars => Typed'
  BY NextLease, NextStream, NextGen DEF Typed

\* Every reachable state is well typed, and the lease key of the process is
\* there exactly while its TTL runs, through claims, renewals that may or may
\* not have happened, crashes and restarts.
THEOREM TypeCorrect == Spec => []TypeOK
<1>1. Typed => TypeOK
  BY DEF Typed, LeaseTypes, StreamTypes, StreamRecord, StreamStates, GenTypes, TypeOK
<1> QED BY <1>1, InitTyped, NextTyped, PTL DEF Spec

\* next_id never repeats an id or goes back, whatever the clock does.
THEOREM SnowflakesGrow == Spec => IdsGrow
<1>1. GenTypes /\ [Next]_vars =>
        [gen' # gen => \/ gen' = NewGenerator /\ phase' = "down"
                       \/ gen'.last > gen.last
                       \/ gen'.last = gen.last /\ gen'.seq > gen.seq]_vars
  BY NextGen DEF Grows
<1>2. Typed => GenTypes
  BY DEF Typed
<1> QED BY <1>1, <1>2, InitTyped, NextTyped, PTL DEF Spec, IdsGrow

-----------------------------------------------------------------------------
(* The lease.                                                              *)

\* Time brings a lost key one tick nearer to its notice.
LEMMA TickNotices == LeaseTypes /\ NoticeInv /\ Tick => NoticeInv'
<1> SUFFICES ASSUME LeaseTypes, NoticeInv, Tick PROVE NoticeInv'
  OBVIOUS
<1> USE ReplicaAssumption
<1>1. phase' = phase
  BY DEF Tick
<1>2. CASE phase # "serving"
  BY <1>1, <1>2 DEF NoticeInv, Tick
<1>3. CASE phase = "serving"
  <2>1. beat' = beat - 1 /\ since' = Min(since + 1, TTL) /\ beat <= Interval
    BY <1>3 DEF NoticeInv, Tick, Beating
  <2>2. ttl' = IF ttl > 0 THEN ttl - 1 ELSE 0
    BY DEF Tick
  <2>3. lost' = IF ttl <= 1 THEN Min(lost + 1, Interval + MaxLag + 1) ELSE 0
    BY <1>3 DEF Tick
  <2>4. ttl' >= TTL - since'
    BY <1>3, <2>1, <2>2 DEF LeaseTypes, NoticeInv, Min
  <2>5. lost' > 0 => ttl' = 0 /\ lost' + beat' <= Interval
    BY <1>3, <2>1, <2>2, <2>3 DEF LeaseTypes, NoticeInv, Min
  <2> QED BY <1>1, <1>3, <2>1, <2>4, <2>5 DEF NoticeInv, LeaseTypes
<1> QED BY <1>2, <1>3

LEMMA NextNotices == LeaseTypes /\ NoticeInv /\ [Next]_vars => NoticeInv'
<1> SUFFICES ASSUME LeaseTypes, NoticeInv, [Next]_vars PROVE NoticeInv'
  OBVIOUS
<1> USE ReplicaAssumption
<1>1. CASE UNCHANGED <<phase, ttl, beat, since, lost>>
  BY <1>1 DEF NoticeInv
<1>2. CASE Boot \/ TryClaim \/ TryClaimRaises
  BY <1>2 DEF LeaseTypes, NoticeInv, Boot, TryClaim, TryClaimRaises
<1>3. CASE Renew
  BY <1>3 DEF LeaseTypes, NoticeInv, Renew, Fence
<1>4. CASE RenewRaises
  BY <1>4 DEF LeaseTypes, NoticeInv, RenewRaises, Fence
<1>5. CASE Terminate \/ Shutdown \/ Crash
  BY <1>5 DEF NoticeInv, Terminate, Shutdown, LeaveLifespan, DrainFinalizers, Release,
              Exit, Crash
<1>6. CASE Tick
  BY <1>6, TickNotices
<1>7. Next => \/ UNCHANGED <<phase, ttl, beat, since, lost>>
              \/ Boot \/ TryClaim \/ TryClaimRaises \/ Renew \/ RenewRaises
              \/ Terminate \/ Shutdown \/ Crash \/ Tick
  BY DEF Next, OtherReplica, Mint, Connect, StreamStep, StartStream, Relay, CheckDuration,
         ClientTakes, EndOfAnswer, Chunk, EndStream, UpstreamRaises, ConnectRaises,
         Disconnect, ReleaseSlot, Settle, EvictStale, UnchangedByStream, lease
<1>8. UNCHANGED vars => UNCHANGED <<phase, ttl, beat, since, lost>>
  BY DEF vars, lease
<1> QED BY <1>1, <1>2, <1>3, <1>4, <1>5, <1>6, <1>7, <1>8

\* A replica that lost its lease stops serving within one heartbeat interval and
\* the heartbeat's lag, also when Redis never answers.
THEOREM LossesAreNoticed == Spec => []LossIsNoticed
<1>1. Init => NoticeInv
  BY DEF Init, NoticeInv
<1>2. Typed => LeaseTypes
  BY DEF Typed
<1>3. LeaseTypes /\ NoticeInv => LossIsNoticed
  BY ReplicaAssumption DEF LeaseTypes, NoticeInv, LossIsNoticed
<1> QED BY <1>1, <1>2, <1>3, InitTyped, NextTyped, NextNotices, PTL DEF Spec

-----------------------------------------------------------------------------
(* The stream and its slot.                                                *)

\* Time: what was waited for is done before it takes longer than allowed.
LEMMA TickSlot == StreamTypes /\ SlotInv /\ Tick => SlotInv'
<1> SUFFICES ASSUME StreamTypes, SlotInv, Tick, StreamBudget < Stale
             PROVE  SlotInv'
  BY DEF SlotInv, StreamBudget
<1> USE ReplicaAssumption
<1>1. stream.state \in StreamStates /\ stream.age \in Nat /\ stream.quiet \in Nat
  BY DEF StreamTypes, StreamRecord
<1>2. stream'.state = stream.state /\ slot' = slot
  BY DEF Tick, StreamTypes, StreamRecord
<1>3. InProgress => stream'.age = Min(stream.age + 1, MaxDuration + MaxConnect + 1)
  BY <1>1 DEF Tick, StreamTypes, StreamRecord, InProgress, Connected, Finalizing
<1>4. stream'.quiet = IF stream.state \in {"wait", "yield", "end"} THEN stream.quiet + 1
                      ELSE stream.quiet
  BY DEF Tick, StreamTypes, StreamRecord
<1>5. InProgress => held' <= held + 1
  BY DEF Tick, SlotInv, StreamTypes, Min
<1>6. held \in Nat /\ held' \in Nat
  BY DEF StreamTypes, Tick, Min
<1>7. CASE stream.state = "connect"
  BY <1>1, <1>2, <1>3, <1>5, <1>6, <1>7
     DEF SlotInv, Tick, MayPass, InProgress, Connected, Min
<1>8. CASE stream.state = "wait"
  BY <1>1, <1>2, <1>3, <1>4, <1>5, <1>6, <1>8
     DEF SlotInv, Tick, MayPass, InProgress, Connected, Min
<1>9. CASE stream.state \in {"yield", "end"}
  BY <1>1, <1>2, <1>3, <1>4, <1>5, <1>6, <1>9
     DEF SlotInv, Tick, MayPass, InProgress, Connected, Min
<1>10. CASE stream.state \in {"none", "release", "settle"}
  BY <1>2, <1>10 DEF SlotInv, InProgress, Connected
<1>11. stream.state # "check"
  BY DEF Tick, MayPass
<1> QED BY <1>1, <1>7, <1>8, <1>9, <1>10, <1>11 DEF StreamStates

\* A step of the generator's loop takes no time.
LEMMA RelaySlot == StreamTypes /\ SlotInv /\ Relay => SlotInv'
<1> SUFFICES ASSUME StreamTypes, SlotInv, Relay, StreamBudget < Stale
             PROVE  SlotInv'
  BY DEF SlotInv, StreamBudget
<1> USE ReplicaAssumption
<1>1. stream.age \in Nat /\ stream.quiet \in Nat /\ held \in Nat
  BY DEF StreamTypes, StreamRecord
<1>2. CASE CheckDuration
  <2>1. /\ stream'.age = stream.age /\ stream'.quiet = 0
        /\ stream'.state = IF stream.age > MaxDuration THEN "end" ELSE "wait"
        /\ UNCHANGED <<slot, held>>
    BY <1>2 DEF CheckDuration, StreamTypes, StreamRecord
  <2> QED BY <1>1, <1>2, <2>1 DEF SlotInv, CheckDuration, InProgress, Connected
<1>3. CASE ClientTakes
  <2>1. /\ stream'.age = stream.age /\ stream'.state = "check"
        /\ UNCHANGED <<slot, held>>
    BY <1>3 DEF ClientTakes, StreamTypes, StreamRecord
  <2> QED BY <1>1, <1>3, <2>1 DEF SlotInv, ClientTakes, InProgress, Connected
<1>4. CASE EndOfAnswer
  <2>1. /\ stream'.age = stream.age /\ stream'.state = "end" /\ stream'.quiet = 0
        /\ UNCHANGED <<slot, held>>
    BY <1>4 DEF EndOfAnswer, StreamTypes, StreamRecord
  <2> QED BY <1>1, <1>4, <2>1 DEF SlotInv, EndOfAnswer, InProgress, Connected
<1>5. ASSUME NEW kind \in {"plain", "half", "rest", "usage"}, Chunk(kind) PROVE SlotInv'
  <2>1. /\ stream'.age = stream.age /\ stream'.state = "yield" /\ stream'.quiet = 0
        /\ UNCHANGED <<slot, held>>
    BY <1>5 DEF Chunk, StreamTypes, StreamRecord
  <2> QED BY <1>1, <1>5, <2>1 DEF SlotInv, Chunk, InProgress, Connected
<1> QED BY <1>2, <1>3, <1>4, <1>5 DEF Relay

LEMMA NextSlot == StreamTypes /\ SlotInv /\ [Next]_vars => SlotInv'
<1> SUFFICES ASSUME StreamTypes, SlotInv, [Next]_vars, StreamBudget < Stale
             PROVE  SlotInv'
  BY DEF SlotInv, StreamBudget
<1> USE ReplicaAssumption
<1>1. CASE UNCHANGED <<stream, slot, held>>
  BY <1>1 DEF SlotInv, InProgress, Connected
<1>2. CASE Connect
  <2>1. /\ stream'.state = "connect" /\ stream'.age = 0
        /\ slot' = "held" /\ held' = 0
    BY <1>2 DEF Connect, NoStream
  <2> QED BY <2>1 DEF SlotInv, InProgress, Connected
<1>3. CASE StartStream
  <2>1. /\ stream'.state = "check" /\ stream'.age = 0
        /\ UNCHANGED <<slot, held>>
    BY <1>3 DEF StartStream, StreamTypes, StreamRecord
  <2>2. stream.state = "connect" /\ held \in Nat /\ stream.age \in Nat
    BY <1>3 DEF StartStream, StreamTypes, StreamRecord
  <2> QED BY <2>1, <2>2 DEF SlotInv, InProgress, Connected
<1>4. CASE Relay
  BY <1>4, RelaySlot
<1>5. CASE EndStream \/ UpstreamRaises \/ Disconnect \/ ConnectRaises \/ ReleaseSlot
           \/ Settle \/ Exit \/ Crash
  <2>1. stream'.state \in {"release", "settle", "none"}
    <3>1. CASE EndStream \/ UpstreamRaises
      BY <3>1, FinalizerType DEF EndStream, UpstreamRaises
    <3>2. CASE Disconnect
      BY <3>2, DisconnectStream
    <3>3. CASE ConnectRaises \/ ReleaseSlot
      BY <3>3 DEF ConnectRaises, ReleaseSlot, StreamTypes, StreamRecord
    <3>4. CASE Settle \/ Exit \/ Crash
      BY <3>4 DEF Settle, Exit, Crash, NoStream
    <3> QED BY <1>5, <3>1, <3>2, <3>3, <3>4
  <2> QED BY <2>1 DEF SlotInv, InProgress, Connected
<1>6. CASE EvictStale
  <2>1. ~InProgress
    BY <1>6 DEF EvictStale, SlotInv, StreamTypes, StreamRecord, StreamBudget, InProgress,
                Connected
  <2>2. stream' = stream
    BY <1>6 DEF EvictStale
  <2> QED BY <2>1, <2>2 DEF SlotInv, InProgress, Connected
<1>7. CASE Tick
  BY <1>7, TickSlot
<1>8. Next => \/ UNCHANGED <<stream, slot, held>> \/ Connect \/ StartStream \/ Relay
              \/ EndStream \/ UpstreamRaises \/ ConnectRaises \/ Disconnect
              \/ ReleaseSlot \/ Settle \/ EvictStale \/ Exit \/ Crash \/ Tick
  BY DEF Next, Boot, TryClaim, TryClaimRaises, OtherReplica, Renew, RenewRaises, Mint,
         StreamStep, Terminate, Shutdown, LeaveLifespan, DrainFinalizers, Release
<1>9. UNCHANGED vars => UNCHANGED <<stream, slot, held>>
  BY DEF vars
<1> QED BY <1>1, <1>2, <1>3, <1>4, <1>5, <1>6, <1>7, <1>8, <1>9

\* A slot is never dropped as stale while its stream runs, for all timeouts whose
\* sum over the longest stream is below the stale timeout.
THEOREM SlotsOutliveStreams == Spec => []SlotOutlivesStream
<1>1. Init => SlotInv
  BY DEF Init, SlotInv, NoStream, InProgress, Connected
<1>2. Typed => StreamTypes
  BY DEF Typed
<1>3. StreamTypes /\ SlotInv => SlotOutlivesStream
  BY ReplicaAssumption
     DEF StreamTypes, StreamRecord, SlotInv, SlotOutlivesStream, InProgress, Connected,
         StreamBudget
<1> QED BY <1>1, <1>2, <1>3, InitTyped, NextTyped, NextSlot, PTL DEF Spec

-----------------------------------------------------------------------------
(* Usage and the drain.                                                    *)

LEMMA NextCount == StreamTypes /\ CountInv /\ [Next]_vars => CountInv'
<1> SUFFICES ASSUME StreamTypes, CountInv, [Next]_vars PROVE CountInv'
  OBVIOUS
<1>1. CASE UNCHANGED stream
  BY <1>1 DEF CountInv
<1>2. CASE Connect \/ Settle \/ Exit \/ Crash
  <2>1. stream'.told = FALSE /\ stream'.bears = FALSE
    <3>1. CASE Connect
      BY <3>1 DEF Connect, NoStream
    <3>2. CASE Settle \/ Exit \/ Crash
      BY <3>2 DEF Settle, Exit, Crash, NoStream
    <3> QED BY <1>2, <3>1, <3>2
  <2> QED BY <2>1 DEF CountInv
<1>3. CASE StartStream \/ CheckDuration \/ EndOfAnswer \/ ConnectRaises \/ ReleaseSlot \/ Tick
  <2>1. /\ stream'.told = stream.told /\ stream'.bears = stream.bears
        /\ stream'.counted = stream.counted
    BY <1>3 DEF StartStream, CheckDuration, EndOfAnswer, ConnectRaises, ReleaseSlot, Tick,
                StreamTypes, StreamRecord
  <2> QED BY <2>1 DEF CountInv
<1>4. ASSUME NEW kind \in {"plain", "half", "rest", "usage"}, Chunk(kind) PROVE CountInv'
  <2>1. /\ stream'.told = stream.told
        /\ stream'.bears = (kind \in {"usage", "rest"})
        /\ stream'.counted = (stream.counted \/ kind \in {"usage", "rest"})
    BY <1>4 DEF Chunk, StreamTypes, StreamRecord
  <2> QED BY <2>1 DEF CountInv
<1>5. CASE ClientTakes
  <2>1. /\ stream'.told = (stream.told \/ stream.bears)
        /\ stream'.bears = FALSE
        /\ stream'.counted = stream.counted
    BY <1>5 DEF ClientTakes, StreamTypes, StreamRecord
  <2> QED BY <2>1 DEF CountInv
<1>6. CASE EndStream \/ UpstreamRaises
  <2>1. stream' = Finalizer(TRUE)
    BY <1>6 DEF EndStream, UpstreamRaises
  <2> QED BY <2>1, FinalizerType DEF CountInv
<1>7. CASE Disconnect
  BY <1>7, DisconnectStream DEF CountInv
<1>8. Next => \/ UNCHANGED stream \/ Connect \/ Settle \/ Exit \/ Crash \/ StartStream
              \/ CheckDuration \/ EndOfAnswer \/ ConnectRaises \/ ReleaseSlot \/ Tick
              \/ (\E kind \in {"plain", "half", "rest", "usage"} : Chunk(kind))
              \/ ClientTakes \/ EndStream \/ UpstreamRaises \/ Disconnect
  BY DEF Next, Boot, TryClaim, TryClaimRaises, OtherReplica, Renew, RenewRaises, Mint,
         StreamStep, Relay, EvictStale, Terminate, Shutdown, LeaveLifespan,
         DrainFinalizers, Release
<1>9. UNCHANGED vars => UNCHANGED stream
  BY DEF vars
<1> QED BY <1>1, <1>2, <1>3, <1>4, <1>5, <1>6, <1>7, <1>8, <1>9

\* Usage that reached the client is counted, wherever the stream is cut and
\* whenever the client leaves.
THEOREM ToldUsageIsCounted == Spec => []ToldIsCounted
<1>1. Init => CountInv
  BY DEF Init, CountInv, NoStream
<1>2. Typed => StreamTypes
  BY DEF Typed
<1>3. CountInv => ToldIsCounted
  BY DEF CountInv, ToldIsCounted
<1> QED BY <1>1, <1>2, <1>3, InitTyped, NextTyped, NextCount, PTL DEF Spec

\* A finalizer grows older with the drain, until the drain gives up.
LEMMA TickDrains == LeaseTypes /\ StreamTypes /\ DrainInv /\ Tick => DrainInv'
<1> SUFFICES ASSUME LeaseTypes, StreamTypes, DrainInv, Tick PROVE DrainInv'
  OBVIOUS
<1> USE ReplicaAssumption
<1>1. /\ phase' = phase /\ phase \notin {"releasing", "closed"}
      /\ stream'.state = stream.state /\ stream'.attached = stream.attached
  BY DEF Tick, MayPass, StreamTypes, StreamRecord
<1>2. Finalizing => stream'.age = Min(stream.age + 1, DrainTimeout)
  BY DEF Tick, StreamTypes, StreamRecord, Finalizing
<1>3. phase = "draining" => drain' = drain + 1 /\ drain < DrainTimeout
  BY DEF Tick, MayPass
<1>4. stream.age \in Nat /\ drain \in Nat
  BY DEF StreamTypes, StreamRecord, LeaseTypes
<1>5. phase' = "draining" /\ Finalizing' => stream'.age >= drain'
  BY <1>1, <1>2, <1>3, <1>4 DEF DrainInv, Finalizing, Min
<1> QED BY <1>1, <1>5 DEF DrainInv, Unattended, InProgress, Connected

LEMMA NextDrains == LeaseTypes /\ StreamTypes /\ DrainInv /\ [Next]_vars => DrainInv'
<1> SUFFICES ASSUME LeaseTypes, StreamTypes, DrainInv, [Next]_vars PROVE DrainInv'
  OBVIOUS
<1> USE ReplicaAssumption
<1> DEFINE Stopped == phase \in {"draining", "releasing", "closed"}
<1>1. CASE UNCHANGED <<phase, stream, drain>>
  BY <1>1 DEF DrainInv, Unattended, InProgress, Connected, Finalizing
<1>2. CASE phase' \in {"down", "walk", "serving", "stopping"}
  BY <1>2 DEF DrainInv
<1>3. CASE LeaveLifespan
  <2>1. phase' = "draining" /\ drain' = 0 /\ stream' = stream /\ Unattended
    BY <1>3 DEF LeaveLifespan
  <2> QED BY <2>1 DEF DrainInv, Unattended, InProgress, Connected, Finalizing, StreamTypes,
                      StreamRecord
<1>4. CASE DrainFinalizers
  <2>1. /\ phase' = "releasing" /\ phase = "draining" /\ stream' = stream
        /\ Finalizing => drain >= DrainTimeout
    BY <1>4 DEF DrainFinalizers
  <2>2. Finalizing => stream.age >= DrainTimeout
    BY <2>1 DEF DrainInv, StreamTypes, StreamRecord, LeaseTypes
  <2> QED BY <2>1, <2>2 DEF DrainInv, Unattended, InProgress, Connected, Finalizing
<1>5. CASE Release
  <2>1. phase' = "closed" /\ phase = "releasing" /\ stream' = stream
    BY <1>5 DEF Release
  <2> QED BY <2>1 DEF DrainInv, Unattended, InProgress, Connected, Finalizing
<1>6. CASE Tick
  BY <1>6, TickDrains
<1>7. CASE ReleaseSlot \/ Settle
  <2>1. phase' = phase /\ drain' = drain
    BY <1>7 DEF ReleaseSlot, Settle, UnchangedByStream, lease
  <2>2. CASE ReleaseSlot
    <3>1. /\ stream'.state = "settle" /\ stream'.age = stream.age
          /\ stream'.attached = stream.attached /\ stream.state = "release"
      BY <2>2 DEF ReleaseSlot, StreamTypes, StreamRecord
    <3> QED BY <2>1, <3>1 DEF DrainInv, Unattended, InProgress, Connected, Finalizing
  <2>3. CASE Settle
    <3>1. stream'.state = "none" /\ stream'.attached = FALSE
      BY <2>3 DEF Settle, NoStream
    <3> QED BY <2>1, <3>1 DEF DrainInv, Unattended, InProgress, Connected, Finalizing
  <2> QED BY <1>7, <2>2, <2>3
<1>8. CASE (StreamStep \/ UpstreamRaises \/ ConnectRaises \/ Disconnect)
  <2>1. ~Unattended /\ phase' = phase
    BY <1>8 DEF StreamStep, StartStream, Relay, CheckDuration, ClientTakes, EndOfAnswer,
                Chunk, EndStream, UpstreamRaises, ConnectRaises, Disconnect, Unattended,
                InProgress, Connected, UnchangedByStream, lease
  <2>2. ~Stopped
    BY <2>1 DEF DrainInv
  <2> QED BY <2>1, <2>2 DEF DrainInv
<1>9. Next => \/ UNCHANGED <<phase, stream, drain>>
              \/ phase' \in {"down", "walk", "serving", "stopping"}
              \/ LeaveLifespan \/ DrainFinalizers \/ Release \/ Tick \/ ReleaseSlot \/ Settle
              \/ StreamStep \/ UpstreamRaises \/ ConnectRaises \/ Disconnect
  BY DEF Next, Boot, TryClaim, TryClaimRaises, OtherReplica, Renew, RenewRaises, Fence,
         Mint, Connect, EvictStale, Terminate, Shutdown, Exit, Crash, UnchangedByStream,
         lease
<1>10. UNCHANGED vars => UNCHANGED <<phase, stream, drain>>
  BY DEF vars, lease
<1> QED BY <1>1, <1>2, <1>3, <1>4, <1>5, <1>6, <1>7, <1>8, <1>9, <1>10

\* When the stores are closed, every finalizer is done or had its full
\* DrainTimeout: the shutdown's order lets no request start one later.
THEOREM FinalizersAreDrained == Spec => []FinalizersDrained
<1>1. Init => DrainInv
  BY DEF Init, DrainInv
<1>2. Typed => LeaseTypes /\ StreamTypes
  BY DEF Typed
<1>3. DrainInv => FinalizersDrained
  BY DEF DrainInv, FinalizersDrained
<1> QED BY <1>1, <1>2, <1>3, InitTyped, NextTyped, NextDrains, PTL DEF Spec

=============================================================================
