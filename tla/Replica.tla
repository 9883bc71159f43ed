------------------------------- MODULE Replica -------------------------------
(***************************************************************************)
(* One application process from start to exit: the lease of its snowflake  *)
(* worker id, the ids it mints under it, a streamed completion, and the    *)
(* shutdown that drains the finalizers before the stores are closed.       *)
(*                                                                         *)
(* Time passes in Tick; the timers count ticks.  What the code does on a   *)
(* timer (asyncio.timeout, the drain's wait) is done before time goes on,  *)
(* the heartbeat at most MaxLag late.  The other replicas appear as what   *)
(* they may do to the lease keys: SET NX a free one, give up their own.    *)
(***************************************************************************)
EXTENDS Integers

CONSTANTS
    Workers,        \* the worker ids are 0..Workers-1 (1024)
    TTL,            \* of a lease key (30 s)
    Interval,       \* between heartbeats: TTL // 3
    MaxLag,         \* how late a heartbeat may run: a stalled loop, a slow answer
    MaxConnect,     \* from taking the slot to the start of the stream
    ClientLag,      \* how long a client may take over one chunk
    Idle,           \* _STREAM_IDLE_TIMEOUT_SECONDS (60)
    MaxDuration,    \* _STREAM_MAX_DURATION_SECONDS (1800)
    Stale,          \* _CONCURRENT_STALE_TIMEOUT_SECONDS (2100)
    DrainTimeout,   \* _FINALIZER_DRAIN_TIMEOUT_SECONDS (10)
    MaxSequence,    \* _MAX_SEQUENCE (4095)
    MaxRollback,    \* _MAX_ROLLBACK_WAIT_MS (1000)
    Clock           \* what the wall clock may read, in milliseconds

ASSUME ReplicaAssumption ==
    /\ Workers \in Nat \ {0}
    /\ TTL \in Nat \ {0} /\ Interval \in 1..TTL
    /\ \A n \in {MaxLag, MaxConnect, ClientLag, Idle, MaxDuration, Stale, DrainTimeout,
                 MaxSequence, MaxRollback} : n \in Nat
    /\ Clock \subseteq Nat

VARIABLES
    phase,      \* of the process
    at,         \* the id acquire_worker_id tries, then the leased one
    holder,     \* who holds a lease key: "none", "me", or another token
    ttl,        \* of the process's own key
    beat,       \* until the heartbeat is due; negative when it is late
    since,      \* since the last renewal that was answered
    lost,       \* history: since the key went while the process was serving
    stream,     \* the streamed completion
    slot,       \* its concurrency slot in Redis
    held,       \* since the slot was taken
    drain,      \* how long drain_finalizers has waited
    gen         \* of the snowflake generator: _last_ms and _sequence

lease == <<phase, at, holder, ttl, beat, since, lost, drain>>
vars == <<lease, stream, slot, held, gen>>

NewGenerator == [last |-> -1, seq |-> 0]

WorkerIds == 0..(Workers - 1)

\* age is since stream_start (or since the connection began, or the finalizer
\* did), quiet since the generator began to wait; part: half a usage event is in
\* the SSE buffer; bears: the chunk at hand completes one; counted and told: the
\* usage is known, the client has seen it.
NoStream ==
    [state |-> "none", age |-> 0, quiet |-> 0, part |-> FALSE, bears |-> FALSE,
     counted |-> FALSE, told |-> FALSE, attached |-> FALSE]

Connected  == stream.state \in {"check", "wait", "yield", "end"}
InProgress == stream.state = "connect" \/ Connected
Finalizing == stream.state \in {"release", "settle"}

\* The request is over for the server: its finalizer may go on by itself.
Unattended == ~InProgress /\ ~stream.attached

Beating == phase \in {"serving", "stopping", "draining"} /\ beat <= Interval

Min(a, b) == IF a < b THEN a ELSE b

Init ==
    /\ phase = "down"
    /\ at = 0
    /\ holder \in [WorkerIds -> {"none", "other"}]
    /\ ttl = 0
    /\ beat = Interval + 1
    /\ since = 0
    /\ lost = 0
    /\ drain = 0
    /\ stream = NoStream
    /\ slot = "none"
    /\ held = 0
    /\ gen = NewGenerator

-----------------------------------------------------------------------------
(* Starting: acquire_worker_id, start_heartbeat.                           *)

Boot ==
    /\ phase = "down"
    /\ phase' = "walk"
    /\ at' = 0
    /\ UNCHANGED <<holder, ttl, beat, since, lost, drain, stream, slot, held, gen>>

\* SET NX EX: the first free id; a process that finds none does not start.
TryClaim ==
    /\ phase = "walk"
    /\ IF holder[at] = "none"
       THEN /\ holder' = [holder EXCEPT ![at] = "me"]
            /\ phase' = "serving"
            /\ ttl' = TTL
            /\ beat' = Interval
            /\ UNCHANGED at
       ELSE /\ phase' = IF at + 1 \in WorkerIds THEN "walk" ELSE "down"
            /\ at' = IF at + 1 \in WorkerIds THEN at + 1 ELSE 0
            /\ UNCHANGED <<holder, ttl, beat>>
    /\ since' = 0
    /\ UNCHANGED <<lost, drain, stream, slot, held, gen>>

\* The call raises, carried out or not: outside "local" the process gives up.
TryClaimRaises ==
    /\ phase = "walk"
    /\ phase' = "down"
    /\ holder' \in {holder, [holder EXCEPT ![at] = IF @ = "none" THEN "other" ELSE @]}
    /\ at' = 0
    /\ UNCHANGED <<ttl, beat, since, lost, drain, stream, slot, held, gen>>

\* Another replica takes a free id, or its lease ends.
OtherReplica(n) ==
    /\ holder[n] # "me"
    /\ holder' = [holder EXCEPT ![n] = IF @ = "none" THEN "other" ELSE "none"]
    /\ UNCHANGED <<phase, at, ttl, beat, since, lost, drain, stream, slot, held, gen>>

-----------------------------------------------------------------------------
(* The heartbeat.                                                          *)

\* SIGTERM to itself: no request is accepted any more; the heartbeat has ended.
Fence ==
    /\ phase' = IF phase = "serving" THEN "stopping" ELSE phase
    /\ beat' = Interval + 1
    /\ lost' = 0
    /\ UNCHANGED <<ttl, since>>

Renew ==
    /\ Beating /\ beat <= 0
    /\ IF holder[at] = "me"
       THEN /\ ttl' = TTL
            /\ since' = 0
            /\ beat' = Interval
            /\ UNCHANGED <<phase, lost>>
       ELSE Fence
    /\ UNCHANGED <<at, holder, drain, stream, slot, held, gen>>

\* Mutant: the window is measured from the last attempt.
RenewRaisesFromAttempt ==
    /\ Beating /\ beat <= 0
    /\ IF since >= TTL
       THEN Fence
       ELSE /\ since' = 0
            /\ beat' = Interval
            /\ UNCHANGED <<phase, ttl, lost>>
    /\ UNCHANGED <<at, holder, drain, stream, slot, held, gen>>

\* Redis does not answer; the renewal may have been carried out all the same.
RenewRaises ==
    /\ Beating /\ beat <= 0
    /\ IF since >= TTL
       THEN Fence
       ELSE /\ ttl' \in {ttl, IF holder[at] = "me" THEN TTL ELSE ttl}
            /\ beat' = Interval
            /\ UNCHANGED <<phase, since, lost>>
    /\ UNCHANGED <<at, holder, drain, stream, slot, held, gen>>

-----------------------------------------------------------------------------
(* Snowflake ids.                                                          *)

\* Mutant: an exhausted millisecond is not waited out.
NextIdWraps(now, later) ==
    LET t == IF now < gen.last THEN later ELSE now
    IN  /\ gen.last - now <= MaxRollback
        /\ now < gen.last => later >= gen.last
        /\ gen' = [last |-> t, seq |-> IF t = gen.last THEN (gen.seq + 1) % (MaxSequence + 1)
                                       ELSE 0]

\* next_id: `now' is the first reading of the clock, `later' the one that ends
\* the wait, if it has to wait.  A larger step back raises.
NextId(now, later) ==
    LET t == IF now < gen.last THEN later ELSE now
        s == IF t = gen.last THEN (gen.seq + 1) % (MaxSequence + 1) ELSE 0
        exhausted == t = gen.last /\ s = 0
    IN  /\ gen.last - now <= MaxRollback
        /\ now < gen.last => later >= gen.last
        /\ exhausted => later > gen.last
        /\ gen' = [last |-> IF exhausted THEN later ELSE t, seq |-> s]

\* Anything the process inserts, until it exits.
Mint ==
    /\ phase \in {"serving", "stopping", "draining"}
    /\ \E now, later \in Clock : NextId(now, later)
    /\ UNCHANGED <<lease, stream, slot, held>>

-----------------------------------------------------------------------------
(* A streamed completion: router.py, endpoints_v1.py.                      *)

UnchangedByStream == UNCHANGED <<lease, gen>>

\* The slot is taken and the upstream call begins.
Connect ==
    /\ phase = "serving"
    /\ stream.state = "none"
    /\ slot = "none"
    /\ slot' = "held"
    /\ held' = 0
    /\ stream' = [NoStream EXCEPT !.state = "connect", !.attached = TRUE]
    /\ UnchangedByStream

StartStream ==
    /\ stream.state = "connect"
    /\ stream' = [stream EXCEPT !.state = "check", !.age = 0]
    /\ UNCHANGED <<slot, held>>
    /\ UnchangedByStream

\* The head of the loop.
CheckDuration ==
    /\ stream.state = "check"
    /\ stream' = IF stream.age > MaxDuration
                 THEN [stream EXCEPT !.state = "end", !.quiet = 0]
                 ELSE [stream EXCEPT !.state = "wait", !.quiet = 0]
    /\ UNCHANGED <<slot, held>>
    /\ UnchangedByStream

\* Mutant: without the buffer an event in two chunks is not parsed.
ChunkUnbuffered(kind) ==
    /\ stream.state = "wait"
    /\ (kind = "rest") = stream.part
    /\ stream' = [stream EXCEPT !.state = "yield", !.quiet = 0,
                                !.part = kind = "half",
                                !.bears = kind \in {"usage", "rest"},
                                !.counted = @ \/ kind = "usage"]
    /\ UNCHANGED <<slot, held>>
    /\ UnchangedByStream

\* A chunk: its usage is extracted before it is yielded.
Chunk(kind) ==
    /\ stream.state = "wait"
    /\ (kind = "rest") = stream.part
    /\ stream' = [stream EXCEPT !.state = "yield", !.quiet = 0,
                                !.part = kind = "half",
                                !.bears = kind \in {"usage", "rest"},
                                !.counted = @ \/ kind \in {"usage", "rest"}]
    /\ UNCHANGED <<slot, held>>
    /\ UnchangedByStream

ClientTakes ==
    /\ stream.state = "yield"
    /\ stream' = [stream EXCEPT !.state = "check", !.bears = FALSE,
                                !.told = @ \/ stream.bears]
    /\ UNCHANGED <<slot, held>>
    /\ UnchangedByStream

\* The end of the answer, or the idle timeout; the terminator or error is sent.
EndOfAnswer ==
    /\ stream.state = "wait"
    /\ stream' = [stream EXCEPT !.state = "end", !.quiet = 0]
    /\ UNCHANGED <<slot, held>>
    /\ UnchangedByStream

\* _spawn_finalizer: a task of its own, which a request still there waits for.
Finalizer(attached) ==
    [NoStream EXCEPT !.state = "release", !.attached = attached,
                     !.counted = stream.counted, !.told = stream.told]

EndStream ==
    /\ stream.state = "end"
    /\ stream' = Finalizer(TRUE)
    /\ UNCHANGED <<slot, held>>
    /\ UnchangedByStream

\* The upstream call raises in the middle.
UpstreamRaises ==
    /\ stream.state = "wait"
    /\ stream' = Finalizer(TRUE)
    /\ UNCHANGED <<slot, held>>
    /\ UnchangedByStream

\* The client leaves: the request is cancelled, at a yield before or after the
\* chunk has gone out; the shielded finalizer goes on.
Disconnect ==
    /\ Connected \/ (Finalizing /\ stream.attached)
    /\ stream' \in IF Connected
                   THEN {[Finalizer(FALSE) EXCEPT !.told = @ \/ b] :
                            b \in {FALSE, stream.state = "yield" /\ stream.bears}}
                   ELSE {[stream EXCEPT !.attached = FALSE]}
    /\ UNCHANGED <<slot, held>>
    /\ UnchangedByStream

\* The upstream call raises before the stream starts: the handler finalizes the
\* request and leaves the slot.
ConnectRaises ==
    /\ stream.state = "connect"
    /\ stream' = [stream EXCEPT !.state = "settle", !.age = 0, !.attached = TRUE]
    /\ UNCHANGED <<slot, held>>
    /\ UnchangedByStream

\* _finalize_stream: the upstream is closed and the slot released ...
ReleaseSlot ==
    /\ stream.state = "release"
    /\ phase # "closed"
    /\ stream' = [stream EXCEPT !.state = "settle"]
    /\ slot' = "none"
    /\ held' = 0
    /\ UnchangedByStream

\* Mutant: the request goes on waiting for its finalizer.
SettleAttached ==
    /\ stream.state = "settle"
    /\ phase # "closed"
    /\ stream' = [NoStream EXCEPT !.attached = stream.attached]
    /\ UNCHANGED <<slot, held>>
    /\ UnchangedByStream

\* ... and then the request is settled.
Settle ==
    /\ stream.state = "settle"
    /\ phase # "closed"
    /\ stream' = NoStream
    /\ UNCHANGED <<slot, held>>
    /\ UnchangedByStream

\* Mutant: a slot is stale when the longest stream ends.
EvictAtMaxDuration ==
    /\ slot = "held"
    /\ held >= MaxDuration
    /\ slot' = IF InProgress THEN "evicted" ELSE "none"
    /\ held' = 0
    /\ UNCHANGED stream
    /\ UnchangedByStream

\* A later check of the same rule drops a slot that is too old.
EvictStale ==
    /\ slot = "held"
    /\ held >= Stale
    /\ slot' = IF InProgress THEN "evicted" ELSE "none"
    /\ held' = 0
    /\ UNCHANGED stream
    /\ UnchangedByStream

-----------------------------------------------------------------------------
(* Stopping.                                                               *)

\* The orchestrator's SIGTERM.
Terminate ==
    /\ phase = "serving"
    /\ phase' = "stopping"
    /\ lost' = 0
    /\ UNCHANGED <<at, holder, ttl, beat, since, drain, stream, slot, held, gen>>

\* The server waits for its requests and then leaves the lifespan.
LeaveLifespan ==
    /\ phase = "stopping"
    /\ Unattended
    /\ phase' = "draining"
    /\ drain' = 0
    /\ UNCHANGED <<at, holder, ttl, beat, since, lost, stream, slot, held, gen>>

\* Mutant: the finalizers are not waited for.
DrainNothing ==
    /\ phase = "draining"
    /\ phase' = "releasing"
    /\ UNCHANGED <<at, holder, ttl, beat, since, lost, drain, stream, slot, held, gen>>

\* drain_finalizers, then RouterManager.shutdown.
DrainFinalizers ==
    /\ phase = "draining"
    /\ ~Finalizing \/ drain >= DrainTimeout
    /\ phase' = "releasing"
    /\ UNCHANGED <<at, holder, ttl, beat, since, lost, drain, stream, slot, held, gen>>

\* WorkerIdLease.release: compare and delete; a key that cannot be deleted is
\* left to its TTL.
Release ==
    /\ phase = "releasing"
    /\ holder' \in {[holder EXCEPT ![at] = IF @ = "me" THEN h ELSE @] : h \in {"none", "other"}}
    /\ phase' = "closed"
    /\ ttl' = 0
    /\ beat' = Interval + 1
    /\ UNCHANGED <<at, since, lost, drain, stream, slot, held, gen>>

\* close_redis and engine.dispose; a finalizer that is still there is cut off.
Exit ==
    /\ phase = "closed"
    /\ phase' = "down"
    /\ stream' = NoStream
    /\ at' = 0
    /\ since' = 0
    /\ drain' = 0
    /\ gen' = NewGenerator
    /\ UNCHANGED <<holder, ttl, beat, lost, slot, held>>

\* The process dies: the key and the slot are left to Redis.
Crash ==
    /\ phase \notin {"down", "walk"}
    /\ phase' = "down"
    /\ holder' = [n \in WorkerIds |-> IF holder[n] = "me" THEN "other" ELSE holder[n]]
    /\ stream' = NoStream
    /\ at' = 0
    /\ ttl' = 0
    /\ beat' = Interval + 1
    /\ since' = 0
    /\ lost' = 0
    /\ drain' = 0
    /\ gen' = NewGenerator
    /\ UNCHANGED <<slot, held>>

-----------------------------------------------------------------------------
(* Time.                                                                   *)

\* What is due is done first: upstream, client, timeouts and heartbeat.
MayPass ==
    /\ Beating => beat > -MaxLag
    /\ stream.state = "connect" => stream.age < MaxConnect
    /\ stream.state = "wait" => stream.quiet < Idle
    /\ stream.state \in {"yield", "end"} => stream.quiet < ClientLag
    /\ stream.state # "check"
    /\ phase = "draining" => drain < DrainTimeout
    /\ phase \notin {"releasing", "closed"}

\* Timers that have passed everything they are compared with stand still.
Tick ==
    /\ MayPass
    /\ ttl' = IF ttl > 0 THEN ttl - 1 ELSE 0
    /\ holder' = [n \in WorkerIds |-> IF holder[n] = "me" /\ ttl = 1 THEN "none" ELSE holder[n]]
    /\ beat' = IF Beating THEN beat - 1 ELSE beat
    /\ since' = IF Beating THEN Min(since + 1, TTL) ELSE since
    /\ lost' = IF phase = "serving" /\ ttl <= 1
               THEN Min(lost + 1, Interval + MaxLag + 1) ELSE 0
    /\ stream' = [stream EXCEPT
                    !.age = IF stream.state = "none" THEN 0
                            ELSE Min(@ + 1, IF Finalizing THEN DrainTimeout
                                            ELSE MaxDuration + MaxConnect + 1),
                    !.quiet = IF stream.state \in {"wait", "yield", "end"} THEN @ + 1 ELSE @]
    /\ held' = IF slot = "held" THEN Min(held + 1, Stale) ELSE held
    /\ drain' = IF phase = "draining" THEN drain + 1 ELSE drain
    /\ UNCHANGED <<phase, at, slot, gen>>

\* The loop of a stream generator.
Relay ==
    \/ CheckDuration \/ ClientTakes \/ EndOfAnswer
    \/ \E kind \in {"plain", "half", "rest", "usage"} : Chunk(kind)

StreamStep == StartStream \/ Relay \/ EndStream

Shutdown == LeaveLifespan \/ DrainFinalizers \/ Release \/ Exit

Next ==
    \/ Boot \/ TryClaim \/ TryClaimRaises
    \/ \E n \in WorkerIds : OtherReplica(n)
    \/ Renew \/ RenewRaises
    \/ Mint
    \/ Connect \/ StreamStep \/ UpstreamRaises \/ ConnectRaises \/ Disconnect
    \/ ReleaseSlot \/ Settle \/ EvictStale
    \/ Terminate \/ Shutdown \/ Crash
    \/ Tick

Spec == Init /\ [][Next]_vars

\* Time passes, the event loop runs what is ready, calls to the stores return
\* (they have timeouts), and a client takes a chunk or goes.
FairSpec ==
    /\ Spec
    /\ SF_vars(Tick)
    /\ WF_vars(StreamStep)
    /\ WF_vars(ReleaseSlot \/ Settle)
    /\ WF_vars(Renew \/ RenewRaises)
    /\ WF_vars(Shutdown)

-----------------------------------------------------------------------------
(* Properties.                                                             *)

\* Every variable has its type, and the process's key is there exactly while its
\* TTL runs.
TypeOK ==
    /\ phase \in {"down", "walk", "serving", "stopping", "draining", "releasing", "closed"}
    /\ at \in WorkerIds
    /\ holder \in [WorkerIds -> {"none", "me", "other"}]
    /\ ttl \in 0..TTL
    /\ \A n \in WorkerIds : holder[n] = "me" <=> n = at /\ ttl > 0
    /\ beat \in (-MaxLag)..(Interval + 1)
    /\ since \in 0..TTL
    /\ lost \in 0..(Interval + MaxLag + 1)
    /\ stream \in [state : {"none", "connect", "check", "wait", "yield", "end", "release", "settle"},
                   age : Nat, quiet : Nat, part : BOOLEAN, bears : BOOLEAN,
                   counted : BOOLEAN, told : BOOLEAN, attached : BOOLEAN]
    /\ slot \in {"none", "held", "evicted"}
    /\ held \in 0..Stale
    /\ drain \in 0..DrainTimeout
    /\ gen \in [last : Clock \cup {-1}, seq : 0..MaxSequence]

\* A replica whose lease key is gone (another may hold its worker id) stops
\* serving within one heartbeat interval and the heartbeat's lag, whether Redis
\* answers the heartbeat or not.
LossIsNoticed == phase = "serving" => lost <= Interval + MaxLag

\* What a stream may take from its slot to its finalizer.
StreamBudget == MaxConnect + MaxDuration + Idle + 2 * ClientLag

\* check_rate_limits drops slots older than Stale: one that a stream is still
\* using is never among them, if Stale is more than the stream may take.
SlotOutlivesStream ==
    InProgress /\ StreamBudget < Stale => slot = "held" /\ held <= StreamBudget

\* When the stores are closed every finalizer is done, or has had DrainTimeout.
FinalizersDrained == phase = "closed" /\ Finalizing => stream.age >= DrainTimeout

\* Usage the client has seen is known to the finalizer, however the upstream
\* cut it into chunks and whenever the client left.
ToldIsCounted == stream.told => stream.counted

\* next_id never mints the same or an earlier id, when the clock moves back or
\* stands still for more ids than a millisecond has.
IdsGrow ==
    [][gen' # gen => \/ gen' = NewGenerator /\ phase' = "down"
                     \/ gen'.last > gen.last
                     \/ gen'.last = gen.last /\ gen'.seq > gen.seq]_vars

\* A replica that was told to stop, or fenced itself, exits: no stream keeps it.
ShutdownEnds == phase = "stopping" ~> phase = "down"

=============================================================================
