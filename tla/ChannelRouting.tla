--------------------------- MODULE ChannelRouting ---------------------------
(***************************************************************************)
(* Which upstream channels the replicas route to: the catalog an           *)
(* administrator edits, the health record that takes failing channels out  *)
(* and the prober that brings them back or disables them                   *)
(* (src/src/channel_health), and the router that every replica rebuilds    *)
(* from both (src/src/gateway/router_manager.py).                          *)
(*                                                                         *)
(* An invalidation is a Redis publish: a replica may miss it, and then its *)
(* poll is what it has.  Deployments, keys and models are left out: a      *)
(* channel is either off or routable with some configuration.              *)
(***************************************************************************)
EXTENDS Naturals, FiniteSets

CONSTANTS
    Channels,          \* upstream channels
    Replicas,          \* gateway processes
    Probers,           \* runs of the cron task that may overlap
    Finalizers,        \* finalizers that record an outcome at once
    MinRequests,       \* channel_health_min_requests
    MaxWindow,         \* bound on the requests counted in a window
    MaxProbeFailures,  \* channel_health_max_probe_failures
    MaxWrites,         \* bound on the administrator's writes
    MaxFaults          \* bound on failing stores, slow probes, deaths and
                       \* manual recoveries

ASSUME RoutingAssumption ==
    /\ MinRequests \in Nat \ {0}
    /\ MaxWindow \in Nat /\ MaxWindow >= MinRequests
    /\ MaxProbeFailures \in Nat \ {0}
    /\ MaxWrites \in Nat
    /\ MaxFaults \in Nat

VARIABLES
    config,     \* config[c]: the revision of channel c's rows, 0 if it is off
    writes,     \* how often an administrator changed the rows
    degraded,   \* the set ch:health:degraded
    window,     \* window[c]: requests and errors in the minute buckets of c
    failures,   \* failures[c]: probe_failures of the state hash, 0 if absent
    lock,       \* channels with a probe lock
    streak,     \* history: failed probes of c since it last recovered
    fin,        \* fin[f]: the finalizer's channel and step
    probe,      \* probe[p]: the prober's list, channel and step
    task,       \* task[r][t]: where rebuild task t of replica r stands
    router,     \* router[r]: the router of replica r
    event,      \* event[r]: the _invalidate_event of replica r
    faults      \* faults so far

catalogVars == <<config, writes>>
healthVars == <<degraded, window, failures, lock, streak>>
replicaVars == <<task, router, event>>
vars == <<catalogVars, healthVars, fin, probe, replicaVars, faults>>

None == [c \in Channels |-> 0]

\* A router routes to the channels with a revision.  NoRouter is the state
\* before the first rebuild.
NoRouter == [built |-> FALSE, rows |-> None]

\* The tasks that rebuild: _poll and _debounce_worker.
Tasks == {"poll", "debounce"}
Sleeping == [pc |-> "sleep", rows |-> None]

NoFin == [pc |-> "idle", chan |-> {}]
NoProbe == [pc |-> "idle", todo |-> {}, chan |-> {}, seen |-> 0]

RowsType == [Channels -> 0..MaxWrites + 1]

TypeOK ==
    /\ config \in RowsType
    /\ writes \in 0..MaxWrites
    /\ degraded \subseteq Channels
    /\ window \in [Channels -> [total : 0..MaxWindow, errors : 0..MaxWindow]]
    /\ \A c \in Channels : window[c].errors <= window[c].total
    /\ failures \in [Channels -> 0..MaxProbeFailures]
    /\ lock \subseteq Channels
    /\ streak \in [Channels -> 0..MaxProbeFailures]
    /\ fin \in [Finalizers -> [pc : {"idle", "rate", "add", "state"}, chan : SUBSET Channels]]
    /\ probe \in [Probers -> [pc : {"idle", "next", "probe", "remove", "clear",
                                    "clearWindow", "read", "write", "disable", "release"},
                              todo : SUBSET Channels, chan : SUBSET Channels, seen : 0..MaxProbeFailures]]
    /\ task \in [Replicas -> [Tasks -> [pc : {"sleep", "quiet", "read"},
                                        rows : RowsType]]]
    /\ router \in [Replicas -> [built : BOOLEAN, rows : RowsType]]
    /\ event \in [Replicas -> BOOLEAN]
    /\ faults \in 0..MaxFaults

\* The first rebuild is startup's; a replica whose first rebuild fails does not
\* start, and is started again.
Init ==
    /\ config = [c \in Channels |-> 1]
    /\ writes = 0
    /\ degraded = {}
    /\ window = [c \in Channels |-> [total |-> 0, errors |-> 0]]
    /\ failures = [c \in Channels |-> 0]
    /\ lock = {}
    /\ streak = [c \in Channels |-> 0]
    /\ fin = [f \in Finalizers |-> NoFin]
    /\ probe = [p \in Probers |-> NoProbe]
    /\ task = [r \in Replicas |-> [t \in Tasks |-> Sleeping]]
    /\ router = [r \in Replicas |-> NoRouter]
    /\ event = [r \in Replicas |-> FALSE]
    /\ faults = 0

Fault == faults < MaxFaults /\ faults' = faults + 1
NoFault == UNCHANGED faults

\* A publish on gateway:router:invalidate reaches the replicas that are
\* subscribed at that moment.
Publish ==
    \E R \in SUBSET Replicas :
        event' = [r \in Replicas |-> event[r] \/ r \in R]

\* What a rebuild would make of the rows and the degraded set.
Without(rows, ids) == [c \in Channels |-> IF c \in ids THEN 0 ELSE rows[c]]

-----------------------------------------------------------------------------
(* The catalog.                                                             *)

\* An administrator creates, edits, enables, disables or deletes a channel or
\* what hangs on it; the write commits and its hook publishes.
WriteCatalog ==
    /\ writes < MaxWrites
    /\ writes' = writes + 1
    /\ \E c \in Channels, on \in BOOLEAN :
          config' = [config EXCEPT ![c] = IF on THEN writes' + 1 ELSE 0]
    /\ Publish
    /\ UNCHANGED <<healthVars, fin, probe, task, router, faults>>

-----------------------------------------------------------------------------
(* ChannelHealthService.record_and_evaluate, from a finalizer.              *)

FinUnchanged == UNCHANGED <<catalogVars, lock, probe, task, router>>

\* record_request_outcome for a request that some replica routed to c.  A
\* success ends there.
RecordOutcome(f) ==
    /\ fin[f].pc = "idle"
    /\ \E r \in Replicas, c \in Channels, failed \in BOOLEAN :
        /\ router[r].rows[c] # 0
        /\ window[c].total < MaxWindow
        /\ window' = [window EXCEPT ![c].total = @ + 1,
                                    ![c].errors = IF failed THEN @ + 1 ELSE @]
        /\ fin' = IF failed THEN [fin EXCEPT ![f] = [pc |-> "rate", chan |-> {c}]] ELSE fin
    /\ FinUnchanged /\ UNCHANGED <<degraded, failures, streak, event, faults>>

\* get_error_rate over the threshold of one half; a failing Redis counts as an
\* empty window.
Breached(c) ==
    /\ window[c].total >= MinRequests
    /\ 2 * window[c].errors > window[c].total

GetErrorRate(f) ==
    /\ fin[f].pc = "rate"
    /\ \/ NoFault /\ fin' = [fin EXCEPT ![f] =
              IF \E c \in fin[f].chan : Breached(c) THEN [@ EXCEPT !.pc = "add"] ELSE NoFin]
       \/ Fault /\ fin' = [fin EXCEPT ![f] = NoFin]
    /\ FinUnchanged /\ UNCHANGED <<degraded, window, failures, streak, event>>

\* SADD: whoever adds the channel writes its state and publishes.
AddToDegraded(f) ==
    /\ fin[f].pc = "add"
    /\ \/ /\ NoFault
          /\ degraded' = degraded \cup fin[f].chan
          /\ fin' = [fin EXCEPT ![f] =
                IF fin[f].chan \subseteq degraded THEN NoFin ELSE [@ EXCEPT !.pc = "state"]]
       \/ Fault /\ UNCHANGED degraded /\ fin' = [fin EXCEPT ![f] = NoFin]
    /\ FinUnchanged /\ UNCHANGED <<window, failures, streak, event>>

UpdateChannelState(f) ==
    /\ fin[f].pc = "state"
    /\ \/ /\ NoFault
          /\ failures' = [c \in Channels |-> IF c \in fin[f].chan THEN 0 ELSE failures[c]]
       \/ Fault /\ UNCHANGED failures
    /\ fin' = [fin EXCEPT ![f] = NoFin]
    /\ Publish
    /\ FinUnchanged /\ UNCHANGED <<degraded, window, streak>>

RecordAndEvaluate(f) ==
    RecordOutcome(f) \/ GetErrorRate(f) \/ AddToDegraded(f) \/ UpdateChannelState(f)

\* The minute buckets move out of the window.
SlideWindow(c) ==
    /\ window[c].total > 0
    /\ window' = [window EXCEPT ![c] = [total |-> 0, errors |-> 0]]
    /\ UNCHANGED <<catalogVars, degraded, failures, lock, streak, fin, probe, replicaVars, faults>>

-----------------------------------------------------------------------------
(* probe_degraded_channels.                                                 *)

\* Counts of failed probes matter up to max_probe_failures.
CountUp(n) == IF n < MaxProbeFailures THEN n + 1 ELSE n

ProbeAt(p, pc) == probe[p].pc = pc
ProbeGo(p, pc) == probe' = [probe EXCEPT ![p].pc = pc]
ProbeUnchanged == UNCHANGED <<writes, fin, task, router>>

\* The cron fires; an empty set, or a failing Redis, ends the run.
ListDegraded(p) ==
    /\ ProbeAt(p, "idle")
    /\ degraded # {}
    /\ probe' = [probe EXCEPT ![p] = [NoProbe EXCEPT !.pc = "next", !.todo = degraded]]
    /\ ProbeUnchanged /\ UNCHANGED <<config, healthVars, event, faults>>

\* SET NX of the next channel's lock; a channel that is locked is skipped.
AcquireProbeLock(p) ==
    /\ ProbeAt(p, "next")
    /\ \/ /\ probe[p].todo = {}
          /\ probe' = [probe EXCEPT ![p] = NoProbe]
          /\ UNCHANGED lock
       \/ \E c \in probe[p].todo :
            IF c \in lock
            THEN /\ probe' = [probe EXCEPT ![p].todo = @ \ {c}]
                 /\ UNCHANGED lock
            ELSE /\ lock' = lock \cup {c}
                 /\ probe' = [probe EXCEPT ![p].todo = @ \ {c}, ![p].chan = {c},
                                           ![p].pc = "probe"]
    /\ ProbeUnchanged
    /\ UNCHANGED <<config, degraded, window, failures, streak, event, faults>>

\* _get_probe_info and probe_channel: a channel without an active key or a
\* deployment is not probed.  A channel that is off may have both.
ProbeSingleChannel(p) ==
    /\ ProbeAt(p, "probe")
    /\ \/ ProbeGo(p, "remove") /\ UNCHANGED streak
       \/ /\ ProbeGo(p, "read")
          /\ streak' = [c \in Channels |->
                IF c \in probe[p].chan THEN CountUp(streak[c]) ELSE streak[c]]
       \/ /\ \A c \in probe[p].chan : config[c] = 0
          /\ ProbeGo(p, "release") /\ UNCHANGED streak
    /\ ProbeUnchanged
    /\ UNCHANGED <<config, degraded, window, failures, lock, event, faults>>

\* record_probe_success: SREM, then the state hash and the buckets, then the
\* publish.  Each command's failure is swallowed, and that of the first DEL
\* skips the second.
RemoveFromDegraded(p) ==
    /\ ProbeAt(p, "remove")
    /\ \/ NoFault /\ degraded' = degraded \ probe[p].chan
       \/ Fault /\ UNCHANGED degraded
    /\ ProbeGo(p, "clear")
    /\ ProbeUnchanged
    /\ UNCHANGED <<config, window, failures, lock, streak, event>>

\* Mutant: the state hash is kept.
ClearWindowOnly(p) ==
    /\ ProbeAt(p, "clear")
    /\ streak' = [c \in Channels |-> IF c \in probe[p].chan THEN 0 ELSE streak[c]]
    /\ window' = [c \in Channels |->
          IF c \in probe[p].chan THEN [total |-> 0, errors |-> 0] ELSE window[c]]
    /\ Publish
    /\ ProbeGo(p, "release")
    /\ ProbeUnchanged /\ UNCHANGED <<config, degraded, failures, lock, faults>>

ClearChannelState(p) ==
    /\ \/ /\ ProbeAt(p, "clear")
          /\ \/ /\ NoFault
                /\ failures' = [c \in Channels |-> IF c \in probe[p].chan THEN 0 ELSE failures[c]]
                /\ streak' = [c \in Channels |-> IF c \in probe[p].chan THEN 0 ELSE streak[c]]
                /\ ProbeGo(p, "clearWindow")
             \/ Fault /\ UNCHANGED <<failures, streak>> /\ ProbeGo(p, "release")
          /\ UNCHANGED <<window, event>>
       \/ /\ ProbeAt(p, "clearWindow")
          /\ \/ /\ NoFault
                /\ window' = [c \in Channels |->
                      IF c \in probe[p].chan THEN [total |-> 0, errors |-> 0] ELSE window[c]]
             \/ Fault /\ UNCHANGED window
          /\ Publish
          /\ ProbeGo(p, "release")
          /\ UNCHANGED <<failures, streak>>
    /\ ProbeUnchanged /\ UNCHANGED <<config, degraded, lock>>

\* The failure count is read and written back by two commands; a count that
\* cannot be read is 0.
Disables(n) == n >= MaxProbeFailures

\* Mutant: the count is written back as it was read.
RecordProbeFailureUncounted(p) ==
    /\ \/ /\ ProbeAt(p, "read")
          /\ probe' = [probe EXCEPT ![p].seen = 0, ![p].pc = "write"]
       \/ /\ ProbeAt(p, "write")
          /\ ProbeGo(p, IF Disables(probe[p].seen) THEN "disable" ELSE "release")
    /\ ProbeUnchanged /\ UNCHANGED <<config, healthVars, event, faults>>

RecordProbeFailure(p) ==
    /\ \/ /\ ProbeAt(p, "read")
          /\ \E n \in {0} \cup {failures[c] : c \in probe[p].chan} :
                /\ IF \A c \in probe[p].chan : n = failures[c] THEN NoFault ELSE Fault
                /\ probe' = [probe EXCEPT ![p].seen = n, ![p].pc = "write"]
          /\ UNCHANGED failures
       \/ /\ ProbeAt(p, "write")
          /\ \/ /\ NoFault
                /\ failures' = [c \in Channels |->
                      IF c \in probe[p].chan THEN CountUp(probe[p].seen) ELSE failures[c]]
             \/ Fault /\ UNCHANGED failures
          /\ probe' = [probe EXCEPT ![p].seen = 0,
                ![p].pc = IF Disables(probe[p].seen + 1) THEN "disable" ELSE "release"]
    /\ ProbeUnchanged
    /\ UNCHANGED <<config, degraded, window, lock, streak, event>>

\* The UPDATE to disabled and its publish; the channel stays in the degraded
\* set and its count stays.
HardDisableChannel(p) ==
    /\ ProbeAt(p, "disable")
    /\ \/ /\ NoFault
          /\ config' = Without(config, probe[p].chan)
          /\ Publish
       \/ Fault /\ UNCHANGED <<config, event>>
    /\ ProbeGo(p, "release")
    /\ ProbeUnchanged /\ UNCHANGED healthVars

\* DEL of the lock, whoever holds it by now.
ReleaseProbeLock(p) ==
    /\ ProbeAt(p, "release")
    /\ \/ NoFault /\ lock' = lock \ probe[p].chan
       \/ Fault /\ UNCHANGED lock
    /\ probe' = [probe EXCEPT ![p].chan = {}, ![p].pc = "next"]
    /\ ProbeUnchanged
    /\ UNCHANGED <<config, degraded, window, failures, streak, event>>

ProbeStep(p) ==
    \/ ListDegraded(p) \/ AcquireProbeLock(p) \/ ProbeSingleChannel(p)
    \/ RemoveFromDegraded(p) \/ ClearChannelState(p) \/ RecordProbeFailure(p)
    \/ HardDisableChannel(p) \/ ReleaseProbeLock(p)

\* recover_channel: an administrator runs record_probe_success without the
\* lock, in the middle of a probe too, which may then write back a count it
\* read before.  Bounded, and excused, as a fault is.
RecoverChannel(c) ==
    /\ Fault
    /\ degraded' = degraded \ {c}
    /\ failures' = [failures EXCEPT ![c] = 0]
    /\ streak' = [streak EXCEPT ![c] = 0]
    /\ window' = [window EXCEPT ![c] = [total |-> 0, errors |-> 0]]
    /\ Publish
    /\ ProbeUnchanged /\ UNCHANGED <<config, lock, probe>>

\* The worker dies; the lock is left to its TTL.
ProberDies(p) ==
    /\ ~ProbeAt(p, "idle")
    /\ Fault
    /\ probe' = [probe EXCEPT ![p] = NoProbe]
    /\ ProbeUnchanged /\ UNCHANGED <<config, healthVars, event>>

\* The lock has the lifetime of a probe interval, which a probe exceeds only
\* if something stalls.
ExpireProbeLock(c) ==
    /\ c \in lock
    /\ IF \E p \in Probers : c \in probe[p].chan THEN Fault ELSE NoFault
    /\ lock' = lock \ {c}
    /\ UNCHANGED <<catalogVars, degraded, window, failures, streak, fin, probe, replicaVars>>

-----------------------------------------------------------------------------
(* RouterManager.                                                           *)

RouterUnchanged == UNCHANGED <<catalogVars, healthVars, fin, probe>>

\* _debounce_worker: an event starts a quiet window, another one starts it
\* anew, and a rebuild follows a window without one.
Debounce(r) ==
    /\ task[r]["debounce"].pc \in {"sleep", "quiet"}
    /\ event[r]
    /\ event' = [event EXCEPT ![r] = FALSE]
    /\ task' = [task EXCEPT ![r]["debounce"].pc = "quiet"]
    /\ RouterUnchanged /\ UNCHANGED <<router, faults>>

\* _poll wakes when its interval is over, at any time.
Due(r, t) ==
    \/ t = "poll" /\ task[r][t].pc = "sleep"
    \/ t = "debounce" /\ task[r][t].pc = "quiet" /\ ~event[r]

\* Mutant: the rows are read before the lock is taken.
ReadRowsUnlocked(r, t) ==
    /\ Due(r, t)
    /\ task' = [task EXCEPT ![r][t] = [pc |-> "read", rows |-> config]]
    /\ RouterUnchanged /\ UNCHANGED <<router, event, faults>>

\* rebuild, once it has the lock: get_router_config, whose failure is logged.
ReadRows(r, t) ==
    /\ Due(r, t)
    /\ \A u \in Tasks : task[r][u].pc # "read"
    /\ \/ /\ NoFault
          /\ task' = [task EXCEPT ![r][t] = [pc |-> "read", rows |-> config]]
       \/ Fault /\ task' = [task EXCEPT ![r][t] = Sleeping]
    /\ RouterUnchanged /\ UNCHANGED <<router, event>>

\* Mutant: the fingerprints are not compared, only whether there is a router.
SwapRouterOnce(r, t) ==
    /\ task[r][t].pc = "read"
    /\ router' = IF router[r].built
                 THEN router
                 ELSE [router EXCEPT ![r] =
                         [built |-> TRUE, rows |-> Without(task[r][t].rows, degraded)]]
    /\ task' = [task EXCEPT ![r][t] = Sleeping]
    /\ RouterUnchanged /\ UNCHANGED <<event, faults>>

\* The degraded set is read, empty if Redis fails, and the new router replaces
\* the old one unless their rows are the same.
SwapRouter(r, t) ==
    /\ task[r][t].pc = "read"
    /\ \E ids \in {degraded, {}} :
        /\ IF ids = degraded THEN NoFault ELSE Fault
        /\ LET rows == Without(task[r][t].rows, ids) IN
             router' = IF router[r].built /\ router[r].rows = rows
                       THEN router
                       ELSE [router EXCEPT ![r] =
                               [built |-> TRUE, rows |-> rows]]
    /\ task' = [task EXCEPT ![r][t] = Sleeping]
    /\ RouterUnchanged /\ UNCHANGED event

Rebuild(r, t) == ReadRows(r, t) \/ SwapRouter(r, t)

-----------------------------------------------------------------------------

Next ==
    \/ WriteCatalog
    \/ \E f \in Finalizers : RecordAndEvaluate(f)
    \/ \E c \in Channels : SlideWindow(c) \/ ExpireProbeLock(c) \/ RecoverChannel(c)
    \/ \E p \in Probers : ProbeStep(p) \/ ProberDies(p)
    \/ \E r \in Replicas : Debounce(r) \/ \E t \in Tasks : Rebuild(r, t)

Spec == Init /\ [][Next]_vars

\* The cron fires every minute, probes time out, the poll wakes every 30 s,
\* locks and buckets expire, and a finalizer goes on.
Fairness ==
    /\ \A f \in Finalizers :
          WF_vars(GetErrorRate(f) \/ AddToDegraded(f) \/ UpdateChannelState(f))
    /\ \A p \in Probers : WF_vars(ProbeStep(p))
    /\ \A c \in Channels : WF_vars(ExpireProbeLock(c))
    /\ \A r \in Replicas :
          /\ WF_vars(Debounce(r))
          /\ \A t \in Tasks : WF_vars(Rebuild(r, t))

FairSpec == Spec /\ Fairness

-----------------------------------------------------------------------------
(* Properties.                                                              *)

\* A router is never replaced by one with an older revision of a channel: the
\* rebuilds of the poll and of an invalidation do not overtake each other
\* (rebuild reads the rows under the lock).
RoutersNeverGoBack ==
    [][\A r \in Replicas, c \in Channels :
          router'[r].rows[c] # 0 => router'[r].rows[c] >= router[r].rows[c]]_vars

\* Without a fault or a manual recovery, a channel is disabled by the prober only after
\* max_probe_failures probes failed since it last recovered: a late
\* write of the count by another probe or by the finalizer that degraded the
\* channel never makes the count larger than that.
DisableIsEarned ==
    faults = 0 =>
        \A p \in Probers : ProbeAt(p, "disable") =>
            \A c \in probe[p].chan : streak[c] >= MaxProbeFailures

\* Once the rows and the degraded set stop changing, every replica comes to
\* route by them and stays so, however many invalidations were lost.
RoutersCatchUp ==
    (<>[][UNCHANGED <<config, degraded>>]_vars) =>
        \A r \in Replicas : <>[](router[r].built /\ router[r].rows = Without(config, degraded))

\* A degraded channel does not stay routable and excluded for ever: it recovers
\* or is disabled.
DegradedResolved ==
    \A c \in Channels :
        c \in degraded ~> c \notin degraded \/ config[c] = 0

=============================================================================
