----------------------------- MODULE Admission -----------------------------
(***************************************************************************)
(* The life of one gateway request against the shared counters in Redis    *)
(* (src/src/gateway/router.py, endpoints_v1.py, rate_limit.py, quota.py,   *)
(* finalize.py, service.py).                                               *)
(*                                                                         *)
(* A request passes the gates of every rate-limit rule in turn (RPM        *)
(* window, TPM bucket, concurrency slot), reserves its estimate on every   *)
(* quota counter, calls the upstream model, and finally gives back or      *)
(* settles what it took.  Each Lua script or Redis command is one atomic   *)
(* step, and between two of them any other request may run.                *)
(*                                                                         *)
(* A gate is one limit of one rule: [kind |-> "rpm", rule |-> 1].          *)
(***************************************************************************)
EXTENDS Integers, FiniteSets, FiniteSetsExt

CONSTANTS
    Requests,
    Stream,        \* the streaming requests
    Procs,         \* gateway processes
    ProcOf,        \* ProcOf[q]: the process that serves q
    Estimate,      \* Estimate[q]: tokens reserved up front
    Usages,        \* total_tokens the upstream may report; 0 = none parsed
    Gates,         \* the limits of the active rules
    Limit,         \* Limit[g]: rpm_limit, tpm_burst_limit or max_concurrent
    Quotas,        \* quota counters that apply to the requests
    Metric,        \* Metric[k]: "requests" or "tokens" (cost behaves as tokens)
    Enforced,      \* quotas with enforce set; the others only warn
    QLimit,        \* QLimit[k]: limit_value
    EmergencyCap,  \* _EMERGENCY_DEFAULT_MAX_PER_WINDOW
    FaultPoints,   \* where a fault may strike, see Fault
    MaxFaults,     \* bound on faults
    MaxRefill      \* bound on the tokens a bucket refills

GateKinds == {"rpm", "tpm", "conc"}
Gate == [kind : GateKinds, rule : Nat]

ASSUME RequestsAssumption ==
    /\ IsFiniteSet(Requests)
    /\ Stream \subseteq Requests
    /\ ProcOf \in [Requests -> Procs]
    /\ Estimate \in [Requests -> Nat \ {0}]
    /\ Usages \subseteq Nat
ASSUME LimitsAssumption ==
    /\ Gates \subseteq Gate
    /\ Limit \in [Gates -> Nat]
    /\ Metric \in [Quotas -> {"requests", "tokens"}]
    /\ Enforced \subseteq Quotas
    /\ QLimit \in [Quotas -> Nat]
    /\ EmergencyCap \in Nat
ASSUME BoundsAssumption == MaxFaults \in Nat /\ MaxRefill \in Nat

Rpm == {g \in Gates : g.kind = "rpm"}
Tpm == {g \in Gates : g.kind = "tpm"}
Conc == {g \in Gates : g.kind = "conc"}
Rules == {g.rule : g \in Gates}

VARIABLES
    pc,        \* pc[q]: where the handler of q stands
    rules,     \* rules[q]: the gates the rule lookup returned
    todo,      \* todo[q]: gates left to visit in the current phase
    got,       \* got[q]: gates whose script admitted q
    lost,      \* lost[q]: gates of got[q] that a failed command left taken
    usage,     \* usage[q]: tokens reported by the upstream
    resv,      \* resv[q]: quotas on which q holds an unsettled reservation
    members,   \* members[g]: the sorted set of an RPM or concurrency gate
    tokens,    \* tokens[g]: the level of a TPM bucket
    opened,    \* TPM buckets whose key exists
    quota,     \* quota[k]: the counter
    emergency, \* emergency[p][r]: process p's degraded window of rule r
    billing,   \* <<request, kind>> records in the billing dead-letter list
    events,    \* requests whose usage event was enqueued
    crashed,   \* processes that crashed
    faults,    \* faults so far
    refilled,  \* history: tokens time put back into a bucket
    over       \* history: settled usage above the estimate, per quota

reqVars == <<pc, rules, todo, got, lost, usage, resv>>
redisVars == <<members, tokens, opened, quota, refilled, over>>
logVars == <<emergency, billing, events, crashed>>
vars == <<pc, rules, todo, got, lost, usage, resv, members, tokens, opened,
          quota, emergency, billing, events, crashed, faults, refilled, over>>

\* The phases that walk over gates.
Walk == {"check", "undoCheck", "undoQuota", "release", "settleTpm"}
Ended == {"denied", "abandoned", "done"}
States == Walk \cup Ended \cup
          {"new", "quota", "count", "upstream", "stream", "settleQuota", "enqueue"}

TypeOK ==
    /\ pc \in [Requests -> States]
    /\ rules \in [Requests -> {{}, Gates}]
    /\ todo \in [Requests -> SUBSET Gates]
    /\ got \in [Requests -> SUBSET Gates]
    /\ lost \in [Requests -> SUBSET Gates]
    /\ usage \in [Requests -> Nat]
    /\ resv \in [Requests -> SUBSET Quotas]
    /\ members \in [Rpm \cup Conc -> SUBSET Requests]
    /\ tokens \in [Tpm -> Int]
    /\ \A g \in Tpm : tokens[g] <= Limit[g]
    /\ opened \in SUBSET Tpm
    /\ quota \in [Quotas -> Int]
    /\ emergency \in [Procs -> [Rules -> Nat]]
    /\ billing \in SUBSET (Requests \X {"quota_settle", "tpm_settle"})
    /\ events \in SUBSET Requests
    /\ crashed \in SUBSET Procs
    /\ faults \in 0..MaxFaults
    /\ refilled \in [Tpm -> Nat]
    /\ over \in [Quotas -> Nat]

Init ==
    /\ pc = [q \in Requests |-> "new"]
    /\ rules = [q \in Requests |-> {}]
    /\ todo = [q \in Requests |-> {}]
    /\ got = [q \in Requests |-> {}]
    /\ lost = [q \in Requests |-> {}]
    /\ usage = [q \in Requests |-> 0]
    /\ resv = [q \in Requests |-> {}]
    /\ members = [g \in Rpm \cup Conc |-> {}]
    /\ tokens = [g \in Tpm |-> Limit[g]]
    /\ opened = {}
    /\ quota = [k \in Quotas |-> 0]
    /\ emergency = [p \in Procs |-> [r \in Rules |-> 0]]
    /\ billing = {}
    /\ events = {}
    /\ crashed = {}
    /\ faults = 0
    /\ refilled = [g \in Tpm |-> 0]
    /\ over = [k \in Quotas |-> 0]

-----------------------------------------------------------------------------
(* Control helpers.                                                         *)

Live(q) == ProcOf[q] \notin crashed
At(q, state) == Live(q) /\ pc[q] = state

\* The order of a phase: check_rate_limits visits rule by rule, the rollbacks
\* and settle loops visit one kind of limit after the other.
Precedes(phase, g, h) ==
    LET rank == IF phase = "undoQuota"
                THEN [tpm |-> 0, rpm |-> 1, conc |-> 2]
                ELSE [rpm |-> 0, tpm |-> 1, conc |-> 2]
    IN  IF phase = "check"
        THEN g.rule < h.rule \/ (g.rule = h.rule /\ rank[g.kind] <= rank[h.kind])
        ELSE rank[g.kind] < rank[h.kind] \/ (g.kind = h.kind /\ g.rule <= h.rule)

IsNext(q, g) == g \in todo[q] /\ \A h \in todo[q] : Precedes(pc[q], g, h)

\* finalize_gateway_request starts with _settle_quota, which has nothing to do
\* without reservations.
Finalizing(q) == IF resv[q] = {} THEN "enqueue" ELSE "settleQuota"

After(q, phase) ==
    CASE phase = "check" -> "quota"
      [] phase \in {"undoCheck", "undoQuota"} -> "denied"
      [] phase = "release" -> Finalizing(q)
      [] phase = "settleTpm" -> "done"

Begin(q, phase, gates) ==
    /\ todo' = [todo EXCEPT ![q] = gates]
    /\ pc' = [pc EXCEPT ![q] = IF gates = {} THEN After(q, phase) ELSE phase]

\* The current phase goes on with the gates in rest.
Continue(q, rest) == Begin(q, pc[q], rest)

\* A fault at one of the points
\*   "db"      the rule lookup raises and fails open,
\*   "check"   a gate script of check_rate_limits raises,
\*   "undo"    a command of a rollback or of release_concurrent raises,
\*   "quota"   the quota script raises before it ran,
\*   "count"   a command after the quota script reserved raises,
\*   "router"  no litellm router has been built,
\*   "client"  the client goes before its stream generator starts,
\*   "settle"  a command of the final settlement raises,
\*   "crash"   a gateway process dies.
Fault(point) ==
    /\ point \in FaultPoints
    /\ faults < MaxFaults
    /\ faults' = faults + 1

-----------------------------------------------------------------------------
(* The Lua scripts.                                                         *)

\* Mutant of Expired: a stale timeout no longer than a stream.
ExpiredWhileStreaming(g) == members[g]

\* Entries a script finds expired: RPM entries after a minute; concurrency
\* entries only when their request ended or died, because the stale timeout
\* (2100 s) outlives the longest stream (1800 s).
Expired(g) ==
    IF g \in Rpm THEN members[g]
    ELSE {q \in members[g] : pc[q] \in Ended \/ ~Live(q)}

\* _LUA_RPM_CHECK and _LUA_CONCURRENT_CHECK.
ZsetScript(q, g, ok) ==
    /\ g \in Rpm \cup Conc
    /\ \E old \in SUBSET Expired(g) :
         LET kept == members[g] \ old
         IN  /\ ok = (Cardinality(kept) < Limit[g])
             /\ members' = [members EXCEPT ![g] = IF ok THEN kept \cup {q} ELSE kept]
    /\ UNCHANGED <<tokens, opened, refilled>>

\* _LUA_TPM_CHECK: the refill is only stored when the request is admitted.
BucketScript(q, g, ok) ==
    /\ g \in Tpm
    /\ \E r \in 0..(MaxRefill - refilled[g]) :
         LET level == Min({Limit[g], tokens[g] + r})
         IN  /\ ok = (level >= Estimate[q])
             /\ tokens' = [tokens EXCEPT ![g] = IF ok THEN level - Estimate[q] ELSE @]
             /\ refilled' = [refilled EXCEPT ![g] = IF ok THEN @ + level - tokens[g] ELSE @]
             /\ opened' = IF ok THEN opened \cup {g} ELSE opened
    /\ UNCHANGED members

GateScript(q, g, ok) == ZsetScript(q, g, ok) \/ BucketScript(q, g, ok)

\* _LUA_TPM_SETTLE: a signed change, capped at the limit; nothing happens when
\* the bucket's key is gone.
Credit(g, delta) ==
    tokens' = IF g \in opened
              THEN [tokens EXCEPT ![g] = Min({Limit[g], @ + delta})]
              ELSE tokens

\* release_rpm, release_concurrent and a refunding settle_tpm, for one gate.
GiveBack(q, g) ==
    IF g \in Tpm
    THEN Credit(g, Estimate[q]) /\ UNCHANGED members
    ELSE members' = [members EXCEPT ![g] = @ \ {q}] /\ UNCHANGED tokens

Reserve(q, k) == IF Metric[k] = "requests" THEN 1 ELSE Max({1, Estimate[q]})

\* Mutant of Adjustment: compensation forgets the flat reservation of a
\* requests quota.
AdjustmentByTokens(q, k) == IF Metric[k] = "requests" THEN 0 ELSE usage[q] - Reserve(q, k)

\* compensate_reservations when nothing was used, else settle_reservations.
Adjustment(q, k) ==
    IF usage[q] = 0 THEN - Reserve(q, k)
    ELSE IF Metric[k] = "requests" THEN 0
    ELSE usage[q] - Reserve(q, k)

Adjust(q, k) ==
    /\ quota' = [quota EXCEPT ![k] = @ + Adjustment(q, k)]
    /\ over' = [over EXCEPT ![k] = @ + Max({0, Adjustment(q, k)})]

-----------------------------------------------------------------------------
(* Admission.                                                               *)

\* get_rate_limit_rules: a failed lookup yields no rules.
Arrive(q) ==
    /\ At(q, "new")
    /\ \/ rules' = [rules EXCEPT ![q] = Gates] /\ UNCHANGED faults
       \/ rules' = [rules EXCEPT ![q] = {}] /\ Fault("db")
    /\ Begin(q, "check", {g \in rules'[q] : g \in Conc => q \in Stream})
    /\ UNCHANGED <<got, lost, usage, resv, redisVars, logVars>>

\* Mutant of CheckGate: the rollback of a denial forgets the RPM window.
CheckGateKeepsRpm(q, g) ==
    /\ At(q, "check") /\ IsNext(q, g)
    /\ \E ok \in BOOLEAN :
         /\ GateScript(q, g, ok)
         /\ IF ok
            THEN /\ got' = [got EXCEPT ![q] = @ \cup {g}]
                 /\ Continue(q, todo[q] \ {g})
            ELSE UNCHANGED got /\ Begin(q, "undoCheck", got[q] \ Rpm)
    /\ UNCHANGED <<rules, lost, usage, resv, quota, over, logVars, faults>>

\* One gate of check_rate_limits; a denial returns what was acquired, the
\* concurrency slots of all rules when any was.
CheckGate(q, g) ==
    /\ At(q, "check") /\ IsNext(q, g)
    /\ \E ok \in BOOLEAN :
         /\ GateScript(q, g, ok)
         /\ IF ok
            THEN /\ got' = [got EXCEPT ![q] = @ \cup {g}]
                 /\ Continue(q, todo[q] \ {g})
            ELSE /\ UNCHANGED got
                 /\ Begin(q, "undoCheck",
                          (got[q] \ Conc) \cup (IF got[q] \cap Conc = {} THEN {} ELSE Conc))
    /\ UNCHANGED <<rules, lost, usage, resv, quota, over, logVars, faults>>

\* _emergency_admit: all subjects of the rules are checked, then all counted.
\* fresh are the subjects whose stored window is not the current one.
EmergencyAdmit(p, admitted) ==
    \E fresh \in SUBSET Rules :
      LET count == [r \in Rules |-> IF r \in fresh THEN 0 ELSE emergency[p][r]]
          cap(r) == LET own == {g \in Rpm : g.rule = r}
                    IN  IF own = {} THEN EmergencyCap ELSE Limit[CHOOSE g \in own : TRUE]
      IN  /\ admitted = (\A r \in Rules : count[r] < cap(r))
          /\ emergency' = IF admitted
                          THEN [emergency EXCEPT ![p] = [r \in Rules |-> count[r] + 1]]
                          ELSE emergency

\* A gate script raises, before or after it took effect: the process-local
\* limiter decides, and nothing acquired so far is returned.
CheckRaises(q, g) ==
    /\ At(q, "check") /\ IsNext(q, g) /\ Fault("check")
    /\ \/ /\ GateScript(q, g, TRUE)
          /\ got' = [got EXCEPT ![q] = @ \cup {g}]
       \/ UNCHANGED <<got, members, tokens, opened, refilled>>
    /\ \E admitted \in BOOLEAN :
         /\ EmergencyAdmit(ProcOf[q], admitted)
         /\ pc' = [pc EXCEPT ![q] = IF admitted THEN "quota" ELSE "denied"]
         /\ lost' = IF admitted THEN lost ELSE [lost EXCEPT ![q] = got'[q]]
    /\ todo' = [todo EXCEPT ![q] = {}]
    /\ UNCHANGED <<rules, usage, resv, quota, over, billing, events, crashed>>

\* Mutant of CheckQuota: compares the counters before the increment.
CheckQuotaBefore(q) ==
    /\ At(q, "quota")
    /\ IF \E k \in Enforced : quota[k] >= QLimit[k]
       THEN /\ Begin(q, "undoQuota", rules[q])
            /\ UNCHANGED <<resv, quota>>
       ELSE /\ quota' = [k \in Quotas |-> quota[k] + Reserve(q, k)]
            /\ resv' = [resv EXCEPT ![q] = Quotas]
            /\ pc' = [pc EXCEPT ![q] = "count"]
            /\ UNCHANGED todo
    /\ UNCHANGED <<rules, got, lost, usage, members, tokens, opened, refilled, over,
                   logVars, faults>>

\* check_quota: the script reserves on every counter or on none; a refusal
\* makes the router roll the rate limits of all rules back.
CheckQuota(q) ==
    /\ At(q, "quota")
    /\ IF \E k \in Enforced : quota[k] + Reserve(q, k) > QLimit[k]
       THEN /\ Begin(q, "undoQuota", rules[q])
            /\ UNCHANGED <<resv, quota>>
       ELSE /\ quota' = [k \in Quotas |-> quota[k] + Reserve(q, k)]
            /\ resv' = [resv EXCEPT ![q] = Quotas]
            /\ pc' = [pc EXCEPT ![q] = "count"]
            /\ UNCHANGED todo
    /\ UNCHANGED <<rules, got, lost, usage, members, tokens, opened, refilled, over,
                   logVars, faults>>

\* The quota script fails: the request is refused with 503 after the rollback.
CheckQuotaRaises(q) ==
    /\ At(q, "quota") /\ Fault("quota")
    /\ Begin(q, "undoQuota", rules[q])
    /\ UNCHANGED <<rules, got, lost, usage, resv, redisVars, logVars>>

\* The counters are read once more for the soft-limit warnings.
ReadCounts(q) ==
    /\ At(q, "count")
    /\ pc' = [pc EXCEPT ![q] = "upstream"]
    /\ UNCHANGED <<rules, todo, got, lost, usage, resv, redisVars, logVars, faults>>

\* That read raises: 503 and the rollback of the rate limits only.
ReadCountsRaises(q) ==
    /\ At(q, "count") /\ Fault("count")
    /\ Begin(q, "undoQuota", rules[q])
    /\ UNCHANGED <<rules, got, lost, usage, resv, redisVars, logVars>>

\* One command of a rollback, or of release_concurrent after a stream.
Return(q, g) ==
    /\ \E phase \in {"undoCheck", "undoQuota", "release"} : At(q, phase)
    /\ IsNext(q, g)
    /\ GiveBack(q, g)
    /\ Continue(q, todo[q] \ {g})
    /\ UNCHANGED <<rules, got, lost, usage, resv, opened, quota, refilled, over,
                   logVars, faults>>

\* It raises, before or after it took effect: the error is suppressed and the
\* remaining gates of that kind are skipped.
ReturnRaises(q, g) ==
    /\ \E phase \in {"undoCheck", "undoQuota", "release"} : At(q, phase)
    /\ IsNext(q, g) /\ Fault("undo")
    /\ LET skipped == {h \in todo[q] : h.kind = g.kind}
       IN  /\ \/ GiveBack(q, g) /\ lost' = [lost EXCEPT ![q] = @ \cup (got[q] \cap (skipped \ {g}))]
              \/ UNCHANGED <<members, tokens>>
                 /\ lost' = [lost EXCEPT ![q] = @ \cup (got[q] \cap skipped)]
           /\ Continue(q, todo[q] \ skipped)
    /\ UNCHANGED <<rules, got, usage, resv, opened, quota, refilled, over, logVars>>

-----------------------------------------------------------------------------
(* The upstream call and the stream.                                        *)

Finalize(q, total) ==
    /\ usage' = [usage EXCEPT ![q] = total]
    /\ pc' = [pc EXCEPT ![q] = Finalizing(q)]
    /\ UNCHANGED todo

\* A response from the cache or from the upstream call, not streamed.
Respond(q) ==
    /\ At(q, "upstream") /\ q \notin Stream
    /\ \E total \in Usages : Finalize(q, total)
    /\ UNCHANGED <<rules, got, lost, resv, redisVars, logVars, faults>>

\* The upstream call raises: the handler finalizes with zero usage.
CallRaises(q) ==
    /\ At(q, "upstream")
    /\ Finalize(q, 0)
    /\ UNCHANGED <<rules, got, lost, resv, redisVars, logVars, faults>>

StartStream(q) ==
    /\ At(q, "upstream") /\ q \in Stream
    /\ pc' = [pc EXCEPT ![q] = "stream"]
    /\ UNCHANGED <<rules, todo, got, lost, usage, resv, redisVars, logVars, faults>>

\* RouterManager.get_router raises outside every try, or the client is gone
\* before the generator starts: no cleanup code runs.
Abandon(q) ==
    /\ At(q, "upstream")
    /\ Fault("router") \/ (q \in Stream /\ Fault("client"))
    /\ pc' = [pc EXCEPT ![q] = "abandoned"]
    /\ UNCHANGED <<rules, todo, got, lost, usage, resv, redisVars, logVars>>

\* Mutant of EndStream: the finalizer settles and never releases the slots.
EndStreamKeepsSlot(q) ==
    /\ At(q, "stream")
    /\ \E total \in Usages : Finalize(q, total)
    /\ UNCHANGED <<rules, got, lost, resv, redisVars, logVars, faults>>

\* The stream ends, times out, breaks or is cancelled; the shielded
\* _finalize_stream releases the slots before it settles.
EndStream(q) ==
    /\ At(q, "stream")
    /\ \E total \in Usages : usage' = [usage EXCEPT ![q] = total]
    /\ Begin(q, "release", rules[q] \cap Conc)
    /\ UNCHANGED <<rules, got, lost, resv, redisVars, logVars, faults>>

-----------------------------------------------------------------------------
(* The finalizer.                                                           *)

\* Mutant of SettleQuota: a counter that needs no adjustment is never left.
SettleQuotaSticks(q, k) ==
    /\ At(q, "settleQuota") /\ k \in resv[q] /\ Adjustment(q, k) # 0
    /\ Adjust(q, k)
    /\ resv' = [resv EXCEPT ![q] = @ \ {k}]
    /\ pc' = [pc EXCEPT ![q] = IF resv[q] = {k} THEN "enqueue" ELSE @]
    /\ UNCHANGED <<rules, todo, got, lost, usage, members, tokens, opened, refilled,
                   logVars, faults>>

\* _settle_quota, one counter.
SettleQuota(q, k) ==
    /\ At(q, "settleQuota") /\ k \in resv[q]
    /\ Adjust(q, k)
    /\ resv' = [resv EXCEPT ![q] = @ \ {k}]
    /\ pc' = [pc EXCEPT ![q] = IF resv[q] = {k} THEN "enqueue" ELSE @]
    /\ UNCHANGED <<rules, todo, got, lost, usage, members, tokens, opened, refilled,
                   logVars, faults>>

\* Mutant of SettleQuotaRaises: the failure is suppressed.
SettleQuotaSwallows(q, k) ==
    /\ At(q, "settleQuota") /\ k \in resv[q] /\ Fault("settle")
    /\ pc' = [pc EXCEPT ![q] = "enqueue"]
    /\ UNCHANGED <<rules, todo, got, lost, usage, resv, redisVars, logVars>>

\* A command of _settle_quota raises: the remaining counters are skipped and
\* the failure goes to the billing dead-letter list.
SettleQuotaRaises(q, k) ==
    /\ At(q, "settleQuota") /\ k \in resv[q] /\ Fault("settle")
    /\ \/ Adjust(q, k) /\ resv' = [resv EXCEPT ![q] = @ \ {k}]
       \/ UNCHANGED <<quota, over, resv>>
    /\ billing' = billing \cup {<<q, "quota_settle">>}
    /\ pc' = [pc EXCEPT ![q] = "enqueue"]
    /\ UNCHANGED <<rules, todo, got, lost, usage, members, tokens, opened, refilled,
                   emergency, events, crashed>>

\* Mutant of EnqueueUsage: only refunds are settled, never an overage.
EnqueueUsageRefundsOnly(q) ==
    /\ At(q, "enqueue")
    /\ events' = events \cup {q}
    /\ Begin(q, "settleTpm", IF usage[q] >= Estimate[q] THEN {} ELSE rules[q] \cap Tpm)
    /\ UNCHANGED <<rules, got, lost, usage, resv, redisVars, emergency, billing, crashed,
                   faults>>

\* _enqueue_usage, then _settle_tpm over the TPM limits of all rules, which a
\* zero difference skips.
EnqueueUsage(q) ==
    /\ At(q, "enqueue")
    /\ events' = events \cup {q}
    /\ Begin(q, "settleTpm", IF usage[q] = Estimate[q] THEN {} ELSE rules[q] \cap Tpm)
    /\ UNCHANGED <<rules, got, lost, usage, resv, redisVars, emergency, billing, crashed,
                   faults>>

SettleTpm(q, g) ==
    /\ At(q, "settleTpm") /\ IsNext(q, g)
    /\ Credit(g, Estimate[q] - usage[q])
    /\ Continue(q, todo[q] \ {g})
    /\ UNCHANGED <<rules, got, lost, usage, resv, members, opened, quota, refilled, over,
                   logVars, faults>>

SettleTpmRaises(q, g) ==
    /\ At(q, "settleTpm") /\ IsNext(q, g) /\ Fault("settle")
    /\ \/ /\ Credit(g, Estimate[q] - usage[q])
          /\ lost' = [lost EXCEPT ![q] = @ \cup (got[q] \cap (todo[q] \ {g}))]
       \/ UNCHANGED tokens /\ lost' = [lost EXCEPT ![q] = @ \cup (got[q] \cap todo[q])]
    /\ billing' = billing \cup {<<q, "tpm_settle">>}
    /\ Continue(q, {})
    /\ UNCHANGED <<rules, got, usage, resv, members, opened, quota, refilled, over,
                   emergency, events, crashed>>

Crash(p) ==
    /\ p \notin crashed /\ Fault("crash")
    /\ crashed' = crashed \cup {p}
    /\ UNCHANGED <<reqVars, redisVars, emergency, billing, events>>

\* The key of an idle bucket expires: its TTL outlives every request and the
\* time a debt needs to refill, so the level was back at the limit.
BucketExpires(g) ==
    /\ g \in opened
    /\ \A q \in Requests : Live(q) => pc[q] \in Ended \cup {"new"}
    /\ refilled[g] + Limit[g] - tokens[g] <= MaxRefill
    /\ tokens' = [tokens EXCEPT ![g] = Limit[g]]
    /\ refilled' = [refilled EXCEPT ![g] = @ + Limit[g] - tokens[g]]
    /\ opened' = opened \ {g}
    /\ UNCHANGED <<reqVars, members, quota, over, logVars, faults>>

-----------------------------------------------------------------------------
\* A step the handler of q takes on its own.
Handle(q) ==
    \/ Arrive(q)
    \/ \E g \in Gates : CheckGate(q, g) \/ Return(q, g) \/ SettleTpm(q, g)
    \/ CheckQuota(q)
    \/ ReadCounts(q)
    \/ Respond(q)
    \/ CallRaises(q)
    \/ StartStream(q)
    \/ EndStream(q)
    \/ \E k \in Quotas : SettleQuota(q, k)
    \/ EnqueueUsage(q)

Fail(q) ==
    \/ \E g \in Gates : CheckRaises(q, g) \/ ReturnRaises(q, g) \/ SettleTpmRaises(q, g)
    \/ CheckQuotaRaises(q)
    \/ ReadCountsRaises(q)
    \/ Abandon(q)
    \/ \E k \in Quotas : SettleQuotaRaises(q, k)

Next ==
    \/ \E q \in Requests : Handle(q) \/ Fail(q)
    \/ \E p \in Procs : Crash(p)
    \/ \E g \in Tpm : BucketExpires(g)

Spec == Init /\ [][Next]_vars

\* The event loop resumes every ready handler, every Redis command and
\* upstream call has a timeout, and a stream ends after
\* _STREAM_MAX_DURATION_SECONDS at the latest.
FairSpec == Spec /\ \A q \in Requests : WF_vars(Handle(q))

-----------------------------------------------------------------------------
(* Properties.                                                              *)

\* What request q owes the bucket of g: its estimate until it is settled, its
\* usage from then on, nothing once a rollback returned it.
TpmCharge(q, g) ==
    IF g \notin got[q] THEN 0
    ELSE IF g \in lost[q] \cup todo[q] THEN Estimate[q]
    ELSE CASE pc[q] \in {"undoCheck", "undoQuota", "denied"} -> 0
           [] pc[q] \in {"settleTpm", "done"} -> usage[q]
           [] OTHER -> Estimate[q]

TpmCharges(g) == MapThenSumSet(LAMBDA q : TpmCharge(q, g), Requests)

\* No bucket holds more than its limit plus what time refilled, minus what the
\* requests that passed it reserved or used, nor less than without the refill:
\* every reservation of tokens is returned or reconciled with the real usage
\* exactly once, however refills, refunds, failures and crashes interleave.
TpmBalanced ==
    \A g \in Tpm :
        /\ tokens[g] <= Limit[g] - TpmCharges(g) + refilled[g]
        /\ tokens[g] >= Limit[g] - TpmCharges(g)

\* What request q has added to the counter of k.
QuotaCharge(q, k) ==
    IF k \in resv[q] THEN Reserve(q, k)
    ELSE IF usage[q] = 0 THEN 0
    ELSE IF Metric[k] = "requests" THEN 1
    ELSE usage[q]

\* Every quota counter is the sum of the open reservations and of the real
\* usage of the settled requests ("Reservation and settlement always balance on
\* the same counter"), also after failed settlements and crashes.
QuotaBalanced ==
    \A k \in Quotas : quota[k] = MapThenSumSet(LAMBDA q : QuotaCharge(q, k), Requests)

\* An enforced counter exceeds its limit by no more than the usage that settled
\* requests had above their estimates; concurrency adds nothing to it.
OvershootBounded == \A k \in Enforced : quota[k] <= QLimit[k] + over[k]

\* Requests that hold a slot of g and are at work upstream.
Streaming(g) == {q \in Stream : /\ Live(q)
                                /\ pc[q] \in {"upstream", "stream"}
                                /\ g \in got[q]}

\* No more than max_concurrent streams that passed a concurrency gate run at the
\* same time: no rollback, release or stale eviction frees the slot of another
\* request's running stream.
ConcurrencyBound == \A g \in Conc : Cardinality(Streaming(g)) <= Limit[g]

\* A request turned away with 429 or 503 occupies no RPM entry and no slot,
\* apart from those a failed Redis command left behind.
DeniedHoldsNothing ==
    \A q \in Requests : pc[q] = "denied" =>
        \A g \in (Rpm \cup Conc) \ lost[q] : q \notin members[g]

\* When a stream that reported usage is being settled, its slots are free, unless
\* release_concurrent itself failed: a failing settlement cannot keep them.
StreamReleasesSlot ==
    \A q \in Stream :
        (usage[q] > 0 /\ pc[q] \in {"settleQuota", "enqueue", "settleTpm", "done"}) =>
            \A g \in Conc \ lost[q] : q \notin members[g]

\* No request ends with an open quota reservation, or an unsettled TPM
\* reservation, that is not on record in the billing dead-letter list.
SettledOrRecorded ==
    \A q \in Requests :
        /\ pc[q] \in Ended /\ resv[q] # {} => <<q, "quota_settle">> \in billing
        /\ pc[q] = "done" /\ lost[q] \cap Tpm # {} => <<q, "tpm_settle">> \in billing

\* Every request that arrives is answered and finalized, unless its process
\* crashes.
EveryRequestEnds ==
    \A q \in Requests : pc[q] # "new" ~> (pc[q] \in Ended \/ ~Live(q))

=============================================================================
