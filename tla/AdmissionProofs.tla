-------------------------- MODULE AdmissionProofs --------------------------
(***************************************************************************)
(* Theorems about Admission, for any requests, rules, quotas and faults:   *)
(* type correctness, the bound on an enforced quota's overshoot, the bound *)
(* on concurrent streams, what denied and settled requests still hold, and *)
(* the balance of the quota counters and of the token buckets.             *)
(***************************************************************************)
EXTENDS Admission, TLAPS, FiniteSetTheorems, WellFoundedInduction

USE DEF Rpm, Tpm, Conc

-----------------------------------------------------------------------------
(* The helpers of the model.                                                *)

\* The smaller of two integers, as _LUA_TPM_CHECK and _LUA_TPM_SETTLE cap a
\* bucket at its limit.
LEMMA MinOfTwo ==
    ASSUME NEW a \in Int, NEW b \in Int
    PROVE  /\ Min({a, b}) \in {a, b}
           /\ Min({a, b}) <= a
           /\ Min({a, b}) <= b
  <1>1. \E x \in {a, b} : \A y \in {a, b} : x <= y
    <2>1. CASE a <= b
      BY <2>1
    <2>2. CASE b <= a
      BY <2>2
    <2>3. QED
      BY <2>1, <2>2
  <1>2. /\ Min({a, b}) \in {a, b}
        /\ \A y \in {a, b} : Min({a, b}) <= y
    BY <1>1 DEF Min
  <1>3. QED
    BY <1>2

\* The larger of two integers, as a floor on an amount.
LEMMA MaxOfTwo ==
    ASSUME NEW a \in Int, NEW b \in Int
    PROVE  /\ Max({a, b}) \in {a, b}
           /\ Max({a, b}) >= a
           /\ Max({a, b}) >= b
  <1>1. \E x \in {a, b} : \A y \in {a, b} : x >= y
    <2>1. CASE a <= b
      BY <2>1
    <2>2. CASE b <= a
      BY <2>2
    <2>3. QED
      BY <2>1, <2>2
  <1>2. /\ Max({a, b}) \in {a, b}
        /\ \A y \in {a, b} : Max({a, b}) >= y
    BY <1>1 DEF Max
  <1>3. QED
    BY <1>2

\* A phase that begins or goes on leaves the handler's control state typed.
LEMMA BeginTyped ==
    ASSUME TypeOK, NEW q \in Requests, NEW phase \in Walk, NEW gates \in SUBSET Gates,
           Begin(q, phase, gates)
    PROVE  pc' \in [Requests -> States] /\ todo' \in [Requests -> SUBSET Gates]
  <1>1. After(q, phase) \in States
    BY DEF After, Walk, States, Ended, Finalizing
  <1>2. phase \in States
    BY DEF States
  <1>3. QED
    BY <1>1, <1>2 DEF Begin, TypeOK

\* A signed credit keeps a bucket an integer no larger than its limit.
LEMMA CreditTyped ==
    ASSUME TypeOK, NEW g \in Gates, NEW delta \in Int, Credit(g, delta)
    PROVE  tokens' \in [Tpm -> Int] /\ \A h \in Tpm : tokens'[h] <= Limit[h]
  <1>1. CASE g \in opened
    <2>1. Limit[g] \in Int /\ tokens[g] + delta \in Int
      BY <1>1, LimitsAssumption DEF TypeOK
    <2>2. /\ Min({Limit[g], tokens[g] + delta}) \in Int
          /\ Min({Limit[g], tokens[g] + delta}) <= Limit[g]
      BY <2>1, MinOfTwo
    <2>3. QED
      BY <1>1, <2>2 DEF Credit, TypeOK
  <1>2. CASE g \notin opened
    BY <1>2 DEF Credit, TypeOK
  <1>3. QED
    BY <1>1, <1>2

LEMMA GiveBackTyped ==
    ASSUME TypeOK, NEW q \in Requests, NEW g \in Gates, GiveBack(q, g)
    PROVE  /\ tokens' \in [Tpm -> Int]
           /\ \A h \in Tpm : tokens'[h] <= Limit[h]
           /\ members' \in [Rpm \cup Conc -> SUBSET Requests]
  <1>1. CASE g \in Tpm
    <2>1. Estimate[q] \in Int
      BY RequestsAssumption
    <2>2. QED
      BY <1>1, <2>1, CreditTyped DEF GiveBack, TypeOK
  <1>2. CASE g \notin Tpm
    BY <1>2 DEF GiveBack, TypeOK
  <1>3. QED
    BY <1>1, <1>2

\* A gate script keeps the sorted sets and the buckets typed, and time only
\* ever adds tokens.
LEMMA GateScriptTyped ==
    ASSUME TypeOK, NEW q \in Requests, NEW g \in Gates, NEW ok \in BOOLEAN,
           GateScript(q, g, ok)
    PROVE  /\ tokens' \in [Tpm -> Int]
           /\ \A h \in Tpm : tokens'[h] <= Limit[h]
           /\ members' \in [Rpm \cup Conc -> SUBSET Requests]
           /\ opened' \in SUBSET Tpm
           /\ refilled' \in [Tpm -> Nat]
  <1>1. CASE ZsetScript(q, g, ok)
    <2>1. PICK old \in SUBSET Expired(g) :
             members' = [members EXCEPT ![g] = IF ok THEN (members[g] \ old) \cup {q}
                                                     ELSE members[g] \ old]
      BY <1>1 DEF ZsetScript
    <2>2. members' \in [Rpm \cup Conc -> SUBSET Requests]
      BY <1>1, <2>1 DEF ZsetScript, TypeOK
    <2>3. QED
      BY <1>1, <2>2 DEF ZsetScript, TypeOK
  <1>2. CASE BucketScript(q, g, ok)
    <2> DEFINE level(r) == Min({Limit[g], tokens[g] + r})
    <2>1. g \in Tpm /\ Limit[g] \in Int /\ tokens[g] \in Int /\ Estimate[q] \in Nat
      BY <1>2, LimitsAssumption, RequestsAssumption DEF BucketScript, TypeOK
    <2>2. PICK r \in 0..(MaxRefill - refilled[g]) :
             /\ tokens' = [tokens EXCEPT ![g] = IF ok THEN level(r) - Estimate[q] ELSE @]
             /\ refilled' = [refilled EXCEPT ![g] = IF ok THEN @ + level(r) - tokens[g] ELSE @]
             /\ opened' = IF ok THEN opened \cup {g} ELSE opened
      BY <1>2 DEF BucketScript
    <2>3. MaxRefill - refilled[g] \in Int /\ refilled[g] \in Nat
      BY <2>1, BoundsAssumption DEF TypeOK
    <2>4. r \in Nat
      BY <2>2, <2>3
    <2>5. tokens[g] <= Limit[g]
      BY <2>1 DEF TypeOK
    <2>6. level(r) \in Int /\ level(r) <= Limit[g] /\ level(r) >= tokens[g]
      <3>1. tokens[g] + r \in Int /\ tokens[g] + r >= tokens[g]
        BY <2>1, <2>4
      <3>2. /\ level(r) \in {Limit[g], tokens[g] + r}
            /\ level(r) <= Limit[g]
        BY <2>1, <3>1, MinOfTwo
      <3> HIDE DEF level
      <3>3. QED
        BY <2>1, <2>5, <3>1, <3>2
    <2> HIDE DEF level
    <2>7. tokens' \in [Tpm -> Int] /\ \A h \in Tpm : tokens'[h] <= Limit[h]
      BY <2>1, <2>2, <2>6, LimitsAssumption DEF TypeOK
    <2>8. refilled' \in [Tpm -> Nat]
      BY <2>1, <2>2, <2>3, <2>6 DEF TypeOK
    <2>9. QED
      BY <1>2, <2>1, <2>2, <2>7, <2>8 DEF BucketScript, TypeOK
  <1>3. QED
    BY <1>1, <1>2 DEF GateScript

LEMMA ReserveType ==
    ASSUME NEW q \in Requests, NEW k \in Quotas
    PROVE  Reserve(q, k) \in Nat \ {0}
  <1>1. Estimate[q] \in Nat \ {0} /\ Estimate[q] \in Int /\ 1 \in Int
    BY RequestsAssumption
  <1>2. Max({1, Estimate[q]}) \in {1, Estimate[q]}
    BY <1>1, MaxOfTwo, Zenon
  <1>3. QED
    BY <1>1, <1>2 DEF Reserve

LEMMA AdjustmentType ==
    ASSUME TypeOK, NEW q \in Requests, NEW k \in Quotas
    PROVE  Adjustment(q, k) \in Int
  BY ReserveType DEF Adjustment, TypeOK

\* Settling moves the counter up by no more than what over records.
LEMMA AdjustTyped ==
    ASSUME TypeOK, NEW q \in Requests, NEW k \in Quotas, Adjust(q, k)
    PROVE  /\ quota' \in [Quotas -> Int]
           /\ over' \in [Quotas -> Nat]
           /\ quota'[k] - over'[k] <= quota[k] - over[k]
           /\ \A j \in Quotas \ {k} : quota'[j] = quota[j] /\ over'[j] = over[j]
  <1> DEFINE a == Adjustment(q, k)
             m == Max({0, Adjustment(q, k)})
  <1>1. a \in Int /\ m \in Nat /\ a <= m
    <2>1. a \in Int
      BY AdjustmentType
    <2>2. m \in {0, a} /\ m >= 0 /\ m >= a
      BY <2>1, MaxOfTwo
    <2>3. QED
      BY <2>1, <2>2
  <1>2. /\ quota' = [quota EXCEPT ![k] = @ + a]
        /\ over' = [over EXCEPT ![k] = @ + m]
    BY DEF Adjust
  <1> HIDE DEF a, m
  <1>3. QED
    BY <1>1, <1>2 DEF TypeOK

-----------------------------------------------------------------------------
(* Type correctness.                                                        *)

LEMMA InitTyped == Init => TypeOK
  BY RequestsAssumption, LimitsAssumption, BoundsAssumption DEF Init, TypeOK, States, Walk, Ended

\* The control part of TypeOK after a handler moves to one of its states.
LEMMA GotoTyped ==
    ASSUME TypeOK, NEW q \in Requests, NEW s \in States, pc' = [pc EXCEPT ![q] = s]
    PROVE  pc' \in [Requests -> States]
  BY DEF TypeOK

LEMMA FinalizingType ==
    ASSUME NEW q PROVE Finalizing(q) \in States
  BY DEF Finalizing, States

LEMMA FaultTyped ==
    ASSUME TypeOK, NEW point, Fault(point)
    PROVE  faults' \in 0..MaxFaults
  BY BoundsAssumption DEF Fault, TypeOK

LEMMA EmergencyTyped ==
    ASSUME TypeOK, NEW p \in Procs, NEW admitted \in BOOLEAN, EmergencyAdmit(p, admitted)
    PROVE  emergency' \in [Procs -> [Rules -> Nat]]
  <1>1. PICK fresh \in SUBSET Rules :
           emergency' = IF admitted
                        THEN [emergency EXCEPT ![p] =
                                [r \in Rules |->
                                   [s \in Rules |-> IF s \in fresh THEN 0 ELSE emergency[p][s]][r]
                                   + 1]]
                        ELSE emergency
    BY DEF EmergencyAdmit
  <1>2. QED
    BY <1>1 DEF TypeOK

LEMMA HandleTyped ==
    ASSUME TypeOK, NEW q \in Requests, Handle(q)
    PROVE  TypeOK'
  <1> USE DEF redisVars, logVars
  <1>1. CASE Arrive(q)
    <2>1. rules' \in [Requests -> {{}, Gates}] /\ faults' \in 0..MaxFaults
      BY <1>1, FaultTyped DEF Arrive, TypeOK
    <2>2. {g \in rules'[q] : g \in Conc => q \in Stream} \in SUBSET Gates
      BY <2>1
    <2>3. pc' \in [Requests -> States] /\ todo' \in [Requests -> SUBSET Gates]
      BY <1>1, <2>2, BeginTyped DEF Arrive, Walk
    <2>4. QED
      BY <1>1, <2>1, <2>3 DEF Arrive, TypeOK
  <1>2. ASSUME NEW g \in Gates, CheckGate(q, g)
        PROVE  TypeOK'
    <2>1. PICK ok \in BOOLEAN :
             /\ GateScript(q, g, ok)
             /\ IF ok
                THEN /\ got' = [got EXCEPT ![q] = @ \cup {g}]
                     /\ Continue(q, todo[q] \ {g})
                ELSE /\ UNCHANGED got
                     /\ Begin(q, "undoCheck",
                              (got[q] \ Conc) \cup (IF got[q] \cap Conc = {} THEN {} ELSE Conc))
      BY <1>2 DEF CheckGate
    <2>2. got' \in [Requests -> SUBSET Gates]
      BY <2>1 DEF TypeOK
    <2>3. pc' \in [Requests -> States] /\ todo' \in [Requests -> SUBSET Gates]
      <3>1. pc[q] = "check"
        BY <1>2 DEF CheckGate, At
      <3>2. CASE ok
        <4>1. todo[q] \ {g} \in SUBSET Gates
          BY DEF TypeOK
        <4>2. Begin(q, "check", todo[q] \ {g})
          BY <2>1, <3>1, <3>2 DEF Continue
        <4>3. QED
          BY <4>1, <4>2, BeginTyped DEF Walk
      <3>3. CASE ~ok
        <4>1. (got[q] \ Conc) \cup (IF got[q] \cap Conc = {} THEN {} ELSE Conc) \in SUBSET Gates
          BY DEF TypeOK
        <4>2. QED
          BY <2>1, <3>3, <4>1, BeginTyped DEF Walk
      <3>4. QED
        BY <3>2, <3>3
    <2>4. /\ tokens' \in [Tpm -> Int]
          /\ \A h \in Tpm : tokens'[h] <= Limit[h]
          /\ members' \in [Rpm \cup Conc -> SUBSET Requests]
          /\ opened' \in SUBSET Tpm
          /\ refilled' \in [Tpm -> Nat]
      BY <2>1, GateScriptTyped, Zenon
    <2>5. UNCHANGED <<rules, lost, usage, resv, quota, over, logVars, faults>>
      BY <1>2 DEF CheckGate
    <2>6. QED
      BY <2>2, <2>3, <2>4, <2>5 DEF TypeOK
  <1>3. ASSUME NEW g \in Gates, Return(q, g)
        PROVE  TypeOK'
    <2>1. pc[q] \in Walk /\ todo[q] \ {g} \in SUBSET Gates
      BY <1>3 DEF Return, At, Walk, TypeOK
    <2>2. pc' \in [Requests -> States] /\ todo' \in [Requests -> SUBSET Gates]
      BY <1>3, <2>1, BeginTyped DEF Return, Continue
    <2>3. QED
      BY <1>3, <2>2, GiveBackTyped DEF Return, TypeOK
  <1>4. ASSUME NEW g \in Gates, SettleTpm(q, g)
        PROVE  TypeOK'
    <2>1. pc[q] \in Walk /\ todo[q] \ {g} \in SUBSET Gates
      BY <1>4 DEF SettleTpm, At, Walk, TypeOK
    <2>2. pc' \in [Requests -> States] /\ todo' \in [Requests -> SUBSET Gates]
      BY <1>4, <2>1, BeginTyped DEF SettleTpm, Continue
    <2>3. tokens' \in [Tpm -> Int] /\ \A h \in Tpm : tokens'[h] <= Limit[h]
      <3>1. Estimate[q] - usage[q] \in Int
        BY RequestsAssumption DEF TypeOK
      <3>2. QED
        BY <1>4, <3>1, CreditTyped DEF SettleTpm
    <2>4. QED
      BY <1>4, <2>2, <2>3 DEF SettleTpm, TypeOK
  <1>5. CASE CheckQuota(q)
    <2>1. CASE \E k \in Enforced : quota[k] + Reserve(q, k) > QLimit[k]
      <3>1. Begin(q, "undoQuota", rules[q]) /\ rules[q] \in SUBSET Gates
        BY <1>5, <2>1 DEF CheckQuota, TypeOK
      <3>2. pc' \in [Requests -> States] /\ todo' \in [Requests -> SUBSET Gates]
        BY <3>1, BeginTyped DEF Walk
      <3>3. QED
        BY <1>5, <2>1, <3>2 DEF CheckQuota, TypeOK
    <2>2. CASE ~\E k \in Enforced : quota[k] + Reserve(q, k) > QLimit[k]
      <3>1. quota' \in [Quotas -> Int]
        BY <1>5, <2>2, ReserveType DEF CheckQuota, TypeOK
      <3>2. pc' \in [Requests -> States]
        BY <1>5, <2>2, GotoTyped DEF CheckQuota, States
      <3>3. QED
        BY <1>5, <2>2, <3>1, <3>2 DEF CheckQuota, TypeOK
    <2>3. QED
      BY <2>1, <2>2
  <1>6. CASE ReadCounts(q)
    BY <1>6 DEF ReadCounts, TypeOK, States
  <1>7. CASE Respond(q)
    BY <1>7, FinalizingType, RequestsAssumption DEF Respond, Finalize, TypeOK
  <1>8. CASE CallRaises(q)
    BY <1>8, FinalizingType DEF CallRaises, Finalize, TypeOK
  <1>9. CASE StartStream(q)
    BY <1>9 DEF StartStream, TypeOK, States
  <1>10. CASE EndStream(q)
    <2>1. usage' \in [Requests -> Nat] /\ rules[q] \cap Conc \in SUBSET Gates
      BY <1>10, RequestsAssumption DEF EndStream, TypeOK
    <2>2. pc' \in [Requests -> States] /\ todo' \in [Requests -> SUBSET Gates]
      BY <1>10, <2>1, BeginTyped DEF EndStream, Walk
    <2>3. QED
      BY <1>10, <2>1, <2>2 DEF EndStream, TypeOK
  <1>11. ASSUME NEW k \in Quotas, SettleQuota(q, k)
         PROVE  TypeOK'
    <2>1. quota' \in [Quotas -> Int] /\ over' \in [Quotas -> Nat]
      BY <1>11, AdjustTyped DEF SettleQuota
    <2>2. pc' \in [Requests -> States] /\ resv' \in [Requests -> SUBSET Quotas]
      BY <1>11 DEF SettleQuota, TypeOK, States
    <2>3. QED
      BY <1>11, <2>1, <2>2 DEF SettleQuota, TypeOK
  <1>12. CASE EnqueueUsage(q)
    <2> DEFINE gates == IF usage[q] = Estimate[q] THEN {} ELSE rules[q] \cap Tpm
    <2>1. Begin(q, "settleTpm", gates) /\ gates \in SUBSET Gates
      BY <1>12 DEF EnqueueUsage, TypeOK
    <2>2. pc' \in [Requests -> States] /\ todo' \in [Requests -> SUBSET Gates]
      BY <2>1, BeginTyped DEF Walk
    <2>3. QED
      BY <1>12, <2>2 DEF EnqueueUsage, TypeOK
  <1>13. QED
    BY <1>1, <1>2, <1>3, <1>4, <1>5, <1>6, <1>7, <1>8, <1>9, <1>10, <1>11, <1>12
       DEF Handle

LEMMA FailTyped ==
    ASSUME TypeOK, NEW q \in Requests, Fail(q)
    PROVE  TypeOK'
  <1> USE DEF redisVars, logVars
  <1>1. ASSUME NEW g \in Gates, CheckRaises(q, g)
        PROVE  TypeOK'
    <2>1. /\ tokens' \in [Tpm -> Int]
          /\ \A h \in Tpm : tokens'[h] <= Limit[h]
          /\ members' \in [Rpm \cup Conc -> SUBSET Requests]
          /\ opened' \in SUBSET Tpm
          /\ refilled' \in [Tpm -> Nat]
          /\ got' \in [Requests -> SUBSET Gates]
      <3>1. CASE GateScript(q, g, TRUE) /\ got' = [got EXCEPT ![q] = @ \cup {g}]
        BY <3>1, GateScriptTyped DEF TypeOK
      <3>2. CASE UNCHANGED <<got, members, tokens, opened, refilled>>
        BY <3>2 DEF TypeOK
      <3>3. QED
        BY <1>1, <3>1, <3>2 DEF CheckRaises
    <2>2. PICK admitted \in BOOLEAN :
             /\ EmergencyAdmit(ProcOf[q], admitted)
             /\ pc' = [pc EXCEPT ![q] = IF admitted THEN "quota" ELSE "denied"]
             /\ lost' = IF admitted THEN lost ELSE [lost EXCEPT ![q] = got'[q]]
      BY <1>1 DEF CheckRaises
    <2>3. emergency' \in [Procs -> [Rules -> Nat]]
      BY <2>2, EmergencyTyped, RequestsAssumption
    <2>4. pc' \in [Requests -> States] /\ lost' \in [Requests -> SUBSET Gates]
      BY <2>1, <2>2 DEF TypeOK, States, Ended
    <2>5. todo' \in [Requests -> SUBSET Gates] /\ faults' \in 0..MaxFaults
      BY <1>1, FaultTyped DEF CheckRaises, TypeOK
    <2>6. QED
      BY <1>1, <2>1, <2>3, <2>4, <2>5 DEF CheckRaises, TypeOK
  <1>2. ASSUME NEW g \in Gates, ReturnRaises(q, g)
        PROVE  TypeOK'
    <2> DEFINE skipped == {h \in todo[q] : h.kind = g.kind}
    <2>1. /\ \/ GiveBack(q, g) /\ lost' = [lost EXCEPT ![q] = @ \cup (got[q] \cap (skipped \ {g}))]
             \/ UNCHANGED <<members, tokens>>
                /\ lost' = [lost EXCEPT ![q] = @ \cup (got[q] \cap skipped)]
          /\ Begin(q, pc[q], todo[q] \ skipped)
      BY <1>2 DEF ReturnRaises, Continue
    <2>2. pc[q] \in Walk /\ todo[q] \ skipped \in SUBSET Gates
      BY <1>2 DEF ReturnRaises, At, Walk, TypeOK
    <2>3. pc' \in [Requests -> States] /\ todo' \in [Requests -> SUBSET Gates]
      BY <2>1, <2>2, BeginTyped
    <2>4. lost' \in [Requests -> SUBSET Gates]
      BY <2>1 DEF TypeOK
    <2>5. /\ tokens' \in [Tpm -> Int]
          /\ \A h \in Tpm : tokens'[h] <= Limit[h]
          /\ members' \in [Rpm \cup Conc -> SUBSET Requests]
      BY <2>1, GiveBackTyped DEF TypeOK
    <2>6. faults' \in 0..MaxFaults
      BY <1>2, FaultTyped DEF ReturnRaises
    <2>7. QED
      BY <1>2, <2>3, <2>4, <2>5, <2>6 DEF ReturnRaises, TypeOK
  <1>3. ASSUME NEW g \in Gates, SettleTpmRaises(q, g)
        PROVE  TypeOK'
    <2>1. pc[q] \in Walk /\ {} \in SUBSET Gates
      BY <1>3 DEF SettleTpmRaises, At, Walk
    <2>2. pc' \in [Requests -> States] /\ todo' \in [Requests -> SUBSET Gates]
      BY <1>3, <2>1, BeginTyped DEF SettleTpmRaises, Continue
    <2>3. tokens' \in [Tpm -> Int] /\ \A h \in Tpm : tokens'[h] <= Limit[h]
      <3>1. Estimate[q] - usage[q] \in Int
        BY RequestsAssumption DEF TypeOK
      <3>2. CASE Credit(g, Estimate[q] - usage[q])
        BY <3>1, <3>2, CreditTyped
      <3>3. CASE UNCHANGED tokens
        BY <3>3 DEF TypeOK
      <3>4. QED
        BY <1>3, <3>2, <3>3 DEF SettleTpmRaises
    <2>4. lost' \in [Requests -> SUBSET Gates]
      BY <1>3 DEF SettleTpmRaises, TypeOK
    <2>5. faults' \in 0..MaxFaults
      BY <1>3, FaultTyped DEF SettleTpmRaises
    <2>6. QED
      BY <1>3, <2>2, <2>3, <2>4, <2>5 DEF SettleTpmRaises, TypeOK
  <1>4. ASSUME CheckQuotaRaises(q) \/ ReadCountsRaises(q)
        PROVE  TypeOK'
    <2>1. rules[q] \in SUBSET Gates /\ Begin(q, "undoQuota", rules[q])
      BY <1>4 DEF CheckQuotaRaises, ReadCountsRaises, TypeOK
    <2>2. pc' \in [Requests -> States] /\ todo' \in [Requests -> SUBSET Gates]
      BY <2>1, BeginTyped DEF Walk
    <2>3. faults' \in 0..MaxFaults
      BY <1>4, FaultTyped DEF CheckQuotaRaises, ReadCountsRaises
    <2>4. QED
      BY <1>4, <2>2, <2>3 DEF CheckQuotaRaises, ReadCountsRaises, TypeOK
  <1>5. CASE Abandon(q)
    <2>1. faults' \in 0..MaxFaults
      BY <1>5, FaultTyped DEF Abandon
    <2>2. QED
      BY <1>5, <2>1 DEF Abandon, TypeOK, States, Ended
  <1>6. ASSUME NEW k \in Quotas, SettleQuotaRaises(q, k)
        PROVE  TypeOK'
    <2>1. quota' \in [Quotas -> Int] /\ over' \in [Quotas -> Nat]
      BY <1>6, AdjustTyped DEF SettleQuotaRaises, TypeOK
    <2>2. pc' \in [Requests -> States] /\ resv' \in [Requests -> SUBSET Quotas]
      BY <1>6 DEF SettleQuotaRaises, TypeOK, States
    <2>3. faults' \in 0..MaxFaults
      BY <1>6, FaultTyped DEF SettleQuotaRaises
    <2>4. QED
      BY <1>6, <2>1, <2>2, <2>3 DEF SettleQuotaRaises, TypeOK
  <1>7. QED
    BY <1>1, <1>2, <1>3, <1>4, <1>5, <1>6 DEF Fail

LEMMA NextTyped == TypeOK /\ [Next]_vars => TypeOK'
  <1> SUFFICES ASSUME TypeOK, [Next]_vars PROVE TypeOK'
    OBVIOUS
  <1>1. ASSUME NEW p \in Procs, Crash(p)
        PROVE  TypeOK'
    BY <1>1, FaultTyped DEF Crash, TypeOK, reqVars, redisVars
  <1>2. ASSUME NEW g \in Tpm, BucketExpires(g)
        PROVE  TypeOK'
    <2>1. tokens[g] \in Int /\ tokens[g] <= Limit[g] /\ Limit[g] \in Nat /\ refilled[g] \in Nat
      BY LimitsAssumption DEF TypeOK
    <2>2. /\ tokens' \in [Tpm -> Int]
          /\ \A h \in Tpm : tokens'[h] <= Limit[h]
          /\ refilled' \in [Tpm -> Nat]
      BY <1>2, <2>1 DEF BucketExpires, TypeOK
    <2>3. QED
      BY <1>2, <2>2 DEF BucketExpires, TypeOK, reqVars, logVars
  <1>3. CASE UNCHANGED vars
    BY <1>3 DEF vars, TypeOK
  <1>4. QED
    BY <1>1, <1>2, <1>3, HandleTyped, FailTyped DEF Next

\* Every variable keeps its type and no bucket ever rises above its limit,
\* through every gate, rollback, settlement, failure and crash.
THEOREM TypeCorrect == Spec => []TypeOK
  BY InitTyped, NextTyped, PTL DEF Spec

-----------------------------------------------------------------------------
(* The overshoot of an enforced quota.                                      *)

\* The quota script admits a request only while every enforced counter stays
\* within its limit, and a settlement above the estimate is recorded in over;
\* no other step raises a counter.
LEMMA OvershootStep ==
    TypeOK /\ OvershootBounded /\ [Next]_vars => OvershootBounded'
  <1> SUFFICES ASSUME TypeOK, OvershootBounded, [Next]_vars PROVE OvershootBounded'
    OBVIOUS
  <1>1. ASSUME UNCHANGED <<quota, over>> PROVE OvershootBounded'
    BY <1>1 DEF OvershootBounded
  <1>2. ASSUME NEW q \in Requests, NEW k \in Quotas, Adjust(q, k)
        PROVE  OvershootBounded'
    <2>1. SUFFICES ASSUME NEW j \in Enforced
                   PROVE  quota'[j] <= QLimit[j] + over'[j]
      BY DEF OvershootBounded
    <2>2. j \in Quotas /\ QLimit[j] \in Nat /\ quota[j] <= QLimit[j] + over[j]
      BY LimitsAssumption DEF OvershootBounded
    <2>3. /\ quota' \in [Quotas -> Int] /\ over' \in [Quotas -> Nat]
          /\ quota'[k] - over'[k] <= quota[k] - over[k]
          /\ \A i \in Quotas \ {k} : quota'[i] = quota[i] /\ over'[i] = over[i]
      BY <1>2, AdjustTyped
    <2>4. CASE j = k
      BY <2>2, <2>3, <2>4 DEF TypeOK
    <2>5. CASE j # k
      BY <2>2, <2>3, <2>5
    <2>6. QED
      BY <2>4, <2>5
  <1>3. ASSUME NEW q \in Requests, CheckQuota(q)
        PROVE  OvershootBounded'
    <2>1. CASE \E k \in Enforced : quota[k] + Reserve(q, k) > QLimit[k]
      BY <1>1, <1>3, <2>1 DEF CheckQuota
    <2>2. CASE ~\E k \in Enforced : quota[k] + Reserve(q, k) > QLimit[k]
      <3>1. SUFFICES ASSUME NEW k \in Enforced
                     PROVE  quota'[k] <= QLimit[k] + over'[k]
        BY DEF OvershootBounded
      <3>2. k \in Quotas /\ QLimit[k] \in Nat /\ over[k] \in Nat /\ quota[k] \in Int
        BY LimitsAssumption DEF TypeOK
      <3>3. Reserve(q, k) \in Nat
        BY <3>2, ReserveType
      <3>4. quota'[k] = quota[k] + Reserve(q, k) /\ over' = over
        BY <1>3, <2>2, <3>2 DEF CheckQuota
      <3>5. ~(quota[k] + Reserve(q, k) > QLimit[k])
        BY <2>2
      <3>6. QED
        BY <3>2, <3>3, <3>4, <3>5
    <2>3. QED
      BY <2>1, <2>2
  <1>4. ASSUME NEW q \in Requests, Handle(q)
        PROVE  OvershootBounded'
    <2>1. ASSUME NEW g \in Gates, CheckGate(q, g) \/ Return(q, g) \/ SettleTpm(q, g)
          PROVE  OvershootBounded'
      BY <1>1, <2>1 DEF CheckGate, Return, SettleTpm
    <2>2. ASSUME NEW k \in Quotas, SettleQuota(q, k)
          PROVE  OvershootBounded'
      BY <1>2, <2>2 DEF SettleQuota
    <2>3. CASE Arrive(q) \/ ReadCounts(q) \/ Respond(q) \/ CallRaises(q)
               \/ StartStream(q) \/ EndStream(q) \/ EnqueueUsage(q)
      BY <1>1, <2>3 DEF Arrive, ReadCounts, Respond, CallRaises, StartStream, EndStream,
                        EnqueueUsage, redisVars
    <2>4. QED
      BY <1>3, <1>4, <2>1, <2>2, <2>3 DEF Handle
  <1>5. ASSUME NEW q \in Requests, Fail(q)
        PROVE  OvershootBounded'
    <2>1. ASSUME NEW g \in Gates, CheckRaises(q, g) \/ ReturnRaises(q, g)
                                  \/ SettleTpmRaises(q, g)
          PROVE  OvershootBounded'
      BY <1>1, <2>1 DEF CheckRaises, ReturnRaises, SettleTpmRaises
    <2>2. ASSUME NEW k \in Quotas, SettleQuotaRaises(q, k)
          PROVE  OvershootBounded'
      BY <1>1, <1>2, <2>2 DEF SettleQuotaRaises
    <2>3. CASE CheckQuotaRaises(q) \/ ReadCountsRaises(q) \/ Abandon(q)
      BY <1>1, <2>3 DEF CheckQuotaRaises, ReadCountsRaises, Abandon, redisVars
    <2>4. QED
      BY <1>5, <2>1, <2>2, <2>3 DEF Fail
  <1>6. ASSUME NEW p \in Procs, Crash(p)
        PROVE  OvershootBounded'
    BY <1>1, <1>6 DEF Crash, redisVars
  <1>7. ASSUME NEW g \in Tpm, BucketExpires(g)
        PROVE  OvershootBounded'
    BY <1>1, <1>7 DEF BucketExpires
  <1>8. CASE UNCHANGED vars
    BY <1>1, <1>8 DEF vars
  <1>9. QED
    BY <1>4, <1>5, <1>6, <1>7, <1>8 DEF Next

LEMMA OvershootInit == Init => OvershootBounded
  BY LimitsAssumption DEF Init, OvershootBounded

\* However many requests reserve, settle, fail and crash at once, an enforced
\* quota is exceeded only by what settled requests used above their estimate.
THEOREM QuotaOvershootIsBounded == Spec => []OvershootBounded
  BY OvershootInit, OvershootStep, InitTyped, NextTyped, PTL DEF Spec

-----------------------------------------------------------------------------
(* The bound on concurrent streams.                                         *)

Holding == {"check", "quota", "count", "upstream", "stream"}

\* A concurrency set never outgrows max_concurrent.
SlotsBounded == \A g \in Conc : Cardinality(members[g]) <= Limit[g]

\* A live request that passed a concurrency gate and has not begun to end is a
\* member of its set.
SlotHeld ==
    \A q \in Requests : \A g \in Conc :
        Live(q) /\ pc[q] \in Holding /\ g \in got[q] => q \in members[g]

\* A request that has not arrived holds nothing.
NewHoldsNothing == \A q \in Requests : pc[q] = "new" => got[q] = {}

SlotInv == SlotsBounded /\ SlotHeld /\ NewHoldsNothing

LEMMA FiniteMembers ==
    ASSUME TypeOK, NEW g \in Rpm \cup Conc
    PROVE  IsFiniteSet(members[g])
  BY FS_Subset, RequestsAssumption DEF TypeOK

\* The invariant gives the bound: the streams at work are members of the set.
LEMMA SlotInvBounds == TypeOK /\ SlotInv => ConcurrencyBound
  <1> SUFFICES ASSUME TypeOK, SlotInv, NEW g \in Conc
               PROVE  Cardinality(Streaming(g)) <= Limit[g]
    BY DEF ConcurrencyBound
  <1>1. Streaming(g) \subseteq members[g]
    BY RequestsAssumption DEF Streaming, SlotInv, SlotHeld, Holding
  <1>2. /\ IsFiniteSet(members[g])
        /\ Cardinality(Streaming(g)) <= Cardinality(members[g])
        /\ Cardinality(Streaming(g)) \in Nat
    BY <1>1, FiniteMembers, FS_Subset, FS_CardinalityType
  <1>3. Cardinality(members[g]) \in Nat /\ Limit[g] \in Nat
    BY <1>2, FS_CardinalityType, LimitsAssumption
  <1>4. QED
    BY <1>2, <1>3 DEF SlotInv, SlotsBounded

LEMMA SlotInit == Init => SlotInv
  BY FS_EmptySet, LimitsAssumption DEF Init, SlotInv, SlotsBounded, SlotHeld, NewHoldsNothing, Holding

\* A gate script drops only entries of requests that ended or died, and adds its
\* own request only while there is room.
LEMMA GateScriptSlots ==
    ASSUME TypeOK, SlotsBounded, NEW q \in Requests, NEW g \in Gates, NEW ok \in BOOLEAN,
           GateScript(q, g, ok)
    PROVE  /\ SlotsBounded'
           /\ \A h \in Conc : \A p \in members[h] :
                 Live(p) /\ pc[p] \notin Ended => p \in members'[h]
           /\ ok /\ g \in Conc => q \in members'[g]
  <1>1. CASE BucketScript(q, g, ok)
    BY <1>1 DEF BucketScript, SlotsBounded
  <1>2. CASE ZsetScript(q, g, ok)
    <2>1. PICK old \in SUBSET Expired(g) :
             /\ ok = (Cardinality(members[g] \ old) < Limit[g])
             /\ members' = [members EXCEPT ![g] = IF ok THEN (members[g] \ old) \cup {q}
                                                     ELSE members[g] \ old]
      BY <1>2 DEF ZsetScript
    <2>2. g \in Rpm \cup Conc /\ IsFiniteSet(members[g])
      BY <1>2, FiniteMembers DEF ZsetScript
    <2>3. \A h \in Conc : members'[h] = IF h = g
                                        THEN IF ok THEN (members[g] \ old) \cup {q}
                                                   ELSE members[g] \ old
                                        ELSE members[h]
      BY <2>1 DEF TypeOK
    <2>4. ASSUME g \in Conc
          PROVE  Cardinality(members'[g]) <= Limit[g]
      <3> DEFINE kept == members[g] \ old
      <3>1. /\ IsFiniteSet(kept)
            /\ Cardinality(kept) \in Nat
            /\ Cardinality(kept) <= Cardinality(members[g])
            /\ Cardinality(members[g]) \in Nat
        BY <2>2, FS_Subset, FS_CardinalityType
      <3>2. Limit[g] \in Nat /\ Cardinality(members[g]) <= Limit[g]
        BY <2>4, LimitsAssumption DEF SlotsBounded
      <3>3. /\ Cardinality(kept \cup {q}) \in Nat
            /\ Cardinality(kept \cup {q}) <= Cardinality(kept) + 1
        <4>1. Cardinality(kept \cup {q}) = IF q \in kept THEN Cardinality(kept)
                                                         ELSE Cardinality(kept) + 1
          BY <3>1, FS_AddElement
        <4>2. QED
          BY <3>1, <4>1
      <3>4. ok = (Cardinality(kept) < Limit[g])
        BY <2>1
      <3>5. members'[g] = IF ok THEN kept \cup {q} ELSE kept
        BY <2>3, <2>4
      <3> HIDE DEF kept
      <3>6. CASE ok
        <4>1. Cardinality(kept) < Limit[g]
          BY <3>4, <3>6, Zenon
        <4>2. members'[g] = kept \cup {q}
          BY <3>5, <3>6, Zenon
        <4>3. QED
          BY <3>1, <3>2, <3>3, <4>1, <4>2
      <3>7. CASE ~ok
        BY <3>1, <3>2, <3>5, <3>7
      <3>8. QED
        BY <3>6, <3>7
    <2>5. SlotsBounded'
      BY <2>3, <2>4 DEF SlotsBounded
    <2>6. \A h \in Conc : \A p \in members[h] :
             Live(p) /\ pc[p] \notin Ended => p \in members'[h]
      <3>1. \A p \in old : g \in Conc => ~(Live(p) /\ pc[p] \notin Ended)
        BY <2>1 DEF Expired
      <3>2. QED
        BY <2>3, <3>1
    <2>7. ok /\ g \in Conc => q \in members'[g]
      BY <2>3
    <2>8. QED
      BY <2>5, <2>6, <2>7
  <1>3. QED
    BY <1>1, <1>2 DEF GateScript

\* Where a phase leads.
LEMMA BeginControl ==
    ASSUME TypeOK, NEW q \in Requests, NEW phase, NEW gates, Begin(q, phase, gates)
    PROVE  /\ \A p \in Requests \ {q} : pc'[p] = pc[p]
           /\ pc'[q] \in {phase, After(q, phase)}
  BY DEF Begin, TypeOK

\* A step that leaves the concurrency sets alone keeps the invariant if no
\* request that passed a gate comes back to a holding state.
LEMMA SlotsUntouched ==
    ASSUME TypeOK, SlotInv, crashed \subseteq crashed', UNCHANGED <<members, got>>,
           \A p \in Requests :
              /\ pc'[p] = "new" => pc[p] = "new"
              /\ pc'[p] \in Holding => pc[p] \in Holding \cup {"new"}
    PROVE  SlotInv'
  <1>1. SlotsBounded'
    BY DEF SlotInv, SlotsBounded
  <1>2. NewHoldsNothing'
    BY DEF SlotInv, NewHoldsNothing
  <1>3. SlotHeld'
    <2>1. SUFFICES ASSUME NEW p \in Requests, NEW g \in Conc,
                          Live(p)', pc'[p] \in Holding, g \in got'[p]
                   PROVE  p \in members'[g]
      BY DEF SlotHeld
    <2>2. Live(p)
      BY <2>1 DEF Live
    <2>3. pc[p] \in Holding
      BY <2>1 DEF SlotInv, NewHoldsNothing
    <2>4. QED
      BY <2>1, <2>2, <2>3 DEF SlotInv, SlotHeld
  <1>4. QED
    BY <1>1, <1>2, <1>3 DEF SlotInv

\* Giving a gate back touches only the entry of the request itself.
LEMMA GiveBackSlots ==
    ASSUME TypeOK, SlotInv, NEW q \in Requests, NEW g \in Gates,
           GiveBack(q, g) \/ UNCHANGED <<members, tokens>>,
           UNCHANGED <<got, crashed>>,
           \A p \in Requests \ {q} : pc'[p] = pc[p],
           pc'[q] \notin Holding, pc'[q] # "new"
    PROVE  SlotInv'
  <1>1. \A h \in Conc : members'[h] = members[h] \/ members'[h] = members[h] \ {q}
    BY DEF GiveBack, TypeOK
  <1>2. SlotsBounded'
    <2>1. SUFFICES ASSUME NEW h \in Conc PROVE Cardinality(members'[h]) <= Limit[h]
      BY DEF SlotsBounded
    <2>2. IsFiniteSet(members[h]) /\ members'[h] \subseteq members[h]
      BY <1>1, FiniteMembers
    <2>3. /\ Cardinality(members'[h]) <= Cardinality(members[h])
          /\ Cardinality(members'[h]) \in Nat
          /\ Cardinality(members[h]) \in Nat
      BY <2>2, FS_Subset, FS_CardinalityType
    <2>4. Limit[h] \in Nat /\ Cardinality(members[h]) <= Limit[h]
      BY LimitsAssumption DEF SlotInv, SlotsBounded
    <2>5. QED
      BY <2>3, <2>4
  <1>3. NewHoldsNothing'
    BY DEF SlotInv, NewHoldsNothing
  <1>4. SlotHeld'
    <2>1. SUFFICES ASSUME NEW p \in Requests, NEW h \in Conc,
                          Live(p)', pc'[p] \in Holding, h \in got'[p]
                   PROVE  p \in members'[h]
      BY DEF SlotHeld
    <2>2. p # q /\ Live(p) /\ pc[p] \in Holding /\ h \in got[p]
      BY <2>1 DEF Live
    <2>3. p \in members[h]
      BY <2>2 DEF SlotInv, SlotHeld
    <2>4. QED
      BY <1>1, <2>2, <2>3
  <1>5. QED
    BY <1>2, <1>3, <1>4 DEF SlotInv

\* A gate script, whether it admits, denies, or takes effect and raises.
LEMMA AcquireSlots ==
    ASSUME TypeOK, SlotInv, NEW q \in Requests, NEW g \in Gates, NEW ok \in BOOLEAN,
           GateScript(q, g, ok), pc[q] = "check", UNCHANGED crashed,
           got' = IF ok THEN [got EXCEPT ![q] = @ \cup {g}] ELSE got,
           \A p \in Requests \ {q} : pc'[p] = pc[p],
           pc'[q] # "new"
    PROVE  SlotInv'
  <1>1. /\ SlotsBounded'
        /\ \A h \in Conc : \A p \in members[h] :
              Live(p) /\ pc[p] \notin Ended => p \in members'[h]
        /\ ok /\ g \in Conc => q \in members'[g]
    BY GateScriptSlots DEF SlotInv
  <1>2. \A p \in Requests : got'[p] = IF ok /\ p = q THEN got[p] \cup {g} ELSE got[p]
    BY DEF TypeOK
  <1>3. NewHoldsNothing'
    BY <1>2 DEF SlotInv, NewHoldsNothing
  <1>4. SlotHeld'
    <2>1. SUFFICES ASSUME NEW p \in Requests, NEW h \in Conc,
                          Live(p)', pc'[p] \in Holding, h \in got'[p]
                   PROVE  p \in members'[h]
      BY DEF SlotHeld
    <2>2. Live(p) /\ pc[p] \in Holding
      BY <2>1 DEF Live, Holding
    <2>3. pc[p] \notin Ended
      BY <2>2 DEF Holding, Ended
    <2>4. CASE h \in got[p]
      <3>1. p \in members[h]
        BY <2>2, <2>4 DEF SlotInv, SlotHeld
      <3>2. QED
        BY <1>1, <2>2, <2>3, <3>1
    <2>5. CASE h \notin got[p]
      <3>1. ok /\ p = q /\ h = g
        BY <1>2, <2>1, <2>5
      <3>2. QED
        BY <1>1, <3>1
    <2>6. QED
      BY <2>4, <2>5
  <1>5. QED
    BY <1>1, <1>3, <1>4 DEF SlotInv

LEMMA SlotHandle ==
    ASSUME TypeOK, SlotInv, NEW q \in Requests, Handle(q)
    PROVE  SlotInv'
  <1> USE DEF redisVars, logVars
  <1>1. CASE Arrive(q)
    <2>1. PICK gates : Begin(q, "check", gates)
      BY <1>1 DEF Arrive
    <2>2. /\ \A p \in Requests \ {q} : pc'[p] = pc[p]
          /\ pc'[q] \in {"check", "quota"} /\ pc[q] = "new"
      BY <1>1, <2>1, BeginControl DEF Arrive, At, After
    <2>3. QED
      BY <1>1, <2>2, SlotsUntouched DEF Arrive, Holding
  <1>2. ASSUME NEW g \in Gates, CheckGate(q, g)
        PROVE  SlotInv'
    <2>1. pc[q] = "check" /\ UNCHANGED crashed
      BY <1>2 DEF CheckGate, At
    <2>2. PICK ok \in BOOLEAN :
             /\ GateScript(q, g, ok)
             /\ IF ok
                THEN /\ got' = [got EXCEPT ![q] = @ \cup {g}]
                     /\ Continue(q, todo[q] \ {g})
                ELSE /\ UNCHANGED got
                     /\ Begin(q, "undoCheck",
                              (got[q] \ Conc) \cup (IF got[q] \cap Conc = {} THEN {} ELSE Conc))
      BY <1>2 DEF CheckGate
    <2>3. /\ \A p \in Requests \ {q} : pc'[p] = pc[p]
          /\ pc'[q] # "new"
      <3>1. PICK phase \in {"check", "undoCheck"} : \E gates : Begin(q, phase, gates)
        BY <2>1, <2>2 DEF Continue
      <3>2. QED
        BY <3>1, BeginControl DEF After
    <2>4. got' = IF ok THEN [got EXCEPT ![q] = @ \cup {g}] ELSE got
      BY <2>2
    <2>5. QED
      BY <2>1, <2>2, <2>3, <2>4, AcquireSlots
  <1>3. ASSUME NEW g \in Gates, Return(q, g)
        PROVE  SlotInv'
    <2>1. /\ pc[q] \in {"undoCheck", "undoQuota", "release"}
          /\ Begin(q, pc[q], todo[q] \ {g})
          /\ GiveBack(q, g) /\ UNCHANGED <<got, crashed>>
      BY <1>3 DEF Return, At, Continue
    <2>2. /\ \A p \in Requests \ {q} : pc'[p] = pc[p]
          /\ pc'[q] \notin Holding /\ pc'[q] # "new"
      BY <2>1, BeginControl DEF After, Finalizing, Holding
    <2>3. QED
      BY <2>1, <2>2, GiveBackSlots
  <1>4. ASSUME NEW g \in Gates, SettleTpm(q, g)
        PROVE  SlotInv'
    <2>1. pc[q] = "settleTpm" /\ Begin(q, "settleTpm", todo[q] \ {g})
      BY <1>4 DEF SettleTpm, At, Continue
    <2>2. /\ \A p \in Requests \ {q} : pc'[p] = pc[p]
          /\ pc'[q] \in {"settleTpm", "done"}
      BY <2>1, BeginControl DEF After
    <2>3. QED
      BY <1>4, <2>2, SlotsUntouched DEF SettleTpm, Holding
  <1>5. CASE CheckQuota(q)
    <2>1. CASE \E k \in Enforced : quota[k] + Reserve(q, k) > QLimit[k]
      <3>1. Begin(q, "undoQuota", rules[q])
        BY <1>5, <2>1 DEF CheckQuota
      <3>2. /\ \A p \in Requests \ {q} : pc'[p] = pc[p]
            /\ pc'[q] \in {"undoQuota", "denied"}
        BY <3>1, BeginControl DEF After
      <3>3. QED
        BY <1>5, <3>2, SlotsUntouched DEF CheckQuota, Holding
    <2>2. CASE ~\E k \in Enforced : quota[k] + Reserve(q, k) > QLimit[k]
      <3>1. /\ \A p \in Requests \ {q} : pc'[p] = pc[p]
            /\ pc'[q] = "count" /\ pc[q] = "quota"
        BY <1>5, <2>2 DEF CheckQuota, At, TypeOK
      <3>2. QED
        BY <1>5, <3>1, SlotsUntouched DEF CheckQuota, Holding
    <2>3. QED
      BY <2>1, <2>2
  <1>6. CASE ReadCounts(q) \/ StartStream(q)
    <2>1. /\ \A p \in Requests \ {q} : pc'[p] = pc[p]
          /\ pc'[q] \in {"upstream", "stream"} /\ pc[q] \in {"count", "upstream"}
      BY <1>6 DEF ReadCounts, StartStream, At, TypeOK
    <2>2. UNCHANGED <<members, got, crashed>>
      BY <1>6 DEF ReadCounts, StartStream
    <2>3. QED
      BY <2>1, <2>2, SlotsUntouched DEF Holding
  <1>7. CASE Respond(q) \/ CallRaises(q)
    <2>1. /\ \A p \in Requests \ {q} : pc'[p] = pc[p]
          /\ pc'[q] \in {"enqueue", "settleQuota"}
      BY <1>7 DEF Respond, CallRaises, Finalize, Finalizing, TypeOK
    <2>2. UNCHANGED <<members, got, crashed>>
      BY <1>7 DEF Respond, CallRaises
    <2>3. QED
      BY <2>1, <2>2, SlotsUntouched DEF Holding
  <1>8. CASE EndStream(q)
    <2>1. Begin(q, "release", rules[q] \cap Conc)
      BY <1>8 DEF EndStream
    <2>2. /\ \A p \in Requests \ {q} : pc'[p] = pc[p]
          /\ pc'[q] \in {"release", "enqueue", "settleQuota"}
      BY <2>1, BeginControl DEF After, Finalizing
    <2>3. QED
      BY <1>8, <2>2, SlotsUntouched DEF EndStream, Holding
  <1>9. ASSUME NEW k \in Quotas, SettleQuota(q, k)
        PROVE  SlotInv'
    <2>1. /\ \A p \in Requests \ {q} : pc'[p] = pc[p]
          /\ pc'[q] \in {"enqueue", "settleQuota"}
      BY <1>9 DEF SettleQuota, At, TypeOK
    <2>2. QED
      BY <1>9, <2>1, SlotsUntouched DEF SettleQuota, Holding
  <1>10. CASE EnqueueUsage(q)
    <2>1. PICK gates : Begin(q, "settleTpm", gates)
      BY <1>10 DEF EnqueueUsage
    <2>2. /\ \A p \in Requests \ {q} : pc'[p] = pc[p]
          /\ pc'[q] \in {"settleTpm", "done"}
      BY <2>1, BeginControl DEF After
    <2>3. QED
      BY <1>10, <2>2, SlotsUntouched DEF EnqueueUsage, Holding
  <1>11. QED
    BY <1>1, <1>2, <1>3, <1>4, <1>5, <1>6, <1>7, <1>8, <1>9, <1>10 DEF Handle

LEMMA SlotFail ==
    ASSUME TypeOK, SlotInv, NEW q \in Requests, Fail(q)
    PROVE  SlotInv'
  <1> USE DEF redisVars, logVars
  <1>1. ASSUME NEW g \in Gates, CheckRaises(q, g)
        PROVE  SlotInv'
    <2>1. /\ \A p \in Requests \ {q} : pc'[p] = pc[p]
          /\ pc'[q] \in {"quota", "denied"} /\ pc[q] = "check"
          /\ UNCHANGED crashed
      BY <1>1 DEF CheckRaises, At, TypeOK
    <2>2. CASE GateScript(q, g, TRUE) /\ got' = [got EXCEPT ![q] = @ \cup {g}]
      BY <2>1, <2>2, AcquireSlots
    <2>3. CASE UNCHANGED <<got, members, tokens, opened, refilled>>
      BY <2>1, <2>3, SlotsUntouched DEF Holding
    <2>4. QED
      BY <1>1, <2>2, <2>3 DEF CheckRaises
  <1>2. ASSUME NEW g \in Gates, ReturnRaises(q, g)
        PROVE  SlotInv'
    <2>1. PICK gates : Begin(q, pc[q], gates)
      BY <1>2 DEF ReturnRaises, Continue
    <2>2. /\ pc[q] \in {"undoCheck", "undoQuota", "release"}
          /\ GiveBack(q, g) \/ UNCHANGED <<members, tokens>>
          /\ UNCHANGED <<got, crashed>>
      BY <1>2 DEF ReturnRaises, At
    <2>3. /\ \A p \in Requests \ {q} : pc'[p] = pc[p]
          /\ pc'[q] \notin Holding /\ pc'[q] # "new"
      BY <2>1, <2>2, BeginControl DEF After, Finalizing, Holding
    <2>4. QED
      BY <2>2, <2>3, GiveBackSlots
  <1>3. ASSUME NEW g \in Gates, SettleTpmRaises(q, g)
        PROVE  SlotInv'
    <2>1. pc[q] = "settleTpm" /\ Begin(q, "settleTpm", {})
      BY <1>3 DEF SettleTpmRaises, At, Continue
    <2>2. /\ \A p \in Requests \ {q} : pc'[p] = pc[p]
          /\ pc'[q] \in {"settleTpm", "done"}
      BY <2>1, BeginControl DEF After
    <2>3. QED
      BY <1>3, <2>2, SlotsUntouched DEF SettleTpmRaises, Holding
  <1>4. CASE CheckQuotaRaises(q) \/ ReadCountsRaises(q)
    <2>1. Begin(q, "undoQuota", rules[q])
      BY <1>4 DEF CheckQuotaRaises, ReadCountsRaises
    <2>2. /\ \A p \in Requests \ {q} : pc'[p] = pc[p]
          /\ pc'[q] \in {"undoQuota", "denied"}
      BY <2>1, BeginControl DEF After
    <2>3. UNCHANGED <<members, got, crashed>>
      BY <1>4 DEF CheckQuotaRaises, ReadCountsRaises
    <2>4. QED
      BY <2>2, <2>3, SlotsUntouched DEF Holding
  <1>5. CASE Abandon(q)
    <2>1. /\ \A p \in Requests \ {q} : pc'[p] = pc[p]
          /\ pc'[q] = "abandoned"
      BY <1>5 DEF Abandon, TypeOK
    <2>2. QED
      BY <1>5, <2>1, SlotsUntouched DEF Abandon, Holding
  <1>6. ASSUME NEW k \in Quotas, SettleQuotaRaises(q, k)
        PROVE  SlotInv'
    <2>1. /\ \A p \in Requests \ {q} : pc'[p] = pc[p]
          /\ pc'[q] = "enqueue"
      BY <1>6 DEF SettleQuotaRaises, TypeOK
    <2>2. QED
      BY <1>6, <2>1, SlotsUntouched DEF SettleQuotaRaises, Holding
  <1>7. QED
    BY <1>1, <1>2, <1>3, <1>4, <1>5, <1>6 DEF Fail

LEMMA SlotStep == TypeOK /\ SlotInv /\ [Next]_vars => SlotInv'
  <1> SUFFICES ASSUME TypeOK, SlotInv, [Next]_vars PROVE SlotInv'
    OBVIOUS
  <1>1. ASSUME NEW p \in Procs, Crash(p)
        PROVE  SlotInv'
    BY <1>1, SlotsUntouched DEF Crash, reqVars, redisVars
  <1>2. ASSUME NEW g \in Tpm, BucketExpires(g)
        PROVE  SlotInv'
    BY <1>2, SlotsUntouched DEF BucketExpires, reqVars, logVars
  <1>3. CASE UNCHANGED vars
    BY <1>3, SlotsUntouched DEF vars
  <1>4. QED
    BY <1>1, <1>2, <1>3, SlotHandle, SlotFail DEF Next

\* At most max_concurrent streams that passed a concurrency gate run at a time,
\* whatever the gate scripts evict, the rollbacks and finalizers release, and
\* wherever Redis or a process fails.
THEOREM StreamsAreBounded == Spec => []ConcurrencyBound
  BY InitTyped, NextTyped, SlotInit, SlotStep, SlotInvBounds, PTL DEF Spec

-----------------------------------------------------------------------------
(* What a request holds, owes and has reserved, phase by phase.             *)

\* The entries q has in the sorted sets.
Held(q) == {g \in Rpm \cup Conc : q \in members[g]}

\* The states of a request being turned away, and those before its answer.
Turning == {"undoCheck", "undoQuota", "denied"}
Before == {"new", "check", "quota", "count", "upstream", "stream"}

\* What a request still has to visit in its phase, and what a failed phase left.
Visits(q) ==
    /\ pc[q] = "new" => got[q] = {}
    /\ got[q] # {} => rules[q] = Gates
    /\ todo[q] \subseteq rules[q]
    /\ pc[q] \notin Walk => todo[q] = {}
    /\ pc[q] = "check" => rules[q] = Gates /\ todo[q] \cap got[q] = {}
    /\ pc[q] = "release" => todo[q] \subseteq Conc
    /\ pc[q] = "settleTpm" => todo[q] \subseteq Tpm
    /\ pc[q] \in Before \cup {"abandoned"} => lost[q] = {}
    /\ pc[q] \in {"release", "settleQuota", "enqueue", "settleTpm"} => lost[q] \subseteq Conc
    /\ pc[q] = "done" => lost[q] \subseteq Conc \/ <<q, "tpm_settle">> \in billing
    /\ todo[q] \cap lost[q] = {}

\* q is a stream whose slots are being or have been given back.
Released(q) ==
    /\ q \in Stream
    /\ pc[q] = "release" \/ (usage[q] > 0 /\ pc[q] \in {"settleQuota", "enqueue", "settleTpm", "done"})

\* A request holds only what its gates admitted; turned away or released, only
\* what is still to be visited or was lost to a failure.
Holds(q) ==
    /\ Held(q) \subseteq got[q]
    /\ pc[q] \in Turning => Held(q) \subseteq todo[q] \cup lost[q]
    /\ Released(q) => Held(q) \cap Conc \subseteq todo[q] \cup lost[q]

\* The reservations are made all at once, before any usage is known, and an open
\* one survives only where the handler stopped short of the finalizer.
Reserves(q) ==
    /\ pc[q] \in Before => usage[q] = 0
    /\ pc[q] \in {"new", "check", "quota"} => resv[q] = {}
    /\ pc[q] \in {"count", "upstream", "stream"} => resv[q] = Quotas
    /\ resv[q] # {} =>
         \/ pc[q] \in {"count", "upstream", "stream", "release", "settleQuota"}
         \/ pc[q] \in {"undoQuota", "denied"} /\ "count" \in FaultPoints
         \/ pc[q] = "abandoned" /\ FaultPoints \cap {"router", "client"} # {}
         \/ <<q, "quota_settle">> \in billing

\* The buckets a live request drew from exist; without a failed gate script they
\* are those of all its rules.
Draws(q) ==
    /\ Live(q) /\ pc[q] \notin Ended => got[q] \cap Tpm \subseteq opened
    /\ pc[q] = "check" => Tpm \subseteq got[q] \cup todo[q]
    /\ pc[q] = "undoCheck" => todo[q] \cap Tpm \subseteq got[q]
    /\ "check" \notin FaultPoints /\ pc[q] \notin {"new", "check", "undoCheck", "denied"} 
       /\ rules[q] = Gates => Tpm \subseteq got[q]

RequestOK(q) == Visits(q) /\ Holds(q) /\ Reserves(q) /\ Draws(q)

RequestInv == \A q \in Requests : RequestOK(q)

\* A step that is q's own: what it may do to another request is to evict an
\* entry from a sorted set.
OwnStep(q) ==
    /\ \A p \in Requests \ {q} :
          /\ pc'[p] = pc[p] /\ rules'[p] = rules[p] /\ todo'[p] = todo[p]
          /\ got'[p] = got[p] /\ lost'[p] = lost[p] /\ usage'[p] = usage[p]
          /\ resv'[p] = resv[p]
          /\ \A g \in Rpm \cup Conc : p \in members'[g] => p \in members[g]
    /\ opened \subseteq opened'
    /\ billing \subseteq billing'
    /\ crashed \subseteq crashed'

LEMMA RequestInit == Init => RequestInv
  BY DEF Init, RequestInv, RequestOK, Visits, Holds, Held, Turning, Before, Released, Reserves,
         Draws, Walk, Ended

\* A request that a step leaves alone keeps its part of the invariant.
LEMMA RequestKept ==
    ASSUME NEW p \in Requests, RequestOK(p),
           pc'[p] = pc[p], rules'[p] = rules[p], todo'[p] = todo[p], got'[p] = got[p],
           lost'[p] = lost[p], usage'[p] = usage[p], resv'[p] = resv[p],
           \A g \in Rpm \cup Conc : p \in members'[g] => p \in members[g],
           billing \subseteq billing', crashed \subseteq crashed',
           opened \subseteq opened' \/ ~Live(p) \/ pc[p] \in Ended \cup {"new"}
    PROVE  RequestOK(p)'
  <1>1. Held(p)' \subseteq Held(p)
    BY DEF Held
  <1>2. Visits(p)'
    BY DEF RequestOK, Visits
  <1>3. Holds(p)'
    BY <1>1 DEF RequestOK, Holds, Released
  <1>4. Reserves(p)'
    BY DEF RequestOK, Reserves
  <1>5. Draws(p)'
    BY DEF RequestOK, Visits, Draws, Live
  <1>6. QED
    BY <1>2, <1>3, <1>4, <1>5 DEF RequestOK

\* The invariant is inductive when the step keeps the part of its own request.
LEMMA OwnStepKeeps ==
    ASSUME TypeOK, RequestInv, NEW q \in Requests, OwnStep(q), RequestOK(q)'
    PROVE  RequestInv'
  <1> SUFFICES ASSUME NEW p \in Requests, p # q PROVE RequestOK(p)'
    BY DEF RequestInv
  <1>1. RequestOK(p)
    BY DEF RequestInv
  <1>2. QED
    BY <1>1, RequestKept DEF OwnStep

\* Where a phase starts or goes on, for each request.
LEMMA BeginValues ==
    ASSUME TypeOK, NEW q \in Requests, NEW phase, NEW gates, Begin(q, phase, gates)
    PROVE  /\ pc'[q] = IF gates = {} THEN After(q, phase) ELSE phase
           /\ todo'[q] = gates
           /\ \A p \in Requests \ {q} : pc'[p] = pc[p] /\ todo'[p] = todo[p]
  BY DEF Begin, TypeOK

\* A gate script enters at most its own request, into its own set.
LEMMA GateScriptHolds ==
    ASSUME TypeOK, NEW q \in Requests, NEW g \in Gates, NEW ok \in BOOLEAN,
           GateScript(q, g, ok)
    PROVE  /\ \A p \in Requests \ {q} : \A h \in Rpm \cup Conc :
                 p \in members'[h] => p \in members[h]
           /\ Held(q)' \subseteq Held(q) \cup (IF ok THEN {g} ELSE {})
           /\ opened \subseteq opened'
           /\ ok /\ g \in Tpm => g \in opened'
  <1>1. CASE ZsetScript(q, g, ok)
    <2>1. PICK old \in SUBSET Expired(g) :
             members' = [members EXCEPT ![g] = IF ok THEN (members[g] \ old) \cup {q}
                                                     ELSE members[g] \ old]
      BY <1>1 DEF ZsetScript
    <2>2. \A h \in Rpm \cup Conc : members'[h] = IF h = g
                                                 THEN IF ok THEN (members[g] \ old) \cup {q}
                                                            ELSE members[g] \ old
                                                 ELSE members[h]
      BY <2>1 DEF TypeOK
    <2>3. QED
      BY <1>1, <2>2 DEF ZsetScript, Held
  <1>2. CASE BucketScript(q, g, ok)
    BY <1>2 DEF BucketScript, Held, TypeOK
  <1>3. QED
    BY <1>1, <1>2 DEF GateScript

\* Giving a gate back removes at most the request's own entry in it.
LEMMA GiveBackHolds ==
    ASSUME TypeOK, NEW q \in Requests, NEW g \in Gates, GiveBack(q, g)
    PROVE  /\ \A p \in Requests : \A h \in Rpm \cup Conc :
                 p \in members'[h] => p \in members[h]
           /\ Held(q)' = Held(q) \ {g}
  BY DEF GiveBack, Held, TypeOK

\* A refusal by the quota gate, or a failure there, turns the request away:
\* the rollback walks over the gates of all its rules.
LEMMA TurnedAway ==
    ASSUME TypeOK, RequestInv, NEW q \in Requests,
           pc[q] = "quota" \/ (pc[q] = "count" /\ "count" \in FaultPoints),
           Begin(q, "undoQuota", rules[q]),
           UNCHANGED <<rules, got, lost, usage, resv, members, opened, billing, crashed>>
    PROVE  OwnStep(q) /\ RequestOK(q)'
  <1>0. RequestOK(q)
    BY DEF RequestInv
  <1>1. /\ pc'[q] = IF rules[q] = {} THEN "denied" ELSE "undoQuota"
        /\ todo'[q] = rules[q]
        /\ \A p \in Requests \ {q} : pc'[p] = pc[p] /\ todo'[p] = todo[p]
    BY BeginValues DEF After
  <1>2. OwnStep(q)
    BY <1>1 DEF OwnStep
  <1>3. Visits(q)'
    BY <1>0, <1>1 DEF RequestOK, Visits, Walk, Before
  <1>4. Holds(q)'
    BY <1>0, <1>1 DEF RequestOK, Visits, Holds, Held, Released, Turning, TypeOK
  <1>5. Reserves(q)'
    BY <1>0, <1>1 DEF RequestOK, Reserves, Before
  <1>6. Draws(q)'
    BY <1>0, <1>1 DEF RequestOK, Draws, Live, Ended
  <1>7. QED
    BY <1>2, <1>3, <1>4, <1>5, <1>6 DEF RequestOK

\* A step of a handler that works.
LEMMA RequestHandle ==
    ASSUME TypeOK, RequestInv, NEW q \in Requests, Handle(q)
    PROVE  OwnStep(q) /\ RequestOK(q)'
  <1> USE DEF redisVars, logVars
  <1>0. RequestOK(q)
    BY DEF RequestInv
  <1>1. CASE Arrive(q)
    <2> DEFINE gates == {g \in rules'[q] : g \in Conc => q \in Stream}
    <2>1. /\ pc[q] = "new" /\ Live(q)
          /\ rules'[q] \in {{}, Gates}
          /\ \A p \in Requests \ {q} : rules'[p] = rules[p]
          /\ UNCHANGED <<got, lost, usage, resv, members, opened, billing, crashed>>
      BY <1>1 DEF Arrive, At, TypeOK
    <2>2. /\ pc'[q] = IF gates = {} THEN "quota" ELSE "check"
          /\ todo'[q] = gates
          /\ \A p \in Requests \ {q} : pc'[p] = pc[p] /\ todo'[p] = todo[p]
      BY <1>1, BeginValues DEF Arrive, After
    <2>3. OwnStep(q)
      BY <2>1, <2>2 DEF OwnStep
    <2>4. gates \subseteq rules'[q] /\ \A g \in Tpm : rules'[q] = Gates => g \in gates
      OBVIOUS
    <2> HIDE DEF gates
    <2>5. Visits(q)'
      BY <1>0, <2>1, <2>2, <2>4 DEF RequestOK, Visits, Walk, Before
    <2>6. Holds(q)'
      BY <1>0, <2>1, <2>2, <2>4 DEF RequestOK, Holds, Held, Released, Turning
    <2>7. Reserves(q)'
      BY <1>0, <2>1, <2>2, <2>4 DEF RequestOK, Reserves, Before
    <2>8. Draws(q)'
      BY <1>0, <2>1, <2>2, <2>4 DEF RequestOK, Visits, Draws
    <2>9. QED
      BY <2>3, <2>5, <2>6, <2>7, <2>8 DEF RequestOK
  <1>2. ASSUME NEW g \in Gates, CheckGate(q, g)
        PROVE  OwnStep(q) /\ RequestOK(q)'
    <2> DEFINE back == (got[q] \ Conc) \cup (IF got[q] \cap Conc = {} THEN {} ELSE Conc)
    <2>1. /\ pc[q] = "check" /\ Live(q) /\ g \in todo[q]
          /\ UNCHANGED <<rules, lost, usage, resv, billing, crashed>>
      BY <1>2 DEF CheckGate, At, IsNext
    <2>2. PICK ok \in BOOLEAN :
             /\ GateScript(q, g, ok)
             /\ IF ok
                THEN /\ got' = [got EXCEPT ![q] = @ \cup {g}]
                     /\ Begin(q, "check", todo[q] \ {g})
                ELSE UNCHANGED got /\ Begin(q, "undoCheck", back)
      BY <1>2, <2>1 DEF CheckGate, Continue
    <2>3. /\ \A p \in Requests \ {q} : \A h \in Rpm \cup Conc :
                p \in members'[h] => p \in members[h]
          /\ Held(q)' \subseteq Held(q) \cup (IF ok THEN {g} ELSE {})
          /\ opened \subseteq opened'
          /\ ok /\ g \in Tpm => g \in opened'
      BY <2>2, GateScriptHolds
    <2>4. got[q] \subseteq back /\ back \subseteq Gates /\ back \cap Tpm \subseteq got[q]
      BY DEF TypeOK
    <2> HIDE DEF back
    <2>5. CASE ok
      <3>1. /\ pc'[q] = IF todo[q] \ {g} = {} THEN "quota" ELSE "check"
            /\ todo'[q] = todo[q] \ {g}
            /\ \A p \in Requests \ {q} : pc'[p] = pc[p] /\ todo'[p] = todo[p]
        BY <2>2, <2>5, BeginValues DEF After
      <3>2. got'[q] = got[q] \cup {g} /\ \A p \in Requests \ {q} : got'[p] = got[p]
        BY <2>2, <2>5 DEF TypeOK
      <3>3. OwnStep(q)
        BY <2>1, <2>3, <3>1, <3>2 DEF OwnStep
      <3>4. Visits(q)'
        BY <1>0, <2>1, <3>1, <3>2 DEF RequestOK, Visits, Walk, Before
      <3>5. Holds(q)'
        BY <1>0, <2>1, <2>3, <3>1, <3>2 DEF RequestOK, Holds, Released, Turning
      <3>6. Reserves(q)'
        BY <1>0, <2>1, <3>1, <3>2 DEF RequestOK, Reserves, Before
      <3>7. Draws(q)'
        BY <1>0, <2>1, <2>3, <2>5, <3>1, <3>2 DEF RequestOK, Visits, Draws, Live, Ended
      <3>8. QED
        BY <3>3, <3>4, <3>5, <3>6, <3>7 DEF RequestOK
    <2>6. CASE ~ok
      <3>1. /\ pc'[q] = IF back = {} THEN "denied" ELSE "undoCheck"
            /\ todo'[q] = back /\ got' = got
            /\ \A p \in Requests \ {q} : pc'[p] = pc[p] /\ todo'[p] = todo[p]
        BY <2>2, <2>6, BeginValues DEF After
      <3>2. OwnStep(q)
        BY <2>1, <2>3, <3>1 DEF OwnStep
      <3>3. Visits(q)'
        BY <1>0, <2>1, <2>4, <3>1 DEF RequestOK, Visits, Walk, Before
      <3>4. Holds(q)'
        BY <1>0, <2>1, <2>3, <2>4, <2>6, <3>1 DEF RequestOK, Holds, Released, Turning
      <3>5. Reserves(q)'
        BY <1>0, <2>1, <3>1 DEF RequestOK, Reserves, Before
      <3>6. Draws(q)'
        BY <1>0, <2>1, <2>3, <2>4, <3>1 DEF RequestOK, Visits, Draws, Live, Ended
      <3>7. QED
        BY <3>2, <3>3, <3>4, <3>5, <3>6 DEF RequestOK
    <2>7. QED
      BY <2>5, <2>6
  <1>3. ASSUME NEW g \in Gates, Return(q, g)
        PROVE  OwnStep(q) /\ RequestOK(q)'
    <2>1. /\ pc[q] \in {"undoCheck", "undoQuota", "release"} /\ Live(q) /\ g \in todo[q]
          /\ UNCHANGED <<rules, got, lost, usage, resv, opened, billing, crashed>>
          /\ GiveBack(q, g)
          /\ Begin(q, pc[q], todo[q] \ {g})
      BY <1>3 DEF Return, At, IsNext, Continue
    <2>2. /\ \A p \in Requests : \A h \in Rpm \cup Conc :
                p \in members'[h] => p \in members[h]
          /\ Held(q)' = Held(q) \ {g}
      BY <2>1, GiveBackHolds
    <2>3. /\ pc'[q] \in IF todo[q] \ {g} # {} THEN {pc[q]}
                        ELSE IF pc[q] = "release" THEN {Finalizing(q)} ELSE {"denied"}
          /\ todo'[q] = todo[q] \ {g}
          /\ \A p \in Requests \ {q} : pc'[p] = pc[p] /\ todo'[p] = todo[p]
      BY <2>1, BeginValues DEF After
    <2>4. OwnStep(q)
      BY <2>1, <2>2, <2>3 DEF OwnStep
    <2>5. Visits(q)'
      BY <1>0, <2>1, <2>3 DEF RequestOK, Visits, Walk, Before, Finalizing
    <2>6. Holds(q)'
      BY <1>0, <2>1, <2>2, <2>3 DEF RequestOK, Holds, Released, Turning, Finalizing
    <2>7. Reserves(q)'
      BY <1>0, <2>1, <2>3 DEF RequestOK, Reserves, Before, Finalizing
    <2>8. Draws(q)'
      BY <1>0, <2>1, <2>3 DEF RequestOK, Draws, Live, Ended, Finalizing
    <2>9. QED
      BY <2>4, <2>5, <2>6, <2>7, <2>8 DEF RequestOK
  <1>4. ASSUME NEW g \in Gates, SettleTpm(q, g)
        PROVE  OwnStep(q) /\ RequestOK(q)'
    <2>1. /\ pc[q] = "settleTpm" /\ Live(q) /\ g \in todo[q]
          /\ UNCHANGED <<rules, got, lost, usage, resv, members, opened, billing, crashed>>
          /\ Begin(q, "settleTpm", todo[q] \ {g})
      BY <1>4 DEF SettleTpm, At, IsNext, Continue
    <2>2. /\ pc'[q] = IF todo[q] \ {g} = {} THEN "done" ELSE "settleTpm"
          /\ todo'[q] = todo[q] \ {g}
          /\ \A p \in Requests \ {q} : pc'[p] = pc[p] /\ todo'[p] = todo[p]
      BY <2>1, BeginValues DEF After
    <2>3. OwnStep(q)
      BY <2>1, <2>2 DEF OwnStep
    <2>4. Visits(q)'
      BY <1>0, <2>1, <2>2 DEF RequestOK, Visits, Walk, Before
    <2>5. Holds(q)'
      BY <1>0, <2>1, <2>2 DEF RequestOK, Holds, Held, Visits, Released, Turning
    <2>6. Reserves(q)'
      BY <1>0, <2>1, <2>2 DEF RequestOK, Reserves, Before
    <2>7. Draws(q)'
      BY <1>0, <2>1, <2>2 DEF RequestOK, Draws, Live, Ended
    <2>8. QED
      BY <2>3, <2>4, <2>5, <2>6, <2>7 DEF RequestOK
  <1>5. CASE CheckQuota(q)
    <2>1. /\ pc[q] = "quota" /\ Live(q)
          /\ UNCHANGED <<rules, got, lost, usage, members, opened, billing, crashed>>
      BY <1>5 DEF CheckQuota, At
    <2>2. CASE \E k \in Enforced : quota[k] + Reserve(q, k) > QLimit[k]
      <3>1. Begin(q, "undoQuota", rules[q]) /\ UNCHANGED resv
        BY <1>5, <2>2 DEF CheckQuota
      <3>2. /\ pc[q] = "quota" \/ (pc[q] = "count" /\ "count" \in FaultPoints)
            /\ UNCHANGED <<rules, got, lost, usage, resv, members, opened, billing, crashed>>
        BY <2>1, <3>1
      <3>3. QED
        BY <2>1, <3>1, <3>2, TurnedAway
    <2>3. CASE ~\E k \in Enforced : quota[k] + Reserve(q, k) > QLimit[k]
      <3>1. /\ pc'[q] = "count" /\ resv'[q] = Quotas /\ UNCHANGED todo
            /\ \A p \in Requests \ {q} : pc'[p] = pc[p] /\ resv'[p] = resv[p]
        BY <1>5, <2>3 DEF CheckQuota, TypeOK
      <3>2. OwnStep(q)
        BY <2>1, <3>1 DEF OwnStep
      <3>3. Visits(q)'
        BY <1>0, <2>1, <3>1 DEF RequestOK, Visits, Walk, Before
      <3>4. Holds(q)'
        BY <1>0, <2>1, <3>1 DEF RequestOK, Holds, Held, Released, Turning
      <3>5. Reserves(q)'
        BY <1>0, <2>1, <3>1 DEF RequestOK, Reserves, Before
      <3>6. Draws(q)'
        BY <1>0, <2>1, <3>1 DEF RequestOK, Draws, Live, Ended
      <3>7. QED
        BY <3>2, <3>3, <3>4, <3>5, <3>6 DEF RequestOK
    <2>4. QED
      BY <2>2, <2>3
  <1>6. CASE ReadCounts(q) \/ StartStream(q)
    <2>1. /\ \/ pc[q] = "count" /\ pc'[q] = "upstream"
             \/ pc[q] = "upstream" /\ pc'[q] = "stream"
          /\ Live(q)
          /\ \A p \in Requests \ {q} : pc'[p] = pc[p]
          /\ UNCHANGED <<rules, todo, got, lost, usage, resv, members, opened, billing, crashed>>
      BY <1>6 DEF ReadCounts, StartStream, At, TypeOK
    <2>2. OwnStep(q)
      BY <2>1 DEF OwnStep
    <2>3. Visits(q)'
      BY <1>0, <2>1 DEF RequestOK, Visits, Walk, Before
    <2>4. Holds(q)'
      BY <1>0, <2>1 DEF RequestOK, Holds, Held, Released, Turning
    <2>5. Reserves(q)'
      BY <1>0, <2>1 DEF RequestOK, Reserves, Before
    <2>6. Draws(q)'
      BY <1>0, <2>1 DEF RequestOK, Draws, Live, Ended
    <2>7. QED
      BY <2>2, <2>3, <2>4, <2>5, <2>6 DEF RequestOK
  <1>7. CASE Respond(q) \/ CallRaises(q)
    <2>1. /\ pc[q] = "upstream" /\ Live(q)
          /\ pc'[q] = Finalizing(q)
          /\ q \in Stream => usage'[q] = 0
          /\ \A p \in Requests \ {q} : pc'[p] = pc[p] /\ usage'[p] = usage[p]
          /\ UNCHANGED <<rules, todo, got, lost, resv, members, opened, billing, crashed>>
      BY <1>7 DEF Respond, CallRaises, Finalize, At, TypeOK
    <2>2. OwnStep(q)
      BY <2>1 DEF OwnStep
    <2>3. Visits(q)'
      BY <1>0, <2>1 DEF RequestOK, Visits, Walk, Before, Finalizing
    <2>4. Holds(q)'
      BY <1>0, <2>1 DEF RequestOK, Holds, Held, Released, Turning, Finalizing
    <2>5. Reserves(q)'
      BY <1>0, <2>1 DEF RequestOK, Reserves, Before, Finalizing
    <2>6. Draws(q)'
      BY <1>0, <2>1 DEF RequestOK, Draws, Live, Ended, Finalizing
    <2>7. QED
      BY <2>2, <2>3, <2>4, <2>5, <2>6 DEF RequestOK
  <1>8. CASE EndStream(q)
    <2>1. /\ pc[q] = "stream" /\ Live(q)
          /\ Begin(q, "release", rules[q] \cap Conc)
          /\ \A p \in Requests \ {q} : usage'[p] = usage[p]
          /\ UNCHANGED <<rules, got, lost, resv, members, opened, billing, crashed>>
      BY <1>8 DEF EndStream, At, TypeOK
    <2>2. /\ pc'[q] = IF rules[q] \cap Conc = {} THEN Finalizing(q) ELSE "release"
          /\ todo'[q] = rules[q] \cap Conc
          /\ \A p \in Requests \ {q} : pc'[p] = pc[p] /\ todo'[p] = todo[p]
      BY <2>1, BeginValues DEF After
    <2>3. OwnStep(q)
      BY <2>1, <2>2 DEF OwnStep
    <2>4. Visits(q)'
      BY <1>0, <2>1, <2>2 DEF RequestOK, Visits, Walk, Before, Finalizing
    <2>5. Holds(q)'
      BY <1>0, <2>1, <2>2 DEF RequestOK, Visits, Holds, Held, Released, Turning, Finalizing
    <2>6. Reserves(q)'
      BY <1>0, <2>1, <2>2 DEF RequestOK, Reserves, Before, Finalizing
    <2>7. Draws(q)'
      BY <1>0, <2>1, <2>2 DEF RequestOK, Draws, Live, Ended, Finalizing
    <2>8. QED
      BY <2>3, <2>4, <2>5, <2>6, <2>7 DEF RequestOK
  <1>9. ASSUME NEW k \in Quotas, SettleQuota(q, k)
        PROVE  OwnStep(q) /\ RequestOK(q)'
    <2>1. /\ pc[q] = "settleQuota" /\ Live(q)
          /\ pc'[q] = IF resv[q] = {k} THEN "enqueue" ELSE "settleQuota"
          /\ resv'[q] = resv[q] \ {k}
          /\ \A p \in Requests \ {q} : pc'[p] = pc[p] /\ resv'[p] = resv[p]
          /\ UNCHANGED <<rules, todo, got, lost, usage, members, opened, billing, crashed>>
      BY <1>9 DEF SettleQuota, At, TypeOK
    <2>2. OwnStep(q)
      BY <2>1 DEF OwnStep
    <2>3. Visits(q)'
      BY <1>0, <2>1 DEF RequestOK, Visits, Walk, Before
    <2>4. Holds(q)'
      BY <1>0, <2>1 DEF RequestOK, Holds, Held, Released, Turning
    <2>5. Reserves(q)'
      BY <1>0, <2>1 DEF RequestOK, Reserves, Before
    <2>6. Draws(q)'
      BY <1>0, <2>1 DEF RequestOK, Draws, Live, Ended
    <2>7. QED
      BY <2>2, <2>3, <2>4, <2>5, <2>6 DEF RequestOK
  <1>10. CASE EnqueueUsage(q)
    <2> DEFINE gates == IF usage[q] = Estimate[q] THEN {} ELSE rules[q] \cap Tpm
    <2>1. /\ pc[q] = "enqueue" /\ Live(q)
          /\ Begin(q, "settleTpm", gates)
          /\ UNCHANGED <<rules, got, lost, usage, resv, members, opened, billing, crashed>>
      BY <1>10 DEF EnqueueUsage, At
    <2>2. gates \subseteq rules[q] \cap Tpm
      OBVIOUS
    <2> HIDE DEF gates
    <2>3. /\ pc'[q] = IF gates = {} THEN "done" ELSE "settleTpm"
          /\ todo'[q] = gates
          /\ \A p \in Requests \ {q} : pc'[p] = pc[p] /\ todo'[p] = todo[p]
      BY <2>1, BeginValues DEF After
    <2>4. OwnStep(q)
      BY <2>1, <2>3 DEF OwnStep
    <2>5. Visits(q)'
      BY <1>0, <2>1, <2>2, <2>3 DEF RequestOK, Visits, Walk, Before
    <2>6. Holds(q)'
      BY <1>0, <2>1, <2>2, <2>3 DEF RequestOK, Visits, Holds, Held, Released, Turning, Walk
    <2>7. Reserves(q)'
      BY <1>0, <2>1, <2>3 DEF RequestOK, Reserves, Before
    <2>8. Draws(q)'
      BY <1>0, <2>1, <2>2, <2>3 DEF RequestOK, Draws, Live, Ended
    <2>9. QED
      BY <2>4, <2>5, <2>6, <2>7, <2>8 DEF RequestOK
  <1>11. QED
    BY <1>1, <1>2, <1>3, <1>4, <1>5, <1>6, <1>7, <1>8, <1>9, <1>10 DEF Handle

\* A step of a handler that a fault strikes.
LEMMA RequestFail ==
    ASSUME TypeOK, RequestInv, NEW q \in Requests, Fail(q)
    PROVE  OwnStep(q) /\ RequestOK(q)'
  <1> USE DEF redisVars, logVars
  <1>0. RequestOK(q)
    BY DEF RequestInv
  <1>1. ASSUME NEW g \in Gates, CheckRaises(q, g)
        PROVE  OwnStep(q) /\ RequestOK(q)'
    <2>1. /\ pc[q] = "check" /\ Live(q) /\ g \in todo[q] /\ "check" \in FaultPoints
          /\ UNCHANGED <<rules, usage, resv, billing, crashed>>
      BY <1>1 DEF CheckRaises, At, IsNext, Fault
    <2>2. /\ \A p \in Requests \ {q} : got'[p] = got[p] /\ \A h \in Rpm \cup Conc :
                p \in members'[h] => p \in members[h]
          /\ got[q] \subseteq got'[q] /\ got'[q] \subseteq got[q] \cup todo[q]
          /\ Held(q)' \subseteq got'[q]
          /\ opened \subseteq opened'
          /\ \A h \in Tpm : h \in got'[q] => h \in got[q] \cup opened'
      <3>1. CASE GateScript(q, g, TRUE) /\ got' = [got EXCEPT ![q] = @ \cup {g}]
        <4>1. /\ \A p \in Requests \ {q} : \A h \in Rpm \cup Conc :
                    p \in members'[h] => p \in members[h]
              /\ Held(q)' \subseteq Held(q) \cup {g}
              /\ opened \subseteq opened'
              /\ g \in Tpm => g \in opened'
          BY <3>1, GateScriptHolds
        <4>2. got'[q] = got[q] \cup {g} /\ \A p \in Requests \ {q} : got'[p] = got[p]
          BY <3>1 DEF TypeOK
        <4>3. QED
          BY <1>0, <2>1, <4>1, <4>2 DEF RequestOK, Holds
      <3>2. CASE UNCHANGED <<got, members, tokens, opened, refilled>>
        BY <1>0, <3>2 DEF RequestOK, Holds, Held
      <3>3. QED
        BY <1>1, <3>1, <3>2 DEF CheckRaises
    <2>3. PICK admitted \in BOOLEAN :
             /\ pc' = [pc EXCEPT ![q] = IF admitted THEN "quota" ELSE "denied"]
             /\ lost' = IF admitted THEN lost ELSE [lost EXCEPT ![q] = got'[q]]
      BY <1>1 DEF CheckRaises
    <2>4. /\ \/ pc'[q] = "quota" /\ lost'[q] = lost[q]
             \/ pc'[q] = "denied" /\ lost'[q] = got'[q]
          /\ todo'[q] = {}
          /\ \A p \in Requests \ {q} : pc'[p] = pc[p] /\ todo'[p] = todo[p] /\ lost'[p] = lost[p]
      <3>1. /\ todo'[q] = {}
            /\ \A p \in Requests \ {q} : pc'[p] = pc[p] /\ todo'[p] = todo[p]
        BY <1>1, <2>3 DEF CheckRaises, TypeOK
      <3>2. CASE admitted
        BY <2>3, <3>1, <3>2 DEF TypeOK
      <3>3. CASE ~admitted
        BY <2>3, <3>1, <3>3 DEF TypeOK
      <3>4. QED
        BY <3>2, <3>3
    <2>5. OwnStep(q)
      BY <2>1, <2>2, <2>4 DEF OwnStep
    <2>6. Visits(q)'
      BY <1>0, <2>1, <2>2, <2>4 DEF RequestOK, Visits, Walk, Before
    <2>7. Holds(q)'
      BY <2>1, <2>2, <2>4 DEF Holds, Released, Turning
    <2>8. Reserves(q)'
      BY <1>0, <2>1, <2>4 DEF RequestOK, Reserves, Before
    <2>9. Draws(q)'
      BY <1>0, <2>1, <2>2, <2>4 DEF RequestOK, Draws, Live, Ended
    <2>10. QED
      BY <2>5, <2>6, <2>7, <2>8, <2>9 DEF RequestOK
  <1>2. ASSUME NEW g \in Gates, ReturnRaises(q, g)
        PROVE  OwnStep(q) /\ RequestOK(q)'
    <2> DEFINE skipped == {h \in todo[q] : h.kind = g.kind}
    <2>1. /\ pc[q] \in {"undoCheck", "undoQuota", "release"} /\ Live(q) /\ g \in todo[q]
          /\ UNCHANGED <<rules, got, usage, resv, opened, billing, crashed>>
          /\ Begin(q, pc[q], todo[q] \ skipped)
      BY <1>2 DEF ReturnRaises, At, IsNext, Continue
    <2>2. g \in skipped /\ skipped \subseteq todo[q]
      BY <2>1
    <2>3. PICK left \in SUBSET (got[q] \cap skipped) :
             /\ lost'[q] = lost[q] \cup left
             /\ Held(q)' \subseteq Held(q)
             /\ Held(q)' \cap (got[q] \cap skipped) \subseteq left
             /\ \A p \in Requests \ {q} : lost'[p] = lost[p]
             /\ \A p \in Requests : \A h \in Rpm \cup Conc :
                   p \in members'[h] => p \in members[h]
      <3>1. CASE GiveBack(q, g) /\ lost' = [lost EXCEPT ![q] = @ \cup (got[q] \cap (skipped \ {g}))]
        <4>1. /\ \A p \in Requests : \A h \in Rpm \cup Conc :
                    p \in members'[h] => p \in members[h]
              /\ Held(q)' = Held(q) \ {g}
          BY <3>1, GiveBackHolds
        <4>2. /\ lost'[q] = lost[q] \cup (got[q] \cap (skipped \ {g}))
              /\ \A p \in Requests \ {q} : lost'[p] = lost[p]
          BY <3>1 DEF TypeOK
        <4> HIDE DEF skipped
        <4>3. WITNESS got[q] \cap (skipped \ {g}) \in SUBSET (got[q] \cap skipped)
        <4>4. QED
          BY <4>1, <4>2
      <3>2. CASE /\ UNCHANGED <<members, tokens>>
                 /\ lost' = [lost EXCEPT ![q] = @ \cup (got[q] \cap skipped)]
        <4>1. /\ lost'[q] = lost[q] \cup (got[q] \cap skipped)
              /\ \A p \in Requests \ {q} : lost'[p] = lost[p]
          BY <3>2 DEF TypeOK
        <4> HIDE DEF skipped
        <4>2. WITNESS got[q] \cap skipped \in SUBSET (got[q] \cap skipped)
        <4>3. QED
          BY <3>2, <4>1 DEF Held
      <3>3. QED
        BY <1>2, <3>1, <3>2 DEF ReturnRaises
    <2> HIDE DEF skipped
    <2>4. /\ pc'[q] \in IF todo[q] \ skipped # {} THEN {pc[q]}
                        ELSE IF pc[q] = "release" THEN {Finalizing(q)} ELSE {"denied"}
          /\ todo'[q] = todo[q] \ skipped
          /\ \A p \in Requests \ {q} : pc'[p] = pc[p] /\ todo'[p] = todo[p]
      BY <2>1, BeginValues DEF After
    <2>5. OwnStep(q)
      BY <2>1, <2>3, <2>4 DEF OwnStep
    <2>6. Visits(q)'
      BY <1>0, <2>1, <2>2, <2>3, <2>4 DEF RequestOK, Visits, Walk, Before, Finalizing
    <2>7. Holds(q)'
      BY <1>0, <2>1, <2>2, <2>3, <2>4 DEF RequestOK, Holds, Released, Turning, Finalizing
    <2>8. Reserves(q)'
      BY <1>0, <2>1, <2>4 DEF RequestOK, Reserves, Before, Finalizing
    <2>9. Draws(q)'
      BY <1>0, <2>1, <2>4 DEF RequestOK, Draws, Live, Ended, Finalizing
    <2>10. QED
      BY <2>5, <2>6, <2>7, <2>8, <2>9 DEF RequestOK
  <1>3. ASSUME NEW g \in Gates, SettleTpmRaises(q, g)
        PROVE  OwnStep(q) /\ RequestOK(q)'
    <2>1. /\ pc[q] = "settleTpm" /\ Live(q)
          /\ UNCHANGED <<rules, got, usage, resv, members, opened, crashed>>
          /\ billing' = billing \cup {<<q, "tpm_settle">>}
          /\ Begin(q, "settleTpm", {})
      BY <1>3 DEF SettleTpmRaises, At, Continue
    <2>2. /\ pc'[q] = "done" /\ todo'[q] = {}
          /\ \A p \in Requests \ {q} : pc'[p] = pc[p] /\ todo'[p] = todo[p]
      BY <2>1, BeginValues DEF After
    <2>3. /\ lost'[q] \subseteq lost[q] \cup todo[q]
          /\ lost[q] \subseteq lost'[q]
          /\ \A p \in Requests \ {q} : lost'[p] = lost[p]
      BY <1>3 DEF SettleTpmRaises, TypeOK
    <2>4. OwnStep(q)
      BY <2>1, <2>2, <2>3 DEF OwnStep
    <2>5. Visits(q)'
      BY <1>0, <2>1, <2>2, <2>3 DEF RequestOK, Visits, Walk, Before
    <2>6. Holds(q)'
      BY <1>0, <2>1, <2>2, <2>3 DEF RequestOK, Holds, Held, Visits, Released, Turning
    <2>7. Reserves(q)'
      BY <1>0, <2>1, <2>2 DEF RequestOK, Reserves, Before
    <2>8. Draws(q)'
      BY <1>0, <2>1, <2>2 DEF RequestOK, Draws, Live, Ended
    <2>9. QED
      BY <2>4, <2>5, <2>6, <2>7, <2>8 DEF RequestOK
  <1>4. CASE CheckQuotaRaises(q) \/ ReadCountsRaises(q)
    <2>1. /\ pc[q] = "quota" \/ (pc[q] = "count" /\ "count" \in FaultPoints)
          /\ Begin(q, "undoQuota", rules[q])
          /\ UNCHANGED <<rules, got, lost, usage, resv, members, opened, billing, crashed>>
      <3>1. CASE CheckQuotaRaises(q)
        BY <3>1 DEF CheckQuotaRaises, At
      <3>2. CASE ReadCountsRaises(q)
        BY <3>2 DEF ReadCountsRaises, At, Fault
      <3>3. QED
        BY <1>4, <3>1, <3>2
    <2>2. QED
      BY <2>1, TurnedAway
  <1>5. CASE Abandon(q)
    <2>1. /\ pc[q] = "upstream" /\ Live(q) /\ FaultPoints \cap {"router", "client"} # {}
          /\ pc'[q] = "abandoned"
          /\ \A p \in Requests \ {q} : pc'[p] = pc[p]
          /\ UNCHANGED <<rules, todo, got, lost, usage, resv, members, opened, billing, crashed>>
      BY <1>5 DEF Abandon, At, Fault, TypeOK
    <2>2. OwnStep(q)
      BY <2>1 DEF OwnStep
    <2>3. Visits(q)'
      BY <1>0, <2>1 DEF RequestOK, Visits, Walk, Before
    <2>4. Holds(q)'
      BY <1>0, <2>1 DEF RequestOK, Holds, Held, Released, Turning
    <2>5. Reserves(q)'
      BY <1>0, <2>1 DEF RequestOK, Reserves, Before
    <2>6. Draws(q)'
      BY <1>0, <2>1 DEF RequestOK, Draws, Live, Ended
    <2>7. QED
      BY <2>2, <2>3, <2>4, <2>5, <2>6 DEF RequestOK
  <1>6. ASSUME NEW k \in Quotas, SettleQuotaRaises(q, k)
        PROVE  OwnStep(q) /\ RequestOK(q)'
    <2>1. /\ pc[q] = "settleQuota" /\ Live(q)
          /\ pc'[q] = "enqueue"
          /\ resv'[q] \subseteq resv[q]
          /\ \A p \in Requests \ {q} : pc'[p] = pc[p] /\ resv'[p] = resv[p]
          /\ billing' = billing \cup {<<q, "quota_settle">>}
          /\ UNCHANGED <<rules, todo, got, lost, usage, members, opened, crashed>>
      BY <1>6 DEF SettleQuotaRaises, At, TypeOK
    <2>2. OwnStep(q)
      BY <2>1 DEF OwnStep
    <2>3. Visits(q)'
      BY <1>0, <2>1 DEF RequestOK, Visits, Walk, Before
    <2>4. Holds(q)'
      BY <1>0, <2>1 DEF RequestOK, Holds, Held, Released, Turning
    <2>5. Reserves(q)'
      BY <1>0, <2>1 DEF RequestOK, Reserves, Before
    <2>6. Draws(q)'
      BY <1>0, <2>1 DEF RequestOK, Draws, Live, Ended
    <2>7. QED
      BY <2>2, <2>3, <2>4, <2>5, <2>6 DEF RequestOK
  <1>7. QED
    BY <1>1, <1>2, <1>3, <1>4, <1>5, <1>6 DEF Fail

LEMMA RequestStep == TypeOK /\ RequestInv /\ [Next]_vars => RequestInv'
  <1> SUFFICES ASSUME TypeOK, RequestInv, [Next]_vars PROVE RequestInv'
    OBVIOUS
  <1>1. ASSUME NEW p \in Procs, Crash(p)
        PROVE  RequestInv'
    <2>1. UNCHANGED <<pc, rules, todo, got, lost, usage, resv, members, opened, billing>>
          /\ crashed \subseteq crashed'
      BY <1>1 DEF Crash, reqVars, redisVars
    <2>2. QED
      BY <2>1, RequestKept DEF RequestInv
  <1>2. ASSUME NEW g \in Tpm, BucketExpires(g)
        PROVE  RequestInv'
    <2>1. /\ UNCHANGED <<pc, rules, todo, got, lost, usage, resv, members, billing, crashed>>
          /\ \A q \in Requests : Live(q) => pc[q] \in Ended \cup {"new"}
      BY <1>2 DEF BucketExpires, reqVars, logVars
    <2>2. QED
      BY <2>1, RequestKept DEF RequestInv
  <1>3. CASE UNCHANGED vars
    BY <1>3, RequestKept DEF vars, RequestInv
  <1>4. QED
    BY <1>1, <1>2, <1>3, RequestHandle, RequestFail, OwnStepKeeps DEF Next

\* The phases, holdings and reservations of every request agree in every state.
LEMMA RequestInvCorrect == Spec => [](TypeOK /\ RequestInv)
  BY InitTyped, NextTyped, RequestInit, RequestStep, PTL DEF Spec

\* However denials, rollbacks, evictions and failed commands interleave, a request
\* turned away with 429 or 503 is in no RPM window and holds no slot, apart from
\* those a failed command left behind.
THEOREM DeniedHoldNothing == Spec => []DeniedHoldsNothing
  <1>1. RequestInv => DeniedHoldsNothing
    BY DEF RequestInv, RequestOK, Visits, Holds, Held, Turning, Walk, DeniedHoldsNothing
  <1>2. QED
    BY <1>1, RequestInvCorrect, PTL

\* A stream that reported usage is settled after its slots were given back: no
\* failure of the settlement can keep them.
THEOREM StreamsReleaseSlots == Spec => []StreamReleasesSlot
  <1>1. TypeOK /\ RequestInv => StreamReleasesSlot
    BY RequestsAssumption DEF RequestInv, RequestOK, Visits, Holds, Held, Released, Walk, StreamReleasesSlot
  <1>2. QED
    BY <1>1, RequestInvCorrect, PTL

\* Unless a request is cut off between its quota script and its upstream call (the
\* fault points "count", "router" and "client", where the code has no clean-up), no
\* request ends with an open reservation that is not in the dead-letter list.
THEOREM ReservationsAreSettled ==
    ASSUME FaultPoints \cap {"count", "router", "client"} = {}
    PROVE  Spec => []SettledOrRecorded
  <1>1. TypeOK /\ RequestInv => SettledOrRecorded
    BY DEF RequestInv, RequestOK, Visits, Reserves, Ended, SettledOrRecorded
  <1>2. QED
    BY <1>1, RequestInvCorrect, PTL

-----------------------------------------------------------------------------
(* Sums over the requests: MapThenSumSet by induction on finite sets, with   *)
(* a minimal counterexample in place of an induction rule.                  *)

\* The element that MapThenSumSet takes next, and the recursive function it
\* folds with.
Picked(s) == CHOOSE x \in s : TRUE

Sums(f, c, D) == f = [s \in D |-> IF s = {} THEN 0 ELSE c[Picked(s)] + f[s \ {Picked(s)}]]

\* Among some subsets of a finite set there is one without a smaller one.
LEMMA MinimalSubset ==
    ASSUME NEW R, IsFiniteSet(R), NEW T, T \subseteq SUBSET R, T # {}
    PROVE  \E s \in T : \A x \in s : s \ {x} \notin T
  <1>1. IsWellFoundedOn(StrictSubsetOrdering(R), SUBSET R)
    BY FS_StrictSubsetOrderingWellFounded, FS_FiniteSubsetsOfFinite
  <1>2. PICK s \in T : \A t \in T : <<t, s>> \notin StrictSubsetOrdering(R)
    BY <1>1, WFMin
  <1>3. ASSUME NEW x \in s PROVE s \ {x} \notin T
    BY <1>2, <1>3 DEF StrictSubsetOrdering
  <1>4. QED
    BY <1>3

\* The element it takes is one of the set.
LEMMA PickedIn == ASSUME NEW s, s # {} PROVE Picked(s) \in s
  BY DEF Picked

\* The recursion defines a function, by induction on the size of the subsets.
LEMMA SumsExist ==
    ASSUME NEW R, IsFiniteSet(R), NEW c \in [R -> Int]
    PROVE  \E f : Sums(f, c, SUBSET R)
  <1> DEFINE Upto(D) == {s \in SUBSET R : Cardinality(s) <= Cardinality(D)}
             T == {D \in SUBSET R : ~\E f : Sums(f, c, Upto(D))}
  <1>1. SUFFICES T = {}
    <2>1. R \notin T
      BY <1>1
    <2>2. Upto(R) = SUBSET R
      BY FS_Subset
    <2>3. QED
      BY <2>1, <2>2
  <1>2. SUFFICES ASSUME T # {} PROVE FALSE
    OBVIOUS
  <1>3. PICK D \in T : \A x \in D : D \ {x} \notin T
    BY <1>2, MinimalSubset
  <1>4. D \subseteq R /\ IsFiniteSet(D) /\ Cardinality(D) \in Nat
    BY FS_Subset, FS_CardinalityType
  <1>5. ASSUME NEW s \in SUBSET R, s # {}
        PROVE  /\ Picked(s) \in s /\ s \ {Picked(s)} \in SUBSET R
               /\ Cardinality(s) \in Nat
               /\ Cardinality(s \ {Picked(s)}) = Cardinality(s) - 1
    BY <1>5, PickedIn, FS_Subset, FS_CardinalityType, FS_RemoveElement
  <1>6. CASE D = {}
    <2> DEFINE f == [s \in Upto(D) |-> 0]
    <2>1. \A s \in Upto(D) : s = {}
      <3>1. Cardinality(D) = 0
        BY <1>6, FS_EmptySet
      <3>2. \A s \in Upto(D) : Cardinality(s) = 0 /\ IsFiniteSet(s)
        BY <3>1, FS_Subset, FS_CardinalityType
      <3>3. QED
        BY <3>2, FS_EmptySet
    <2>2. Sums(f, c, Upto(D))
      <3> HIDE DEF Upto
      <3> QED
        BY <2>1 DEF Sums
    <2>3. QED
      BY <2>2
  <1>7. CASE D # {}
    <2>1. PICK x \in D : TRUE
      BY <1>7
    <2>2. D \ {x} \in SUBSET R /\ Cardinality(D \ {x}) = Cardinality(D) - 1
      BY <1>4, FS_RemoveElement
    <2>3. PICK f : Sums(f, c, Upto(D \ {x}))
      <3>1. D \ {x} \notin T
        BY <1>3
      <3>2. QED
        BY <2>2, <3>1
    <2> DEFINE h == [s \in Upto(D) |-> IF s = {} THEN 0 ELSE c[Picked(s)] + f[s \ {Picked(s)}]]
    <2>4. Upto(D \ {x}) \subseteq Upto(D)
      BY <1>4, <2>2, FS_Subset, FS_CardinalityType
    <2>5. \A s \in Upto(D) : s # {} => s \ {Picked(s)} \in Upto(D \ {x})
      BY <1>4, <1>5, <2>2
    <2>6. \A s \in Upto(D \ {x}) : h[s] = f[s]
      <3> HIDE DEF Upto
      <3> QED
        BY <2>3, <2>4 DEF Sums
    <2>7. Sums(h, c, Upto(D))
      <3>1. \A s \in Upto(D) : s # {} => h[s \ {Picked(s)}] = f[s \ {Picked(s)}]
        BY <2>5, <2>6
      <3> HIDE DEF Upto
      <3>2. QED
        BY <3>1 DEF Sums
    <2>8. QED
      BY <2>7
  <1>8. QED
    BY <1>6, <1>7

\* Its values are integers.
LEMMA SumsType ==
    ASSUME NEW R, IsFiniteSet(R), NEW c \in [R -> Int], NEW f, Sums(f, c, SUBSET R),
           NEW s \in SUBSET R
    PROVE  f[s] \in Int
  <1> DEFINE T == {t \in SUBSET R : f[t] \notin Int}
  <1>1. SUFFICES ASSUME T # {} PROVE FALSE
    OBVIOUS
  <1>2. PICK t \in T : \A x \in t : t \ {x} \notin T
    BY <1>1, MinimalSubset
  <1>3. f[t] = IF t = {} THEN 0 ELSE c[Picked(t)] + f[t \ {Picked(t)}]
    BY DEF Sums
  <1>4. CASE t # {}
    <2>1. Picked(t) \in t /\ t \ {Picked(t)} \in SUBSET R
      BY <1>4, PickedIn
    <2>2. c[Picked(t)] \in Int /\ f[t \ {Picked(t)}] \in Int
      BY <1>2, <2>1
    <2>3. QED
      BY <1>3, <1>4, <2>2
  <1>5. QED
    BY <1>3, <1>4

\* They are natural numbers when all summands are.
LEMMA SumsNonNegative ==
    ASSUME NEW R, IsFiniteSet(R), NEW c \in [R -> Nat], NEW f, Sums(f, c, SUBSET R),
           NEW s \in SUBSET R
    PROVE  f[s] \in Nat
  <1> DEFINE T == {t \in SUBSET R : f[t] \notin Nat}
  <1>1. SUFFICES ASSUME T # {} PROVE FALSE
    OBVIOUS
  <1>2. PICK t \in T : \A x \in t : t \ {x} \notin T
    BY <1>1, MinimalSubset
  <1>3. f[t] = IF t = {} THEN 0 ELSE c[Picked(t)] + f[t \ {Picked(t)}]
    BY DEF Sums
  <1>4. CASE t # {}
    <2>1. Picked(t) \in t /\ t \ {Picked(t)} \in SUBSET R
      BY <1>4, PickedIn
    <2>2. c[Picked(t)] \in Nat /\ f[t \ {Picked(t)}] \in Nat
      BY <1>2, <2>1
    <2>3. QED
      BY <1>3, <1>4, <2>2
  <1>5. QED
    BY <1>3, <1>4

\* d is c, apart from q, whose value moves by delta.
Moves(c, d, R, q, delta) == \A x \in R : d[x] = c[x] + IF x = q THEN delta ELSE 0

\* A change of one summand changes the sum of every set it belongs to by as much.
LEMMA SumsChange ==
    ASSUME NEW R, IsFiniteSet(R), NEW c \in [R -> Int], NEW d \in [R -> Int],
           NEW f, Sums(f, c, SUBSET R), NEW h, Sums(h, d, SUBSET R),
           NEW q, NEW delta \in Int,
           Moves(c, d, R, q, delta),
           NEW s \in SUBSET R
    PROVE  h[s] = f[s] + IF q \in s THEN delta ELSE 0
  <1> DEFINE T == {t \in SUBSET R : h[t] # f[t] + IF q \in t THEN delta ELSE 0}
  <1>1. SUFFICES ASSUME T # {} PROVE FALSE
    OBVIOUS
  <1>2. PICK t \in T : \A x \in t : t \ {x} \notin T
    BY <1>1, MinimalSubset
  <1>3. /\ f[t] = IF t = {} THEN 0 ELSE c[Picked(t)] + f[t \ {Picked(t)}]
        /\ h[t] = IF t = {} THEN 0 ELSE d[Picked(t)] + h[t \ {Picked(t)}]
    BY DEF Sums
  <1>4. CASE t # {}
    <2>1. Picked(t) \in t /\ Picked(t) \in R /\ t \ {Picked(t)} \in SUBSET R
      BY <1>4, PickedIn
    <2>2. h[t \ {Picked(t)}] = f[t \ {Picked(t)}] + IF q \in t \ {Picked(t)} THEN delta ELSE 0
      BY <1>2, <2>1
    <2>3. f[t \ {Picked(t)}] \in Int /\ c[Picked(t)] \in Int /\ d[Picked(t)] \in Int
      BY <2>1, SumsType
    <2>4. d[Picked(t)] = c[Picked(t)] + IF Picked(t) = q THEN delta ELSE 0
      BY <2>1 DEF Moves
    <2>5. h[t] = f[t] + IF q \in t THEN delta ELSE 0
      BY <1>3, <1>4, <2>1, <2>2, <2>3, <2>4
    <2>6. QED
      BY <2>5
  <1>5. CASE t = {}
    BY <1>3, <1>5
  <1>6. QED
    BY <1>4, <1>5

\* n is the sum of c over all requests.
IsTotal(n, c) == \E f : Sums(f, c, SUBSET Requests) /\ n = f[Requests]

\* The total follows the one summand that moves.
LEMMA TotalChange ==
    ASSUME NEW c \in [Requests -> Int], NEW d \in [Requests -> Int],
           NEW n, IsTotal(n, c), NEW m, IsTotal(m, d),
           NEW q, NEW delta \in Int,
           Moves(c, d, Requests, q, delta)
    PROVE  /\ n \in Int
           /\ m = n + IF q \in Requests THEN delta ELSE 0
  <1>1. PICK f : Sums(f, c, SUBSET Requests) /\ n = f[Requests]
    BY DEF IsTotal
  <1>2. PICK h : Sums(h, d, SUBSET Requests) /\ m = h[Requests]
    BY DEF IsTotal
  <1>3. h[Requests] = f[Requests] + IF q \in Requests THEN delta ELSE 0
    <2>1. IsFiniteSet(Requests) /\ Requests \in SUBSET Requests
      BY RequestsAssumption
    <2>2. \A s \in SUBSET Requests : h[s] = f[s] + IF q \in s THEN delta ELSE 0
      BY <1>1, <1>2, <2>1, SumsChange
    <2>3. QED
      BY <2>1, <2>2
  <1>4. f[Requests] \in Int
    BY <1>1, SumsType, RequestsAssumption
  <1>5. QED
    BY <1>1, <1>2, <1>3, <1>4

\* A total of natural numbers is one.
LEMMA TotalNonNegative ==
    ASSUME NEW c \in [Requests -> Nat], NEW n, IsTotal(n, c)
    PROVE  n \in Nat
  <1>1. PICK f : Sums(f, c, SUBSET Requests) /\ n = f[Requests]
    BY DEF IsTotal
  <1>2. IsFiniteSet(Requests) /\ Requests \in SUBSET Requests
    BY RequestsAssumption
  <1>3. f[Requests] \in Nat
    BY <1>1, <1>2, SumsNonNegative
  <1>4. QED
    BY <1>1, <1>3

\* Nothing adds up to nothing.
LEMMA TotalZero ==
    ASSUME NEW c, c = [q \in Requests |-> 0], NEW n, IsTotal(n, c)
    PROVE  n = 0
  <1> DEFINE z == [s \in SUBSET Requests |-> 0]
  <1>1. Sums(z, c, SUBSET Requests)
    <2>1. \A s \in SUBSET Requests : s # {} => c[Picked(s)] + z[s \ {Picked(s)}] = 0
      BY PickedIn
    <2>2. QED
      BY <2>1 DEF Sums
  <1>2. IsTotal(0, c) /\ c \in [Requests -> Int]
    BY <1>1 DEF IsTotal
  <1>3. n = 0 + IF 0 \in Requests THEN 0 ELSE 0
    BY <1>2, TotalChange DEF Moves
  <1>4. QED
    BY <1>3

-----------------------------------------------------------------------------
(* The balance of the quota counters.                                       *)

\* What the requests have added to the counter of k, in sum and one by one.
QuotaTotal(k) == MapThenSumSet(LAMBDA q : QuotaCharge(q, k), Requests)
QuotaCharges(k) == [q \in Requests |-> QuotaCharge(q, k)]

\* A charge is a natural number.
LEMMA QuotaChargeType ==
    ASSUME TypeOK, NEW q \in Requests, NEW k \in Quotas
    PROVE  QuotaCharge(q, k) \in Nat
  BY ReserveType DEF QuotaCharge, TypeOK

\* The sum that QuotaBalanced speaks of is the total of the charges.
LEMMA QuotaTotalIs ==
    TypeOK => \A k \in Quotas : /\ QuotaCharges(k) \in [Requests -> Nat]
                                /\ IsTotal(QuotaTotal(k), QuotaCharges(k))
  <1> SUFFICES ASSUME TypeOK, NEW k \in Quotas
               PROVE  /\ QuotaCharges(k) \in [Requests -> Nat]
                      /\ IsTotal(QuotaTotal(k), QuotaCharges(k))
    OBVIOUS
  <1> DEFINE P(f) == f = [s \in SUBSET Requests |->
                            IF s = {} THEN 0
                            ELSE QuotaCharge(CHOOSE x \in s : TRUE, k) + f[s \ {CHOOSE x \in s : TRUE}]]
  <1>1. QuotaCharges(k) \in [Requests -> Nat]
    BY QuotaChargeType DEF QuotaCharges
  <1>2. \A f : Sums(f, QuotaCharges(k), SUBSET Requests) <=> P(f)
    <2>1. \A s \in SUBSET Requests : s # {} =>
             QuotaCharges(k)[CHOOSE x \in s : TRUE] = QuotaCharge(CHOOSE x \in s : TRUE, k)
      BY DEF QuotaCharges
    <2>2. QED
      BY <2>1, ZenonT(30) DEF Sums, Picked
  <1>3. \E f : P(f)
    <2>1. IsFiniteSet(Requests) /\ QuotaCharges(k) \in [Requests -> Int]
      BY <1>1, RequestsAssumption
    <2>2. \E f : Sums(f, QuotaCharges(k), SUBSET Requests)
      BY <2>1, SumsExist
    <2> HIDE DEF P
    <2>3. QED
      BY <1>2, <2>2
  <1>4. QuotaTotal(k) = (CHOOSE f : P(f))[Requests]
    BY DEF QuotaTotal, MapThenSumSet, MapThenFoldSet
  <1> HIDE DEF P
  <1>5. P(CHOOSE f : P(f))
    BY <1>3
  <1>6. QED
    BY <1>1, <1>2, <1>4, <1>5 DEF IsTotal

\* ... also after a step.
LEMMA QuotaTotalIsNext ==
    (TypeOK => \A k \in Quotas : /\ QuotaCharges(k) \in [Requests -> Nat]
                                 /\ IsTotal(QuotaTotal(k), QuotaCharges(k)))'
  BY QuotaTotalIs, PTL

\* QuotaBalanced in terms of the total.
LEMMA QuotaBalancedIs ==
    QuotaBalanced <=> \A k \in Quotas : quota[k] = QuotaTotal(k)
  BY DEF QuotaBalanced, QuotaTotal, MapThenSumSet, MapThenFoldSet

\* ... also after a step.
LEMMA QuotaBalancedIsNext ==
    QuotaBalanced' <=> (\A k \in Quotas : quota[k] = QuotaTotal(k))'
  BY QuotaBalancedIs, PTL

\* A step that moves the charge of one request on a quota by as much as the
\* counter keeps that counter balanced.
LEMMA QuotaMoved ==
    ASSUME TypeOK, TypeOK', QuotaBalanced, NEW k \in Quotas, NEW q \in Requests,
           NEW delta \in Int,
           quota'[k] = quota[k] + delta,
           QuotaCharge(q, k)' = QuotaCharge(q, k) + delta,
           \A p \in Requests \ {q} : QuotaCharge(p, k)' = QuotaCharge(p, k)
    PROVE  quota'[k] = QuotaTotal(k)'
  <1>1. QuotaCharges(k) \in [Requests -> Nat] /\ IsTotal(QuotaTotal(k), QuotaCharges(k))
    BY QuotaTotalIs
  <1>2. QuotaCharges(k)' \in [Requests -> Nat] /\ IsTotal(QuotaTotal(k)', QuotaCharges(k)')
    BY QuotaTotalIsNext DEF IsTotal, Sums
  <1>3. Moves(QuotaCharges(k), QuotaCharges(k)', Requests, q, delta)
    <2>1. SUFFICES ASSUME NEW p \in Requests
                   PROVE  QuotaCharge(p, k)' = QuotaCharge(p, k) + IF p = q THEN delta ELSE 0
      BY DEF Moves, QuotaCharges
    <2>2. QuotaCharge(p, k) \in Nat
      BY QuotaChargeType
    <2>3. QED
      BY <2>2
  <1>4. QuotaTotal(k)' = QuotaTotal(k) + delta
    <2>1. QuotaCharges(k) \in [Requests -> Int] /\ QuotaCharges(k)' \in [Requests -> Int]
      BY <1>1, <1>2
    <2>2. QuotaTotal(k)' = QuotaTotal(k) + IF q \in Requests THEN delta ELSE 0
      BY <1>1, <1>2, <1>3, <2>1, TotalChange
    <2>3. QED
      BY <2>2
  <1>5. quota[k] = QuotaTotal(k)
    BY QuotaBalancedIs
  <1>6. QED
    BY <1>4, <1>5

\* No counter and no charge to begin with.
LEMMA QuotaInit == Init => QuotaBalanced
  <1> SUFFICES ASSUME Init, NEW k \in Quotas PROVE quota[k] = QuotaTotal(k)
    BY QuotaBalancedIs
  <1>1. IsTotal(QuotaTotal(k), QuotaCharges(k))
    BY InitTyped, QuotaTotalIs
  <1>2. QuotaCharges(k) = [q \in Requests |-> 0]
    BY DEF QuotaCharges, QuotaCharge, Init
  <1>3. QED
    BY <1>1, <1>2, TotalZero DEF Init

\* What each step of q does to its charge on k and to the counter of k.
QuotaStep(q) ==
    \A k \in Quotas : \E delta \in Int :
        /\ quota'[k] = quota[k] + delta
        /\ QuotaCharge(q, k)' = QuotaCharge(q, k) + delta
        /\ \A p \in Requests \ {q} : QuotaCharge(p, k)' = QuotaCharge(p, k)

\* A step without effect on reservations, usages and counters.
LEMMA QuotaIdle ==
    ASSUME TypeOK, NEW q \in Requests, UNCHANGED <<resv, usage, quota>>
    PROVE  QuotaStep(q)
  <1>1. SUFFICES ASSUME NEW k \in Quotas
                 PROVE  /\ quota'[k] = quota[k] + 0
                        /\ QuotaCharge(q, k)' = QuotaCharge(q, k) + 0
                        /\ \A p \in Requests \ {q} : QuotaCharge(p, k)' = QuotaCharge(p, k)
    BY DEF QuotaStep
  <1>2. \A p \in Requests : QuotaCharge(p, k)' = QuotaCharge(p, k)
    BY DEF QuotaCharge, Reserve
  <1>3. QuotaCharge(q, k) \in Nat /\ quota[k] \in Int
    BY QuotaChargeType DEF TypeOK
  <1>4. QED
    BY <1>2, <1>3

\* The upstream's answer sets the usage while every reservation is still open.
LEMMA QuotaUsed ==
    ASSUME TypeOK, RequestInv, NEW q \in Requests, pc[q] \in {"upstream", "stream"},
           \A p \in Requests \ {q} : usage'[p] = usage[p], UNCHANGED <<resv, quota>>
    PROVE  QuotaStep(q)
  <1>1. SUFFICES ASSUME NEW k \in Quotas
                 PROVE  /\ quota'[k] = quota[k] + 0
                        /\ QuotaCharge(q, k)' = QuotaCharge(q, k) + 0
                        /\ \A p \in Requests \ {q} : QuotaCharge(p, k)' = QuotaCharge(p, k)
    BY DEF QuotaStep
  <1>2. k \in resv[q]
    BY DEF RequestInv, RequestOK, Reserves
  <1>3. \A p \in Requests : QuotaCharge(p, k)' = QuotaCharge(p, k)
    BY <1>2 DEF QuotaCharge, Reserve
  <1>4. QuotaCharge(q, k) \in Nat /\ quota[k] \in Int
    BY QuotaChargeType DEF TypeOK
  <1>5. QED
    BY <1>3, <1>4

\* Settling a reservation moves the counter by what the charge changes.
LEMMA QuotaSettled ==
    ASSUME TypeOK, NEW q \in Requests, NEW k \in Quotas, k \in resv[q], Adjust(q, k),
           resv' = [resv EXCEPT ![q] = @ \ {k}], UNCHANGED usage
    PROVE  QuotaStep(q)
  <1>1. SUFFICES ASSUME NEW j \in Quotas
                 PROVE  \E delta \in Int :
                          /\ quota'[j] = quota[j] + delta
                          /\ QuotaCharge(q, j)' = QuotaCharge(q, j) + delta
                          /\ \A p \in Requests \ {q} : QuotaCharge(p, j)' = QuotaCharge(p, j)
    BY DEF QuotaStep
  <1>2. \A p \in Requests \ {q} : QuotaCharge(p, j)' = QuotaCharge(p, j)
    BY DEF QuotaCharge, Reserve, TypeOK
  <1>3. resv'[q] = resv[q] \ {k}
    BY DEF TypeOK
  <1>4. CASE j = k
    <2>1. Adjustment(q, k) \in Int /\ quota'[k] = quota[k] + Adjustment(q, k)
      BY AdjustmentType DEF Adjust, TypeOK
    <2>2. Reserve(q, k) \in Nat /\ (Metric[k] = "requests" => Reserve(q, k) = 1)
          /\ usage[q] \in Nat
      BY ReserveType DEF TypeOK, Reserve
    <2>3. QuotaCharge(q, k) = Reserve(q, k)
      BY DEF QuotaCharge
    <2>4. QuotaCharge(q, k)' = IF usage[q] = 0 THEN 0
                               ELSE IF Metric[k] = "requests" THEN 1 ELSE usage[q]
      BY <1>3 DEF QuotaCharge
    <2>5. QuotaCharge(q, k)' = QuotaCharge(q, k) + Adjustment(q, k)
      BY <2>2, <2>3, <2>4 DEF Adjustment
    <2>6. QED
      BY <1>2, <1>4, <2>1, <2>5
  <1>5. CASE j # k
    <2>1. quota'[j] = quota[j] /\ quota[j] \in Int
      BY <1>5 DEF Adjust, TypeOK
    <2>2. QuotaCharge(q, j)' = QuotaCharge(q, j) /\ QuotaCharge(q, j) \in Nat
      BY <1>3, <1>5, QuotaChargeType DEF QuotaCharge, Reserve
    <2>3. /\ quota'[j] = quota[j] + 0
          /\ QuotaCharge(q, j)' = QuotaCharge(q, j) + 0
      BY <2>1, <2>2
    <2>4. QED
      BY <1>2, <2>3
  <1>6. QED
    BY <1>4, <1>5

\* The quota script reserves on every counter at once.
LEMMA QuotaReserved ==
    ASSUME TypeOK, RequestInv, NEW q \in Requests, CheckQuota(q)
    PROVE  QuotaStep(q)
  <1>1. CASE \E k \in Enforced : quota[k] + Reserve(q, k) > QLimit[k]
    BY <1>1, QuotaIdle DEF CheckQuota
  <1>2. CASE ~\E k \in Enforced : quota[k] + Reserve(q, k) > QLimit[k]
    <2>1. /\ quota' = [k \in Quotas |-> quota[k] + Reserve(q, k)]
          /\ resv' = [resv EXCEPT ![q] = Quotas]
          /\ UNCHANGED usage
          /\ pc[q] = "quota"
      BY <1>2 DEF CheckQuota, At
    <2>2. SUFFICES ASSUME NEW k \in Quotas
                   PROVE  /\ Reserve(q, k) \in Int
                          /\ quota'[k] = quota[k] + Reserve(q, k)
                          /\ QuotaCharge(q, k)' = QuotaCharge(q, k) + Reserve(q, k)
                          /\ \A p \in Requests \ {q} : QuotaCharge(p, k)' = QuotaCharge(p, k)
      BY DEF QuotaStep
    <2>3. \A p \in Requests \ {q} : QuotaCharge(p, k)' = QuotaCharge(p, k)
      BY <2>1 DEF QuotaCharge, Reserve, TypeOK
    <2>4. resv[q] = {} /\ usage[q] = 0 /\ resv'[q] = Quotas
      BY <2>1 DEF RequestInv, RequestOK, Reserves, Before, TypeOK
    <2>5. QuotaCharge(q, k) = 0 /\ QuotaCharge(q, k)' = Reserve(q, k)
      BY <2>4 DEF QuotaCharge, Reserve
    <2>6. QED
      BY <2>1, <2>3, <2>5, ReserveType
  <1>3. QED
    BY <1>1, <1>2

\* A step of a handler that works.
LEMMA QuotaHandle ==
    ASSUME TypeOK, RequestInv, NEW q \in Requests, Handle(q)
    PROVE  QuotaStep(q)
  <1> USE DEF redisVars
  <1>1. ASSUME NEW g \in Gates, CheckGate(q, g) \/ Return(q, g) \/ SettleTpm(q, g)
        PROVE  QuotaStep(q)
    BY <1>1, QuotaIdle DEF CheckGate, Return, SettleTpm
  <1>2. ASSUME NEW k \in Quotas, SettleQuota(q, k)
        PROVE  QuotaStep(q)
    BY <1>2, QuotaSettled DEF SettleQuota
  <1>3. CASE Arrive(q) \/ ReadCounts(q) \/ StartStream(q) \/ EnqueueUsage(q)
    BY <1>3, QuotaIdle DEF Arrive, ReadCounts, StartStream, EnqueueUsage
  <1>4. CASE Respond(q) \/ CallRaises(q) \/ EndStream(q)
    <2>1. /\ pc[q] \in {"upstream", "stream"}
          /\ \A p \in Requests \ {q} : usage'[p] = usage[p]
          /\ UNCHANGED <<resv, quota>>
      BY <1>4 DEF Respond, CallRaises, EndStream, Finalize, At, TypeOK
    <2>2. QED
      BY <2>1, QuotaUsed
  <1>5. QED
    BY <1>1, <1>2, <1>3, <1>4, QuotaReserved DEF Handle

\* A step of a handler that a fault strikes.
LEMMA QuotaFail ==
    ASSUME TypeOK, NEW q \in Requests, Fail(q)
    PROVE  QuotaStep(q)
  <1> USE DEF redisVars
  <1>1. ASSUME NEW g \in Gates, CheckRaises(q, g) \/ ReturnRaises(q, g) \/ SettleTpmRaises(q, g)
        PROVE  QuotaStep(q)
    BY <1>1, QuotaIdle DEF CheckRaises, ReturnRaises, SettleTpmRaises
  <1>2. ASSUME NEW k \in Quotas, SettleQuotaRaises(q, k)
        PROVE  QuotaStep(q)
    BY <1>2, QuotaSettled, QuotaIdle DEF SettleQuotaRaises
  <1>3. CASE CheckQuotaRaises(q) \/ ReadCountsRaises(q) \/ Abandon(q)
    BY <1>3, QuotaIdle DEF CheckQuotaRaises, ReadCountsRaises, Abandon
  <1>4. QED
    BY <1>1, <1>2, <1>3 DEF Fail

\* A step that is no request's leaves the balance alone.
LEMMA QuotaKept ==
    ASSUME UNCHANGED <<resv, usage, quota>>, QuotaBalanced
    PROVE  QuotaBalanced'
  <1>1. \A k \in Quotas : QuotaTotal(k)' = QuotaTotal(k)
    BY DEF QuotaTotal, MapThenSumSet, MapThenFoldSet, QuotaCharge, Reserve
  <1>2. QED
    BY <1>1, QuotaBalancedIs, QuotaBalancedIsNext

\* Every step keeps the counters balanced.
LEMMA QuotaBalancedStep ==
    TypeOK /\ TypeOK' /\ RequestInv /\ QuotaBalanced /\ [Next]_vars => QuotaBalanced'
  <1> SUFFICES ASSUME TypeOK, TypeOK', RequestInv, QuotaBalanced, [Next]_vars
               PROVE  QuotaBalanced'
    OBVIOUS
  <1>1. ASSUME NEW q \in Requests, QuotaStep(q)
        PROVE  QuotaBalanced'
    <2>1. SUFFICES ASSUME NEW k \in Quotas PROVE quota'[k] = QuotaTotal(k)'
      BY QuotaBalancedIsNext
    <2>2. PICK delta \in Int :
            /\ quota'[k] = quota[k] + delta
            /\ QuotaCharge(q, k)' = QuotaCharge(q, k) + delta
            /\ \A p \in Requests \ {q} : QuotaCharge(p, k)' = QuotaCharge(p, k)
      BY <1>1 DEF QuotaStep
    <2>3. QED
      BY <2>2, QuotaMoved
  <1>2. ASSUME NEW p \in Procs, Crash(p)
        PROVE  QuotaBalanced'
    BY <1>2, QuotaKept DEF Crash, reqVars, redisVars
  <1>3. ASSUME NEW g \in Tpm, BucketExpires(g)
        PROVE  QuotaBalanced'
    BY <1>3, QuotaKept DEF BucketExpires, reqVars
  <1>4. CASE UNCHANGED vars
    BY <1>4, QuotaKept DEF vars
  <1>5. QED
    BY <1>1, <1>2, <1>3, <1>4, QuotaHandle, QuotaFail DEF Next

\* Every quota counter is, in every state, the sum of the open reservations and of
\* the settled requests' usage: concurrent reservations, refunds, overages, failed
\* settlements and crashes never make it drift.
THEOREM QuotasBalance == Spec => []QuotaBalanced
  BY RequestInvCorrect, QuotaInit, QuotaBalancedStep, InitTyped, NextTyped, RequestInit,
     RequestStep, PTL DEF Spec

-----------------------------------------------------------------------------
(* The balance of the token buckets.                                        *)

\* What each request owes the bucket of g.
TpmOwed(g) == [q \in Requests |-> TpmCharge(q, g)]

\* A debt is a natural number.
LEMMA TpmChargeType ==
    ASSUME TypeOK, NEW q \in Requests, NEW g \in Tpm
    PROVE  TpmCharge(q, g) \in Nat
  BY RequestsAssumption DEF TpmCharge, TypeOK

\* The sum that TpmBalanced speaks of is the total of the debts.
LEMMA TpmTotalIs ==
    TypeOK => \A g \in Tpm : /\ TpmOwed(g) \in [Requests -> Nat]
                             /\ IsTotal(TpmCharges(g), TpmOwed(g))
  <1> SUFFICES ASSUME TypeOK, NEW g \in Tpm
               PROVE  /\ TpmOwed(g) \in [Requests -> Nat]
                      /\ IsTotal(TpmCharges(g), TpmOwed(g))
    OBVIOUS
  <1> DEFINE P(f) == f = [s \in SUBSET Requests |->
                            IF s = {} THEN 0
                            ELSE TpmCharge(CHOOSE x \in s : TRUE, g) + f[s \ {CHOOSE x \in s : TRUE}]]
  <1>1. TpmOwed(g) \in [Requests -> Nat]
    BY TpmChargeType DEF TpmOwed
  <1>2. \A f : Sums(f, TpmOwed(g), SUBSET Requests) <=> P(f)
    <2>1. \A s \in SUBSET Requests : s # {} =>
             TpmOwed(g)[CHOOSE x \in s : TRUE] = TpmCharge(CHOOSE x \in s : TRUE, g)
      BY DEF TpmOwed
    <2>2. QED
      BY <2>1, ZenonT(30) DEF Sums, Picked
  <1>3. \E f : P(f)
    <2>1. IsFiniteSet(Requests) /\ TpmOwed(g) \in [Requests -> Int]
      BY <1>1, RequestsAssumption
    <2>2. \E f : Sums(f, TpmOwed(g), SUBSET Requests)
      BY <2>1, SumsExist
    <2> HIDE DEF P
    <2>3. QED
      BY <1>2, <2>2
  <1>4. TpmCharges(g) = (CHOOSE f : P(f))[Requests]
    BY DEF TpmCharges, MapThenSumSet, MapThenFoldSet
  <1> HIDE DEF P
  <1>5. P(CHOOSE f : P(f))
    BY <1>3
  <1>6. QED
    BY <1>1, <1>2, <1>4, <1>5 DEF IsTotal

\* ... also after a step.
LEMMA TpmTotalIsNext ==
    (TypeOK => \A g \in Tpm : /\ TpmOwed(g) \in [Requests -> Nat]
                              /\ IsTotal(TpmCharges(g), TpmOwed(g)))'
  BY TpmTotalIs, PTL

\* A step may admit against the bucket of g, moving it by the charge and what
\* time refilled, or credit it, capped at its limit.
BucketMoves(g, delta) ==
    \/ /\ refilled'[g] >= refilled[g]
       /\ tokens'[g] = tokens[g] - delta + (refilled'[g] - refilled[g])
    \/ /\ refilled'[g] = refilled[g]
       /\ tokens'[g] = Limit[g]
       /\ tokens[g] - delta >= Limit[g]

\* A step of q moves each bucket by what it changes of q's debt.
TpmStep(q) ==
    \A g \in Tpm : \E delta \in Int :
        /\ BucketMoves(g, delta)
        /\ TpmCharge(q, g)' = TpmCharge(q, g) + delta
        /\ \A p \in Requests \ {q} : TpmCharge(p, g)' = TpmCharge(p, g)

\* Such a step keeps every bucket between its bounds; that no total is negative
\* covers the cap.
LEMMA TpmMoved ==
    ASSUME TypeOK, TypeOK', TpmBalanced, NEW q \in Requests, TpmStep(q)
    PROVE  TpmBalanced'
  <1>1. SUFFICES ASSUME NEW g \in Tpm
                 PROVE  /\ tokens'[g] <= Limit[g] - TpmCharges(g)' + refilled'[g]
                        /\ tokens'[g] >= Limit[g] - TpmCharges(g)'
    BY DEF TpmBalanced
  <1>2. PICK delta \in Int :
          /\ BucketMoves(g, delta)
          /\ TpmCharge(q, g)' = TpmCharge(q, g) + delta
          /\ \A p \in Requests \ {q} : TpmCharge(p, g)' = TpmCharge(p, g)
    BY DEF TpmStep
  <1>3. TpmOwed(g) \in [Requests -> Nat] /\ IsTotal(TpmCharges(g), TpmOwed(g))
    BY TpmTotalIs
  <1>4. TpmOwed(g)' \in [Requests -> Nat] /\ IsTotal(TpmCharges(g)', TpmOwed(g)')
    BY TpmTotalIsNext DEF IsTotal, Sums
  <1>5. Moves(TpmOwed(g), TpmOwed(g)', Requests, q, delta)
    <2>1. SUFFICES ASSUME NEW p \in Requests
                   PROVE  TpmCharge(p, g)' = TpmCharge(p, g) + IF p = q THEN delta ELSE 0
      BY DEF Moves, TpmOwed
    <2>2. TpmCharge(p, g) \in Nat
      BY TpmChargeType
    <2>3. QED
      BY <1>2, <2>2
  <1>6. /\ TpmCharges(g) \in Int
        /\ TpmCharges(g)' = TpmCharges(g) + delta
    <2>1. TpmOwed(g) \in [Requests -> Int] /\ TpmOwed(g)' \in [Requests -> Int]
      BY <1>3, <1>4
    <2>2. /\ TpmCharges(g) \in Int
          /\ TpmCharges(g)' = TpmCharges(g) + IF q \in Requests THEN delta ELSE 0
      BY <1>3, <1>4, <1>5, <2>1, TotalChange
    <2>3. QED
      BY <2>2
  <1>7. TpmCharges(g)' \in Nat
    BY <1>4, TotalNonNegative
  <1>8. /\ tokens[g] \in Int /\ tokens'[g] \in Int /\ Limit[g] \in Nat
        /\ refilled[g] \in Nat /\ refilled'[g] \in Nat
    BY LimitsAssumption DEF TypeOK
  <1>9. /\ tokens[g] <= Limit[g] - TpmCharges(g) + refilled[g]
        /\ tokens[g] >= Limit[g] - TpmCharges(g)
    BY DEF TpmBalanced
  <1>10. QED
    BY <1>2, <1>6, <1>7, <1>8, <1>9 DEF BucketMoves

\* All buckets are full and nobody owes anything.
LEMMA TpmInit == Init => TpmBalanced
  <1> SUFFICES ASSUME Init, NEW g \in Tpm
               PROVE  /\ tokens[g] <= Limit[g] - TpmCharges(g) + refilled[g]
                      /\ tokens[g] >= Limit[g] - TpmCharges(g)
    BY DEF TpmBalanced
  <1>1. IsTotal(TpmCharges(g), TpmOwed(g))
    BY InitTyped, TpmTotalIs
  <1>2. TpmOwed(g) = [q \in Requests |-> 0]
    BY DEF TpmOwed, TpmCharge, Init
  <1>3. TpmCharges(g) = 0
    BY <1>1, <1>2, TotalZero
  <1>4. tokens[g] = Limit[g] /\ refilled[g] = 0 /\ Limit[g] \in Nat
    BY LimitsAssumption DEF Init
  <1>5. QED
    BY <1>3, <1>4

\* What a request owes a bucket it passed, phase by phase.
LEMMA ChargeCases ==
    ASSUME NEW q \in Requests, NEW g \in Tpm
    PROVE  /\ g \notin got[q] => TpmCharge(q, g) = 0
           /\ g \in got[q] /\ g \in lost[q] \cup todo[q] => TpmCharge(q, g) = Estimate[q]
           /\ g \in got[q] /\ pc[q] \notin Turning \cup {"settleTpm", "done"}
                => TpmCharge(q, g) = Estimate[q]
           /\ g \in got[q] /\ g \notin lost[q] \cup todo[q] /\ pc[q] \in Turning
                => TpmCharge(q, g) = 0
           /\ g \in got[q] /\ g \notin lost[q] \cup todo[q] /\ pc[q] \in {"settleTpm", "done"}
                => TpmCharge(q, g) = usage[q]
  BY DEF TpmCharge, Turning

\* ... also after a step.
LEMMA ChargeCasesNext ==
    (\A q \in Requests : \A g \in Tpm :
           /\ g \notin got[q] => TpmCharge(q, g) = 0
           /\ g \in got[q] /\ g \in lost[q] \cup todo[q] => TpmCharge(q, g) = Estimate[q]
           /\ g \in got[q] /\ pc[q] \notin Turning \cup {"settleTpm", "done"}
                => TpmCharge(q, g) = Estimate[q]
           /\ g \in got[q] /\ g \notin lost[q] \cup todo[q] /\ pc[q] \in Turning
                => TpmCharge(q, g) = 0
           /\ g \in got[q] /\ g \notin lost[q] \cup todo[q] /\ pc[q] \in {"settleTpm", "done"}
                => TpmCharge(q, g) = usage[q])'
  BY DEF TpmCharge, Turning

\* Another request's debts are its own.
LEMMA ChargeApart ==
    ASSUME NEW q \in Requests, OwnStep(q), NEW p \in Requests \ {q}, NEW g \in Tpm
    PROVE  TpmCharge(p, g)' = TpmCharge(p, g)
  BY DEF OwnStep, TpmCharge

\* A step without effect on buckets and debts.
LEMMA TpmIdle ==
    ASSUME TypeOK, NEW q \in Requests, OwnStep(q), UNCHANGED <<tokens, refilled>>,
           \A g \in Tpm : TpmCharge(q, g)' = TpmCharge(q, g)
    PROVE  TpmStep(q)
  <1>1. SUFFICES ASSUME NEW g \in Tpm
                 PROVE  /\ BucketMoves(g, 0)
                        /\ TpmCharge(q, g)' = TpmCharge(q, g) + 0
                        /\ \A p \in Requests \ {q} : TpmCharge(p, g)' = TpmCharge(p, g)
    BY DEF TpmStep
  <1>2. TpmCharge(q, g) \in Nat /\ tokens[g] \in Int /\ refilled[g] \in Nat
    BY TpmChargeType DEF TypeOK
  <1>3. QED
    BY <1>2, ChargeApart DEF BucketMoves

\* A gate script takes the estimate out of a bucket, after a refill.
LEMMA GateScriptMoves ==
    ASSUME TypeOK, NEW q \in Requests, NEW g \in Gates, NEW ok \in BOOLEAN,
           GateScript(q, g, ok), NEW h \in Tpm
    PROVE  IF ok /\ h = g THEN BucketMoves(h, Estimate[q]) ELSE BucketMoves(h, 0)
  <1>1. tokens[h] \in Int /\ refilled[h] \in Nat /\ Estimate[q] \in Nat /\ Limit[h] \in Int
    BY RequestsAssumption, LimitsAssumption DEF TypeOK
  <1>2. ASSUME tokens'[h] = tokens[h], refilled'[h] = refilled[h] PROVE BucketMoves(h, 0)
    BY <1>1, <1>2 DEF BucketMoves
  <1>3. CASE ZsetScript(q, g, ok)
    BY <1>2, <1>3 DEF ZsetScript
  <1>4. CASE BucketScript(q, g, ok)
    <2> DEFINE level(r) == Min({Limit[g], tokens[g] + r})
    <2>1. PICK r \in 0..(MaxRefill - refilled[g]) :
             /\ tokens' = [tokens EXCEPT ![g] = IF ok THEN level(r) - Estimate[q] ELSE @]
             /\ refilled' = [refilled EXCEPT ![g] = IF ok THEN @ + level(r) - tokens[g] ELSE @]
      BY <1>4 DEF BucketScript
    <2> HIDE DEF level
    <2>2. CASE h # g \/ ~ok
      BY <1>2, <2>1, <2>2 DEF TypeOK
    <2>3. CASE h = g /\ ok
      <3>1. /\ tokens'[g] = level(r) - Estimate[q]
            /\ refilled'[g] = refilled[g] + level(r) - tokens[g]
        BY <2>1, <2>3 DEF TypeOK
      <3>2. level(r) \in Int /\ level(r) >= tokens[g]
        <4>1. MaxRefill - refilled[g] \in Int
          BY <1>1, <2>3, BoundsAssumption
        <4>2. tokens[g] + r \in Int /\ tokens[g] + r >= tokens[g] /\ tokens[g] <= Limit[g]
          BY <1>1, <2>3, <4>1 DEF TypeOK
        <4>3. level(r) \in {Limit[g], tokens[g] + r}
          BY <1>1, <2>3, <4>2, MinOfTwo DEF level
        <4>4. QED
          BY <1>1, <2>3, <4>2, <4>3
      <3>3. QED
        BY <1>1, <2>3, <3>1, <3>2 DEF BucketMoves
    <2>4. QED
      BY <2>2, <2>3
  <1>5. QED
    BY <1>3, <1>4 DEF GateScript

\* A credit to an existing bucket is given in full or fills it.
LEMMA CreditMoves ==
    ASSUME TypeOK, NEW g \in opened, NEW delta \in Int, Credit(g, delta),
           UNCHANGED refilled, NEW h \in Tpm
    PROVE  IF h = g THEN BucketMoves(h, - delta) ELSE BucketMoves(h, 0)
  <1>1. tokens[h] \in Int /\ refilled[h] \in Nat /\ Limit[h] \in Int
    BY LimitsAssumption DEF TypeOK
  <1>2. CASE h # g
    BY <1>1, <1>2 DEF Credit, BucketMoves, TypeOK
  <1>3. CASE h = g
    <2>1. tokens'[g] = Min({Limit[g], tokens[g] + delta})
      BY <1>3 DEF Credit, TypeOK
    <2>2. /\ tokens'[g] \in {Limit[g], tokens[g] + delta}
          /\ tokens'[g] <= tokens[g] + delta
      <3>1. Limit[g] \in Int /\ tokens[g] + delta \in Int
        BY <1>1, <1>3
      <3>2. QED
        BY <2>1, <3>1, MinOfTwo
    <2>3. QED
      BY <1>1, <1>3, <2>2 DEF BucketMoves
  <1>4. QED
    BY <1>2, <1>3

\* Up to the settlement of tokens a request that goes on owes its estimates.
LEMMA TpmWaits ==
    ASSUME TypeOK, NEW q \in Requests, OwnStep(q), UNCHANGED <<tokens, refilled>>,
           got'[q] = got[q],
           pc[q] \notin Turning \cup {"settleTpm", "done"},
           pc'[q] \notin Turning \cup {"settleTpm", "done"}
    PROVE  TpmStep(q)
  <1>1. ASSUME NEW g \in Tpm PROVE TpmCharge(q, g)' = TpmCharge(q, g)
    <2>1. TpmCharge(q, g) = IF g \in got[q] THEN Estimate[q] ELSE 0
      BY ChargeCases
    <2>2. TpmCharge(q, g)' = IF g \in got[q] THEN Estimate[q] ELSE 0
      BY ChargeCasesNext
    <2>3. QED
      BY <2>1, <2>2
  <1>2. QED
    BY <1>1, TpmIdle

\* A request turned away still owes what its rollback has to return.
LEMMA TpmTurned ==
    ASSUME TypeOK, RequestInv, NEW q \in Requests, OwnStep(q), UNCHANGED <<tokens, refilled>>,
           pc[q] \in {"quota", "count"}, Begin(q, "undoQuota", rules[q]), UNCHANGED got
    PROVE  TpmStep(q)
  <1>1. ASSUME NEW g \in Tpm PROVE TpmCharge(q, g)' = TpmCharge(q, g)
    <2>1. TpmCharge(q, g) = IF g \in got[q] THEN Estimate[q] ELSE 0
      BY ChargeCases DEF Turning
    <2>2. g \in got[q] => g \in todo'[q]
      <3>1. todo'[q] = rules[q]
        BY BeginValues
      <3>2. QED
        BY <3>1 DEF RequestInv, RequestOK, Visits
    <2>3. TpmCharge(q, g)' = IF g \in got[q] THEN Estimate[q] ELSE 0
      BY <2>2, ChargeCasesNext
    <2>4. QED
      BY <2>1, <2>3
  <1>2. QED
    BY <1>1, TpmIdle

\* Every gate that a rollback or the settlement still has to visit admitted the
\* request to a bucket that exists, unless a gate script had failed.
LEMMA OwesWhatItVisits ==
    ASSUME TypeOK, RequestInv, "check" \notin FaultPoints, NEW q \in Requests, Live(q),
           pc[q] \in {"undoCheck", "undoQuota", "settleTpm"}, NEW g \in Tpm, g \in todo[q]
    PROVE  g \in got[q] /\ g \in opened /\ g \notin lost[q]
  <1>1. Visits(q) /\ Draws(q)
    BY DEF RequestInv, RequestOK
  <1>2. rules[q] = Gates /\ g \notin lost[q]
    BY <1>1 DEF Visits, TypeOK
  <1>3. g \in got[q]
    BY <1>1, <1>2 DEF Draws
  <1>4. g \in opened
    BY <1>1, <1>3 DEF Draws, Ended
  <1>5. QED
    BY <1>2, <1>3, <1>4

\* A step of a handler that works.
LEMMA TpmHandle ==
    ASSUME TypeOK, RequestInv, "check" \notin FaultPoints, NEW q \in Requests, Handle(q)
    PROVE  TpmStep(q)
  <1> USE DEF redisVars
  <1>0. OwnStep(q) /\ Visits(q) /\ Draws(q)
    BY RequestHandle DEF RequestInv, RequestOK
  <1>t. Estimate[q] \in Nat /\ usage[q] \in Nat
    BY RequestsAssumption DEF TypeOK
  <1>1. CASE Arrive(q)
    <2>1. /\ pc[q] = "new" /\ UNCHANGED <<got, tokens, refilled>>
          /\ \E gates : Begin(q, "check", gates)
      BY <1>1 DEF Arrive, At
    <2>2. pc'[q] \in {"check", "quota"}
      BY <2>1, BeginValues DEF After
    <2>3. QED
      BY <1>0, <2>1, <2>2, TpmWaits DEF Turning
  <1>2. ASSUME NEW g \in Gates, CheckGate(q, g)
        PROVE  TpmStep(q)
    <2> DEFINE back == (got[q] \ Conc) \cup (IF got[q] \cap Conc = {} THEN {} ELSE Conc)
    <2>1. /\ pc[q] = "check" /\ g \in todo[q] /\ g \notin got[q]
      BY <1>0, <1>2 DEF CheckGate, At, IsNext, Visits
    <2>2. PICK ok \in BOOLEAN :
             /\ GateScript(q, g, ok)
             /\ IF ok
                THEN /\ got' = [got EXCEPT ![q] = @ \cup {g}]
                     /\ Begin(q, "check", todo[q] \ {g})
                ELSE UNCHANGED got /\ Begin(q, "undoCheck", back)
      BY <1>2, <2>1 DEF CheckGate, Continue
    <2>3. SUFFICES ASSUME NEW h \in Tpm
                   PROVE  \E delta \in Int :
                            /\ BucketMoves(h, delta)
                            /\ TpmCharge(q, h)' = TpmCharge(q, h) + delta
      BY <1>0, ChargeApart DEF TpmStep
    <2>4. IF ok /\ h = g THEN BucketMoves(h, Estimate[q]) ELSE BucketMoves(h, 0)
      BY <2>2, GateScriptMoves
    <2>5. TpmCharge(q, h) = IF h \in got[q] THEN Estimate[q] ELSE 0
      BY <2>1, ChargeCases DEF Turning
    <2>6. got[q] \ Conc \subseteq back
      OBVIOUS
    <2> HIDE DEF back
    <2>7. CASE ok
      <3>1. pc'[q] \in {"check", "quota"} /\ got'[q] = got[q] \cup {g}
        <4>1. Begin(q, "check", todo[q] \ {g}) /\ got' = [got EXCEPT ![q] = @ \cup {g}]
          BY <2>2, <2>7
        <4>2. pc'[q] \in {"check", "quota"}
          BY <4>1, BeginValues DEF After
        <4>3. QED
          BY <4>1, <4>2 DEF TypeOK
      <3>2. TpmCharge(q, h)' = IF h \in got[q] \cup {g} THEN Estimate[q] ELSE 0
        BY <3>1, ChargeCasesNext DEF Turning
      <3>3. CASE h = g
        BY <1>t, <2>1, <2>4, <2>5, <2>7, <3>2, <3>3
      <3>4. CASE h # g
        <4>1. TpmCharge(q, h)' = TpmCharge(q, h) + 0 /\ BucketMoves(h, 0)
          BY <1>t, <2>4, <2>5, <3>2, <3>4
        <4>2. QED
          BY <4>1
      <3>5. QED
        BY <3>3, <3>4
    <2>8. CASE ~ok
      <3>1. todo'[q] = back /\ got'[q] = got[q] /\ pc'[q] \in Turning
        BY <2>2, <2>8, BeginValues DEF After, Turning
      <3>2. TpmCharge(q, h)' = IF h \in got[q] THEN Estimate[q] ELSE 0
        BY <2>6, <3>1, ChargeCasesNext
      <3>3. TpmCharge(q, h)' = TpmCharge(q, h) + 0 /\ BucketMoves(h, 0)
        BY <1>t, <2>4, <2>5, <2>8, <3>2
      <3>4. QED
        BY <3>3
    <2>9. QED
      BY <2>7, <2>8
  <1>3. ASSUME NEW g \in Gates, Return(q, g)
        PROVE  TpmStep(q)
    <2>1. /\ pc[q] \in {"undoCheck", "undoQuota", "release"} /\ Live(q) /\ g \in todo[q]
          /\ UNCHANGED <<got, lost, refilled>>
          /\ GiveBack(q, g)
          /\ Begin(q, pc[q], todo[q] \ {g})
      BY <1>3 DEF Return, At, IsNext, Continue
    <2>2. CASE pc[q] = "release"
      <3>1. pc'[q] \in {"release", "settleQuota", "enqueue"}
        BY <2>1, <2>2, BeginValues DEF After, Finalizing
      <3>2. UNCHANGED tokens
        BY <1>0, <2>1, <2>2 DEF GiveBack, Visits
      <3>3. QED
        BY <1>0, <2>1, <2>2, <3>1, <3>2, TpmWaits DEF Turning
    <2>3. CASE pc[q] \in {"undoCheck", "undoQuota"}
      <3>1. /\ pc'[q] \in Turning /\ pc[q] \in Turning /\ todo'[q] = todo[q] \ {g}
        BY <2>1, <2>3, BeginValues DEF After, Turning
      <3>2. SUFFICES ASSUME NEW h \in Tpm
                     PROVE  \E delta \in Int :
                              /\ BucketMoves(h, delta)
                              /\ TpmCharge(q, h)' = TpmCharge(q, h) + delta
        BY <1>0, ChargeApart DEF TpmStep
      <3>3. CASE h = g
        <4>1. g \in got[q] /\ g \in opened /\ g \notin lost[q]
          BY <2>1, <2>3, <3>3, OwesWhatItVisits
        <4>2. BucketMoves(h, - Estimate[q])
          BY <1>t, <2>1, <3>3, <4>1, CreditMoves DEF GiveBack
        <4>3. TpmCharge(q, h) = Estimate[q]
          BY <2>1, <3>3, <4>1, ChargeCases
        <4>4. TpmCharge(q, h)' = 0
          BY <2>1, <3>1, <3>3, <4>1, ChargeCasesNext
        <4>5. - Estimate[q] \in Int /\ TpmCharge(q, h)' = TpmCharge(q, h) + (- Estimate[q])
          BY <1>t, <4>3, <4>4
        <4>6. QED
          BY <4>2, <4>5
      <3>4. CASE h # g
        <4>1. TpmCharge(q, h)' = TpmCharge(q, h) /\ TpmCharge(q, h) \in Nat
          BY <2>1, <3>1, <3>4, ChargeCases, ChargeCasesNext, TpmChargeType
        <4>2. BucketMoves(h, 0)
          <5>1. tokens[h] \in Int /\ refilled[h] \in Nat
            BY DEF TypeOK
          <5>2. tokens'[h] = tokens[h]
            BY <2>1, <3>4 DEF GiveBack, Credit, TypeOK
          <5>3. QED
            BY <2>1, <5>1, <5>2 DEF BucketMoves
        <4>3. TpmCharge(q, h)' = TpmCharge(q, h) + 0
          BY <4>1
        <4>4. QED
          BY <4>2, <4>3
      <3>5. QED
        BY <3>3, <3>4
    <2>4. QED
      BY <2>1, <2>2, <2>3
  <1>4. ASSUME NEW g \in Gates, SettleTpm(q, g)
        PROVE  TpmStep(q)
    <2>1. /\ pc[q] = "settleTpm" /\ Live(q) /\ g \in todo[q] /\ g \in Tpm
          /\ UNCHANGED <<got, lost, usage, refilled>>
          /\ Credit(g, Estimate[q] - usage[q])
          /\ Begin(q, "settleTpm", todo[q] \ {g})
      BY <1>0, <1>4 DEF SettleTpm, At, IsNext, Continue, Visits
    <2>2. pc'[q] \in {"settleTpm", "done"} /\ todo'[q] = todo[q] \ {g}
      BY <2>1, BeginValues DEF After
    <2>3. g \in got[q] /\ g \in opened /\ g \notin lost[q]
      BY <2>1, OwesWhatItVisits
    <2>4. SUFFICES ASSUME NEW h \in Tpm
                   PROVE  \E delta \in Int :
                            /\ BucketMoves(h, delta)
                            /\ TpmCharge(q, h)' = TpmCharge(q, h) + delta
      BY <1>0, ChargeApart DEF TpmStep
    <2>5. Estimate[q] - usage[q] \in Int
      BY <1>t
    <2>6. IF h = g THEN BucketMoves(h, - (Estimate[q] - usage[q])) ELSE BucketMoves(h, 0)
      BY <2>1, <2>3, <2>5, CreditMoves
    <2>7. CASE h = g
      <3>1. TpmCharge(q, h) = Estimate[q]
        BY <2>1, <2>3, <2>7, ChargeCases
      <3>2. TpmCharge(q, h)' = usage[q]
        BY <2>1, <2>2, <2>3, <2>7, ChargeCasesNext
      <3>3. /\ - (Estimate[q] - usage[q]) \in Int
            /\ TpmCharge(q, h)' = TpmCharge(q, h) + (- (Estimate[q] - usage[q]))
        BY <1>t, <3>1, <3>2
      <3>4. QED
        BY <2>6, <2>7, <3>3
    <2>8. CASE h # g
      <3>1. TpmCharge(q, h)' = TpmCharge(q, h) /\ TpmCharge(q, h) \in Nat
        BY <2>1, <2>2, <2>8, ChargeCases, ChargeCasesNext, TpmChargeType
      <3>2. TpmCharge(q, h)' = TpmCharge(q, h) + 0
        BY <3>1
      <3>3. QED
        BY <2>6, <2>8, <3>2
    <2>9. QED
      BY <2>7, <2>8
  <1>5. CASE CheckQuota(q)
    <2>1. CASE \E k \in Enforced : quota[k] + Reserve(q, k) > QLimit[k]
      <3>1. /\ pc[q] = "quota" /\ Begin(q, "undoQuota", rules[q])
            /\ UNCHANGED <<got, tokens, refilled>>
        BY <1>5, <2>1 DEF CheckQuota, At
      <3>2. QED
        BY <1>0, <3>1, TpmTurned
    <2>2. CASE ~\E k \in Enforced : quota[k] + Reserve(q, k) > QLimit[k]
      <3>1. /\ pc[q] = "quota" /\ pc'[q] = "count"
            /\ UNCHANGED <<got, tokens, refilled>>
        BY <1>5, <2>2 DEF CheckQuota, At, TypeOK
      <3>2. QED
        BY <1>0, <3>1, TpmWaits DEF Turning
    <2>3. QED
      BY <2>1, <2>2
  <1>6. CASE ReadCounts(q) \/ StartStream(q) \/ Respond(q) \/ CallRaises(q)
    <2>1. /\ pc[q] \in {"count", "upstream"}
          /\ pc'[q] \in {"upstream", "stream", "settleQuota", "enqueue"}
          /\ UNCHANGED <<got, tokens, refilled>>
      BY <1>6 DEF ReadCounts, StartStream, Respond, CallRaises, Finalize, Finalizing, At, TypeOK
    <2>2. QED
      BY <1>0, <2>1, TpmWaits DEF Turning
  <1>7. CASE EndStream(q)
    <2>1. /\ pc[q] = "stream" /\ Begin(q, "release", rules[q] \cap Conc)
          /\ UNCHANGED <<got, tokens, refilled>>
      BY <1>7 DEF EndStream, At
    <2>2. pc'[q] \in {"release", "settleQuota", "enqueue"}
      BY <2>1, BeginValues DEF After, Finalizing
    <2>3. QED
      BY <1>0, <2>1, <2>2, TpmWaits DEF Turning
  <1>8. ASSUME NEW k \in Quotas, SettleQuota(q, k)
        PROVE  TpmStep(q)
    <2>1. /\ pc[q] = "settleQuota" /\ pc'[q] \in {"settleQuota", "enqueue"}
          /\ UNCHANGED <<got, tokens, refilled>>
      BY <1>8 DEF SettleQuota, At, TypeOK
    <2>2. QED
      BY <1>0, <2>1, TpmWaits DEF Turning
  <1>9. CASE EnqueueUsage(q)
    <2> DEFINE gates == IF usage[q] = Estimate[q] THEN {} ELSE rules[q] \cap Tpm
    <2>1. /\ pc[q] = "enqueue" /\ Begin(q, "settleTpm", gates)
          /\ UNCHANGED <<got, lost, usage, tokens, refilled>>
      BY <1>9 DEF EnqueueUsage, At
    <2>2. pc'[q] \in {"settleTpm", "done"} /\ todo'[q] = gates
      BY <2>1, BeginValues DEF After
    <2>3. ASSUME NEW g \in Tpm PROVE TpmCharge(q, g)' = TpmCharge(q, g)
      <3>1. TpmCharge(q, g) = IF g \in got[q] THEN Estimate[q] ELSE 0
        BY <2>1, ChargeCases DEF Turning
      <3>2. CASE g \notin got[q]
        BY <2>1, <3>1, <3>2, ChargeCasesNext
      <3>3. CASE g \in got[q] /\ usage[q] = Estimate[q]
        BY <2>1, <2>2, <3>1, <3>3, ChargeCasesNext
      <3>4. CASE g \in got[q] /\ usage[q] # Estimate[q]
        <4>1. g \in todo'[q]
          BY <1>0, <2>2, <3>4 DEF Visits
        <4>2. QED
          BY <2>1, <3>1, <3>4, <4>1, ChargeCasesNext
      <3>5. QED
        BY <3>2, <3>3, <3>4
    <2>4. QED
      BY <1>0, <2>1, <2>3, TpmIdle
  <1>10. QED
    BY <1>1, <1>2, <1>3, <1>4, <1>5, <1>6, <1>7, <1>8, <1>9 DEF Handle

\* A step of a handler that a fault strikes.
LEMMA TpmFail ==
    ASSUME TypeOK, RequestInv, "check" \notin FaultPoints, NEW q \in Requests, Fail(q)
    PROVE  TpmStep(q)
  <1> USE DEF redisVars
  <1>0. OwnStep(q) /\ Visits(q) /\ Draws(q)
    BY RequestFail DEF RequestInv, RequestOK
  <1>t. Estimate[q] \in Nat /\ usage[q] \in Nat
    BY RequestsAssumption DEF TypeOK
  <1>1. ASSUME NEW g \in Gates, CheckRaises(q, g)
        PROVE  TpmStep(q)
    BY <1>1 DEF CheckRaises, Fault
  <1>2. ASSUME NEW g \in Gates, ReturnRaises(q, g)
        PROVE  TpmStep(q)
    <2> DEFINE skipped == {h \in todo[q] : h.kind = g.kind}
    <2>1. /\ pc[q] \in {"undoCheck", "undoQuota", "release"} /\ Live(q) /\ g \in todo[q]
          /\ UNCHANGED <<got, refilled>>
          /\ Begin(q, pc[q], todo[q] \ skipped)
      BY <1>2 DEF ReturnRaises, At, IsNext, Continue
    <2>2. g \in skipped /\ skipped \subseteq todo[q]
      BY <2>1
    <2>3. \/ GiveBack(q, g) /\ lost' = [lost EXCEPT ![q] = @ \cup (got[q] \cap (skipped \ {g}))]
          \/ UNCHANGED <<members, tokens>>
             /\ lost' = [lost EXCEPT ![q] = @ \cup (got[q] \cap skipped)]
      BY <1>2 DEF ReturnRaises
    <2> HIDE DEF skipped
    <2>4. CASE pc[q] = "release"
      <3>1. pc'[q] \in {"release", "settleQuota", "enqueue"}
        BY <2>1, <2>4, BeginValues DEF After, Finalizing
      <3>2. UNCHANGED tokens
        BY <1>0, <2>1, <2>3, <2>4 DEF GiveBack, Visits
      <3>3. QED
        BY <1>0, <2>1, <2>4, <3>1, <3>2, TpmWaits DEF Turning
    <2>5. CASE pc[q] \in {"undoCheck", "undoQuota"}
      <3>1. pc'[q] \in Turning /\ pc[q] \in Turning /\ todo'[q] = todo[q] \ skipped
        BY <2>1, <2>5, BeginValues DEF After, Turning
      <3>2. SUFFICES ASSUME NEW h \in Tpm
                     PROVE  \E delta \in Int :
                              /\ BucketMoves(h, delta)
                              /\ TpmCharge(q, h)' = TpmCharge(q, h) + delta
        BY <1>0, ChargeApart DEF TpmStep
      <3>3. tokens[h] \in Int /\ refilled[h] \in Nat /\ TpmCharge(q, h) \in Nat
        BY TpmChargeType DEF TypeOK
      <3>4. CASE GiveBack(q, g) /\ lost' = [lost EXCEPT ![q] = @ \cup (got[q] \cap (skipped \ {g}))]
        <4>1. lost'[q] = lost[q] \cup (got[q] \cap (skipped \ {g}))
          BY <3>4 DEF TypeOK
        <4>2. CASE h = g
          <5>1. g \in got[q] /\ g \in opened /\ g \notin lost[q]
            BY <2>1, <2>5, <4>2, OwesWhatItVisits
          <5>2. BucketMoves(h, - Estimate[q])
            BY <1>t, <2>1, <3>4, <4>2, <5>1, CreditMoves DEF GiveBack
          <5>3. TpmCharge(q, h) = Estimate[q]
            BY <2>1, <4>2, <5>1, ChargeCases
          <5>4. TpmCharge(q, h)' = 0
            BY <2>1, <2>2, <3>1, <4>1, <4>2, <5>1, ChargeCasesNext
          <5>5. - Estimate[q] \in Int /\ TpmCharge(q, h)' = TpmCharge(q, h) + (- Estimate[q])
            BY <1>t, <5>3, <5>4
          <5>6. QED
            BY <5>2, <5>5
        <4>3. CASE h # g
          <5>1. TpmCharge(q, h)' = TpmCharge(q, h)
            BY <2>1, <2>2, <3>1, <4>1, <4>3, ChargeCases, ChargeCasesNext
          <5>2. tokens'[h] = tokens[h]
            BY <3>4, <4>3 DEF GiveBack, Credit, TypeOK
          <5>3. BucketMoves(h, 0) /\ TpmCharge(q, h)' = TpmCharge(q, h) + 0
            BY <2>1, <3>3, <5>1, <5>2 DEF BucketMoves
          <5>4. QED
            BY <5>3
        <4>4. QED
          BY <4>2, <4>3
      <3>5. CASE /\ UNCHANGED <<members, tokens>>
                 /\ lost' = [lost EXCEPT ![q] = @ \cup (got[q] \cap skipped)]
        <4>1. lost'[q] = lost[q] \cup (got[q] \cap skipped)
          BY <3>5 DEF TypeOK
        <4>2. TpmCharge(q, h)' = TpmCharge(q, h)
          BY <2>1, <2>2, <3>1, <4>1, ChargeCases, ChargeCasesNext
        <4>3. BucketMoves(h, 0) /\ TpmCharge(q, h)' = TpmCharge(q, h) + 0
          BY <2>1, <3>3, <3>5, <4>2 DEF BucketMoves
        <4>4. QED
          BY <4>3
      <3>6. QED
        BY <2>3, <3>4, <3>5
    <2>6. QED
      BY <2>1, <2>4, <2>5
  <1>3. ASSUME NEW g \in Gates, SettleTpmRaises(q, g)
        PROVE  TpmStep(q)
    <2>1. /\ pc[q] = "settleTpm" /\ Live(q) /\ g \in todo[q] /\ g \in Tpm
          /\ UNCHANGED <<got, usage, refilled>>
          /\ Begin(q, "settleTpm", {})
      BY <1>0, <1>3 DEF SettleTpmRaises, At, IsNext, Continue, Visits
    <2>2. pc'[q] = "done" /\ todo'[q] = {}
      BY <2>1, BeginValues DEF After
    <2>3. g \in got[q] /\ g \in opened /\ g \notin lost[q]
      BY <2>1, OwesWhatItVisits
    <2>4. SUFFICES ASSUME NEW h \in Tpm
                   PROVE  \E delta \in Int :
                            /\ BucketMoves(h, delta)
                            /\ TpmCharge(q, h)' = TpmCharge(q, h) + delta
      BY <1>0, ChargeApart DEF TpmStep
    <2>5. tokens[h] \in Int /\ refilled[h] \in Nat /\ TpmCharge(q, h) \in Nat
      BY TpmChargeType DEF TypeOK
    <2>6. CASE /\ Credit(g, Estimate[q] - usage[q])
               /\ lost' = [lost EXCEPT ![q] = @ \cup (got[q] \cap (todo[q] \ {g}))]
      <3>1. lost'[q] = lost[q] \cup (got[q] \cap (todo[q] \ {g}))
        BY <2>6 DEF TypeOK
      <3>2. Estimate[q] - usage[q] \in Int
        BY <1>t
      <3>3. IF h = g THEN BucketMoves(h, - (Estimate[q] - usage[q])) ELSE BucketMoves(h, 0)
        BY <2>1, <2>3, <2>6, <3>2, CreditMoves
      <3>4. CASE h = g
        <4>1. TpmCharge(q, h) = Estimate[q]
          BY <2>1, <2>3, <3>4, ChargeCases
        <4>2. TpmCharge(q, h)' = usage[q]
          BY <2>1, <2>2, <2>3, <3>1, <3>4, ChargeCasesNext
        <4>3. /\ - (Estimate[q] - usage[q]) \in Int
              /\ TpmCharge(q, h)' = TpmCharge(q, h) + (- (Estimate[q] - usage[q]))
          BY <1>t, <4>1, <4>2
        <4>4. QED
          BY <3>3, <3>4, <4>3
      <3>5. CASE h # g
        <4>1. TpmCharge(q, h)' = TpmCharge(q, h)
          BY <2>1, <2>2, <3>1, <3>5, ChargeCases, ChargeCasesNext
        <4>2. TpmCharge(q, h)' = TpmCharge(q, h) + 0
          BY <2>5, <4>1
        <4>3. QED
          BY <3>3, <3>5, <4>2
      <3>6. QED
        BY <3>4, <3>5
    <2>7. CASE UNCHANGED tokens /\ lost' = [lost EXCEPT ![q] = @ \cup (got[q] \cap todo[q])]
      <3>1. lost'[q] = lost[q] \cup (got[q] \cap todo[q])
        BY <2>7 DEF TypeOK
      <3>2. TpmCharge(q, h)' = TpmCharge(q, h)
        BY <2>1, <2>2, <3>1, ChargeCases, ChargeCasesNext
      <3>3. BucketMoves(h, 0) /\ TpmCharge(q, h)' = TpmCharge(q, h) + 0
        BY <2>1, <2>5, <2>7, <3>2 DEF BucketMoves
      <3>4. QED
        BY <3>3
    <2>8. QED
      BY <1>3, <2>6, <2>7 DEF SettleTpmRaises
  <1>4. CASE CheckQuotaRaises(q) \/ ReadCountsRaises(q)
    <2>1. /\ pc[q] \in {"quota", "count"}
          /\ Begin(q, "undoQuota", rules[q])
          /\ UNCHANGED <<got, tokens, refilled>>
      BY <1>4 DEF CheckQuotaRaises, ReadCountsRaises, At
    <2>2. QED
      BY <1>0, <2>1, TpmTurned
  <1>5. CASE Abandon(q)
    <2>1. /\ pc[q] = "upstream" /\ pc'[q] = "abandoned"
          /\ UNCHANGED <<got, tokens, refilled>>
      BY <1>5 DEF Abandon, At, TypeOK
    <2>2. QED
      BY <1>0, <2>1, TpmWaits DEF Turning
  <1>6. ASSUME NEW k \in Quotas, SettleQuotaRaises(q, k)
        PROVE  TpmStep(q)
    <2>1. /\ pc[q] = "settleQuota" /\ pc'[q] = "enqueue"
          /\ UNCHANGED <<got, tokens, refilled>>
      BY <1>6 DEF SettleQuotaRaises, At, TypeOK
    <2>2. QED
      BY <1>0, <2>1, TpmWaits DEF Turning
  <1>7. QED
    BY <1>1, <1>2, <1>3, <1>4, <1>5, <1>6 DEF Fail

\* A step that is no request's leaves the debts alone.
LEMMA TpmChargesKept ==
    ASSUME UNCHANGED <<pc, todo, got, lost, usage>>, NEW g \in Tpm
    PROVE  TpmCharges(g)' = TpmCharges(g)
  BY DEF TpmCharges, MapThenSumSet, MapThenFoldSet, TpmCharge

\* Every step keeps the buckets balanced.
LEMMA TpmBalancedStep ==
    ASSUME "check" \notin FaultPoints
    PROVE  TypeOK /\ TypeOK' /\ RequestInv /\ TpmBalanced /\ [Next]_vars => TpmBalanced'
  <1> SUFFICES ASSUME TypeOK, TypeOK', RequestInv, TpmBalanced, [Next]_vars
               PROVE  TpmBalanced'
    OBVIOUS
  <1>1. ASSUME NEW p \in Procs, Crash(p)
        PROVE  TpmBalanced'
    BY <1>1, TpmChargesKept DEF Crash, reqVars, redisVars, TpmBalanced
  <1>2. ASSUME NEW g \in Tpm, BucketExpires(g)
        PROVE  TpmBalanced'
    <2>1. SUFFICES ASSUME NEW h \in Tpm
                   PROVE  /\ tokens'[h] <= Limit[h] - TpmCharges(h) + refilled'[h]
                          /\ tokens'[h] >= Limit[h] - TpmCharges(h)
      <3>1. \A h \in Tpm : TpmCharges(h)' = TpmCharges(h)
        BY <1>2, TpmChargesKept DEF BucketExpires, reqVars
      <3>2. QED
        BY <3>1 DEF TpmBalanced
    <2>2. /\ tokens[h] <= Limit[h] - TpmCharges(h) + refilled[h]
          /\ tokens[h] >= Limit[h] - TpmCharges(h)
      BY DEF TpmBalanced
    <2>3. /\ tokens[h] \in Int /\ refilled[h] \in Nat /\ Limit[h] \in Nat
          /\ TpmCharges(h) \in Nat
      BY TpmTotalIs, TotalNonNegative, LimitsAssumption DEF TypeOK
    <2>4. \/ tokens'[h] = tokens[h] /\ refilled'[h] = refilled[h]
          \/ tokens'[h] = Limit[h] /\ refilled'[h] = refilled[h] + Limit[h] - tokens[h]
      BY <1>2 DEF BucketExpires, TypeOK
    <2>5. QED
      BY <2>2, <2>3, <2>4
  <1>3. CASE UNCHANGED vars
    BY <1>3, TpmChargesKept DEF vars, TpmBalanced
  <1>4. ASSUME NEW q \in Requests, Handle(q) \/ Fail(q)
        PROVE  TpmBalanced'
    BY <1>4, TpmHandle, TpmFail, TpmMoved
  <1>5. QED
    BY <1>1, <1>2, <1>3, <1>4 DEF Next

\* Unless a gate script fails (the emergency limiter then admits requests that never
\* drew the tokens their settlement refunds), every bucket holds its limit less what
\* the requests reserved or used, give or take the refill: each reservation is
\* returned or reconciled exactly once.
THEOREM BucketsBalance ==
    ASSUME "check" \notin FaultPoints
    PROVE  Spec => []TpmBalanced
  BY RequestInit, RequestStep, TpmInit, TpmBalancedStep, InitTyped, NextTyped, PTL DEF Spec

=============================================================================
