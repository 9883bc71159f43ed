---------------------------- MODULE MCAdmission ----------------------------
(* Instances of Admission for TLC.                                         *)
EXTENDS Admission, TLC

CONSTANTS q1, q2, q3, p1, p2, k1, k2

TwoProcesses == [q \in Requests |-> IF q = q1 THEN p1 ELSE p2]

\* The estimate is between the usages the upstream may report.
SameEstimate == [q \in Requests |-> 2]

\* One rule limits requests and tokens, a second one tokens and streams.
rpm1 == [kind |-> "rpm", rule |-> 1]
tpm1 == [kind |-> "tpm", rule |-> 1]
tpm2 == [kind |-> "tpm", rule |-> 2]
conc2 == [kind |-> "conc", rule |-> 2]
TwoRules == {rpm1, tpm1, tpm2, conc2}
LimitOf == [g \in TwoRules |-> CASE g = rpm1 -> 2 [] g = tpm1 -> 4 [] g = tpm2 -> 3 [] OTHER -> 1]

\* Two rules that both limit streams, the first with room for two.
conc1 == [kind |-> "conc", rule |-> 1]
SlotRules == {rpm1, conc1, conc2}
SlotLimitOf == [g \in SlotRules |-> CASE g = conc2 -> 1 [] OTHER -> 2]

MetricOf == [k \in Quotas |-> IF k = k1 THEN "requests" ELSE "tokens"]
QuotaLimitOf == [k \in Quotas |-> IF k = k1 THEN 2 ELSE 3]

\* q2 and q3 are interchangeable in every instance that has both.
Symmetry == Permutations({q2, q3})

=============================================================================
