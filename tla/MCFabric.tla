------------------------------ MODULE MCFabric ------------------------------
(***************************************************************************)
(* Instances of Fabric for TLC: two sources, one binding field, evidence   *)
(* that is fresh, stale, from the future, tampered with, failed, or about  *)
(* another action.                                                         *)
(***************************************************************************)
EXTENDS Fabric, TLC

CONSTANTS a, b, f

Unbound == [x \in {} |-> 1]

Envelope(source, scope, disposition, at, intact, bindings) ==
    [source |-> source, scope |-> scope, disposition |-> disposition,
     verified_at |-> at, intact |-> intact, bindings |-> bindings]

MCEnvelopes == {
    Envelope(a, "preflight",  "VERIFIED", 0, TRUE,  f :> 1),
    Envelope(a, "preflight",  "VERIFIED", 2, TRUE,  Unbound),
    Envelope(a, "preflight",  "VERIFIED", 1, FALSE, f :> 1),
    Envelope(b, "preflight",  "VERIFIED", 1, TRUE,  f :> 1),
    Envelope(b, "historical", "VERIFIED", 0, TRUE,  f :> 2),
    Envelope(b, "historical", "FAILED",   0, TRUE,  f :> 1)}

\* Envelopes that name the action, one of them dated at the last moment.
DatedEnvelopes ==
    {Envelope(a, "preflight", "VERIFIED", at, TRUE, f :> 1) : at \in {0, 2}}

\* A condition of the policy declared closed or contained by a producer, and
\* three opinions on one other condition.
Opinion(name, severity, confidence, status, depth, reversible) ==
    [name |-> name, severity |-> severity, confidence |-> confidence,
     status |-> status, depth |-> depth, reversible |-> reversible]

MCProducible == {
    Opinion(RequiredName(b),  100, 100, "CLOSED",    0, TRUE),
    Opinion(FreshnessName(a), 10,  50,  "CONTAINED", 0, TRUE),
    Opinion(<<"condition">>,  60,  90,  "CLOSED",    0, TRUE),
    Opinion(<<"condition">>,  90,  80,  "CONTAINED", 1, FALSE),
    Opinion(<<"condition">>,  80,  100, "DETECTED",  2, TRUE)}

Policy(required, fields, preflight, require, age, limit) ==
    [required_sources |-> required, required_fields |-> fields,
     preflight_sources |-> preflight, require_preflight |-> require,
     max_age |-> age, max_envelopes |-> limit]

\* A requirement without preflight.
DatedPolicies == {Policy({a}, {f}, {}, FALSE, 1, 2)}

MCPolicies == DatedPolicies \cup {
    Policy({a, b}, {f}, {},  TRUE,  1, 2),
    Policy({a, b}, {f}, {a}, FALSE, 0, 3),
    Policy({a},    {},  {a}, TRUE,  2, 1)}

\* The default thresholds, and the strictest and most lenient below certainty.
DefaultThresholds ==
    {[human_required_at |-> 80, conditional_at |-> 50, bounded_at |-> 20]}
MCThresholds == DefaultThresholds \cup {
    [human_required_at |-> 100, conditional_at |-> 100, bounded_at |-> 0]}

=============================================================================
