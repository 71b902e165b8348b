------------------------------ MODULE WeakLink ------------------------------
(***************************************************************************)
(* WeakLinkAnalyzer of radiald/weaklink.py.  Severity, confidence, status  *)
(* multipliers and thresholds are hundredths, so that the residual risk of *)
(* a signal, their product, is an integer from 0 to 1000000; the rounding  *)
(* of floating point is left out.                                          *)
(***************************************************************************)
EXTENDS Integers

Hundredths == 0 .. 100

Statuses == {"DETECTED", "CONTAINED", "CLOSED", "UNRESOLVED"}

Multiplier(status) == IF status = "CLOSED" THEN 0
                      ELSE IF status = "CONTAINED" THEN 35
                      ELSE IF status = "DETECTED" THEN 75
                      ELSE 100

ResidualRisk(s) == s.severity * s.confidence * Multiplier(s.status)

\* The thresholds of a WeakLinkPolicy descend.
LinkPolicies ==
    {p \in [human_required_at : Hundredths, conditional_at : Hundredths,
            bounded_at : Hundredths] :
        p.human_required_at >= p.conditional_at /\ p.conditional_at >= p.bounded_at}

\* The highest residual risk of links, 0 when there is none, reaches t.
RiskReaches(links, t) == t = 0 \/ \E s \in links : ResidualRisk(s) >= t * 10000

\* Links are ranked by residual risk, then irreversible before reversible, then
\* by depth.  (Names break what ties remain; that choice is left open.)
\* Bug: the risk before containment or closure.
OutranksBySeverity(s, t) == s.severity * s.confidence > t.severity * t.confidence
Outranks(s, t) ==
    \/ ResidualRisk(s) > ResidualRisk(t)
    \/ /\ ResidualRisk(s) = ResidualRisk(t)
       /\ \/ ~s.reversible /\ t.reversible
          \/ s.reversible = t.reversible /\ s.depth > t.depth

\* The links one of which is the bounding_link; none if nothing is at risk.
BoundingLinks(links) ==
    {s \in links : ResidualRisk(s) > 0 /\ \A t \in links : ~Outranks(t, s)}

Levels == <<"human_required", "conditional_execution", "bounded_autonomy",
            "autonomous_with_receipts">>

\* maximum_safe_autonomy, as an index of Levels.
Autonomy(links, p) ==
    IF RiskReaches(links, p.human_required_at) THEN 1
    ELSE IF RiskReaches(links, p.conditional_at) THEN 2
    ELSE IF RiskReaches(links, p.bounded_at) THEN 3
    ELSE 4
=============================================================================
