------------------------------ MODULE Adapters ------------------------------
(***************************************************************************)
(* radiald/adapters.py: the reports of five producers, and what was found  *)
(* when they were verified, become weak-link signals and one ceiling of    *)
(* autonomy.  Reports are supplied and revised one field at a time, as     *)
(* verifications end, actions are executed and observers report; between   *)
(* two revisions the bundle may be analyzed.                               *)
(***************************************************************************)
EXTENDS WeakLink, Sequences, FiniteSets

CONSTANTS
    Dimensions,    \* _REQUIRED_RECEIPT_DIMENSIONS
    FindingLists,  \* what the findings of a decision may be
    FindingLimit,  \* how many of them are read, 64
    MaxSupplied,   \* bound on the reports in a bundle
    NotSupplied,   \* a producer without a report
    Malformed,     \* a report that is not an object
    NoReport       \* no analysis of the present bundle yet

Decisions == {"ALLOW", "BLOCK", "other"}

\* What the code reads of each report, with the results of its verification;
\* passed are the dimensions whose status is PASS.  A disposition and findings
\* are those of the payload, or of the decision itself if it has none.
\* material_divergence may be missing, null, false or true in two places.
Divergences == {"missing", "null", "false", "true"}
Reports == [
    action     |-> [decision : Decisions, passed : SUBSET Dimensions,
                    executed : BOOLEAN, verified : BOOLEAN, errors : BOOLEAN,
                    mode : {"historical", "preflight", "other"}],
    physical   |-> [disposition : Decisions, findings : FindingLists,
                    verified : BOOLEAN, lineage : {"ok", "rejected", "none"}],
    dsr        |-> [verified : BOOLEAN, passed : BOOLEAN, exitZero : BOOLEAN],
    renderdiff |-> [assessment : Divergences, summary : Divergences,
                    complete : BOOLEAN, verified : BOOLEAN],
    transition |-> [disposition : {"CLOSED", "FAILED", "other"}]]

Producers == DOMAIN Reports

\* A finding has a code, and a disposition of its own or "inherited"; what is
\* no report is not one of the reports.
ASSUME AdaptersAssumption ==
    /\ \A l \in FindingLists :
          l \in Seq([code : STRING, disposition : Decisions \cup {"inherited"}])
    /\ FindingLimit \in Nat \ {0}
    /\ MaxSupplied \in Nat
    /\ \A p \in Producers : NotSupplied \notin Reports[p] /\ Malformed \notin Reports[p]

VARIABLES supplied, report

vars == <<supplied, report>>
---------------------------------------------------------------------------
Link(name, severity, confidence, status, depth, reversible) ==
    [name |-> name, severity |-> severity, confidence |-> confidence,
     status |-> status, depth |-> depth, reversible |-> reversible]

Format(name) == {Link(<<name>>, 100, 100, "UNRESOLVED", 0, FALSE)}

Closing(closed) == IF closed THEN "CLOSED" ELSE "UNRESOLVED"

\* A condition that is met is closed, one under which nothing was done is
\* contained.
Verdict(closed, contained) == IF closed THEN "CLOSED"
                              ELSE IF contained THEN "CONTAINED"
                              ELSE "UNRESOLVED"

\* Bug: errors of the verification are only quoted.
TrustClosedWithErrors(r) == r.verified
TrustClosed(r) == r.verified /\ ~r.errors

\* Bug: whatever is not historical is current.
CurrentUnlessHistorical(r) == TrustClosed(r) /\ r.mode # "historical"
Current(r) == TrustClosed(r) /\ r.mode = "preflight"

action_receipt_signals(r) ==
    LET allowed == TrustClosed(r) /\ r.decision = "ALLOW"
        blocked == TrustClosed(r) /\ r.decision = "BLOCK"
    IN  {Link(<<"action_receipt_trust">>, 100, 100, Closing(TrustClosed(r)), 0, FALSE),
         Link(<<"action_authorization">>, 95, 100, Verdict(allowed, blocked), 1, FALSE),
         Link(<<"authorization_freshness">>, 95, 100, Closing(Current(r)), 2, FALSE),
         Link(<<"action_execution_binding">>, 90, 100,
              Verdict(allowed /\ r.executed, blocked /\ ~r.executed), 1, FALSE)}
        \cup {Link(<<"receipt", d>>, 80, 95,
                   Verdict(TrustClosed(r) /\ d \in r.passed, blocked), 0, TRUE) :
                 d \in Dimensions}

\* A finding is never closed.
FindingStatus(d, f) ==
    Verdict(FALSE, /\ d.verified
                   /\ "BLOCK" = IF f.disposition = "inherited" THEN d.disposition
                                                               ELSE f.disposition)

physical_gate_signals(d) ==
    {Link(<<"physical_gate_trust">>, 100, 100, Closing(d.verified), 0, FALSE),
     Link(<<"physical_action_gate">>, 100, 100,
          Verdict(d.verified /\ d.disposition = "ALLOW",
                  d.verified /\ d.disposition = "BLOCK"), 1, FALSE),
     Link(<<"physical_state_lineage">>, 95, 100,
          Closing(d.lineage = "ok" /\ d.verified), 2, FALSE)}
    \cup {Link(<<"physical_finding", d.findings[i].code>>, 90, 95,
               FindingStatus(d, d.findings[i]), 2, TRUE) :
             i \in {j \in DOMAIN d.findings : j <= FindingLimit}}

dsr_result_signals(v) ==
    {Link(<<"dsr_result_trust">>, 100, 100, Closing(v.verified), 0, FALSE),
     Link(<<"remote_execution_outcome">>, 90, 100,
          Closing(v.verified /\ v.passed /\ v.exitZero), 1, FALSE)}

\* bool() of the assessment's material_divergence, or else of the summary's.
\* Bug: what is missing is not material.
NotMaterialByDefault(r) ==
    (IF r.assessment # "missing" THEN r.assessment ELSE r.summary) # "true"
NotMaterial(r) ==
    (IF r.assessment # "missing" THEN r.assessment ELSE r.summary) \in {"null", "false"}

renderdiff_signals(r) ==
    {Link(<<"renderdiff_receipt_trust">>, 95, 100, Closing(r.verified), 0, FALSE),
     Link(<<"representation_divergence">>, 95, 100,
          Closing(r.verified /\ NotMaterial(r)), 2, TRUE),
     Link(<<"representation_observer_coverage">>, 60, 90,
          Closing(r.verified /\ r.complete), 1, TRUE)}

transition_closure_signals(t) ==
    {Link(<<"authorization_transition_closure">>,
          IF t.disposition \in {"CLOSED", "FAILED"} THEN 100 ELSE 85, 100,
          Closing(t.disposition = "CLOSED"), 3, FALSE)}

\* The signals of one producer.
Signals(p, x) ==
    IF x = NotSupplied THEN {}
    ELSE IF x = Malformed THEN Format(p)
    ELSE IF p = "action" THEN action_receipt_signals(x)
    ELSE IF p = "physical" THEN physical_gate_signals(x)
    ELSE IF p = "dsr" THEN dsr_result_signals(x)
    ELSE IF p = "renderdiff" THEN renderdiff_signals(x)
    ELSE transition_closure_signals(x)

Bundled(s) == UNION {Signals(p, s[p]) : p \in Producers}
---------------------------------------------------------------------------
Init ==
    /\ supplied = [p \in Producers |-> NotSupplied]
    /\ report = NoReport

Given(s) == {p \in Producers : s[p] # NotSupplied}

\* A transition result that is not an object has no disposition at all.
Supply(p) ==
    /\ supplied[p] = NotSupplied
    /\ Cardinality(Given(supplied)) < MaxSupplied
    /\ \E x \in Reports[p] \cup (IF p = "transition" THEN {} ELSE {Malformed}) :
          supplied' = [supplied EXCEPT ![p] = x]
    /\ report' = NoReport

Alternatives ==
    [p \in Producers |-> [f \in DOMAIN (CHOOSE x \in Reports[p] : TRUE) |->
                             {x[f] : x \in Reports[p]}]]

Revise(p) ==
    /\ supplied[p] \notin {NotSupplied, Malformed}
    /\ \E f \in DOMAIN supplied[p] : \E v \in Alternatives[p][f] :
          /\ v # supplied[p][f]
          /\ supplied' = [supplied EXCEPT ![p] = [@ EXCEPT ![f] = v]]
    /\ report' = NoReport

\* WeakLinkPolicy().
Default == [human_required_at |-> 80, conditional_at |-> 50, bounded_at |-> 20]

Ceiling(s) == Autonomy(Bundled(s), Default)

analyze_evidence_bundle ==
    /\ \E b \in IF BoundingLinks(Bundled(supplied)) = {} THEN {{}}
                ELSE {{s} : s \in BoundingLinks(Bundled(supplied))} :
          report' = [links |-> Bundled(supplied), bounding |-> b,
                     autonomy |-> Ceiling(supplied)]
    /\ UNCHANGED supplied

Next == \/ \E p \in Producers : Supply(p) \/ Revise(p)
        \/ analyze_evidence_bundle

Spec == Init /\ [][Next]_vars
---------------------------------------------------------------------------
\* The caller verified the report and the verification found nothing; the
\* output of the transition verifier needs no verification.
Verified(p, x) == /\ x # Malformed
                  /\ p # "transition" => x.verified
                  /\ p = "action" => ~x.errors

\* Gate G11: whatever a report claims, nothing it says is closed or contained
\* until it is verified (adapters.py:70, 163, 199, 239, 279, 291).
ClaimsNeedVerification ==
    \A p \in Given(supplied) : ~Verified(p, supplied[p]) =>
        \A s \in Signals(p, supplied[p]) : s.status = "UNRESOLVED"

\* What a report must say for the machine to act on it without conditions.
Affirms(p, x) ==
    \/ /\ p = "action"
       /\ x.decision = "ALLOW" /\ x.passed = Dimensions
       /\ x.executed /\ x.mode = "preflight"
    \/ /\ p = "physical"
       /\ x.disposition = "ALLOW" /\ x.findings = <<>> /\ x.lineage = "ok"
    \/ p = "dsr" /\ x.passed /\ x.exitZero
    \/ /\ p = "renderdiff"
       /\ x.complete
       /\ x.assessment # "true"
       /\ {x.assessment, x.summary} # {"missing"}
       /\ x.assessment = "missing" => x.summary # "true"
    \/ p = "transition" /\ x.disposition = "CLOSED"

\* With the default thresholds the machine is autonomous exactly when every
\* report supplied is verified and affirms the action in all it says, and acts
\* at all only if every one is verified and none is only historical: no mix of
\* severities, confidences and containment adds up to anything else.
AutonomyNeedsProof ==
    report # NoReport =>
        /\ report.autonomy = 4 <=>
              \A p \in Given(supplied) : /\ Verified(p, supplied[p])
                                         /\ Affirms(p, supplied[p])
        /\ report.autonomy > 1 =>
              /\ \A p \in Given(supplied) : Verified(p, supplied[p])
              /\ "action" \in Given(supplied) => supplied["action"].mode = "preflight"

\* y says no less than x: the same decision, and whatever is a matter of having
\* shown something is shown at least as well.
AtLeast(p, x, y) ==
    \/ /\ p = "action"
       /\ y.decision = x.decision
       /\ x.passed \subseteq y.passed
       /\ x.verified => y.verified
       /\ y.errors => x.errors
       /\ x.mode = "preflight" => y.mode = "preflight"
       /\ x.executed = y.executed \/ (y.executed <=> x.decision = "ALLOW")
    \/ /\ p = "physical"
       /\ y.disposition = x.disposition
       /\ \/ y.findings = x.findings
          \/ Len(x.findings) <= FindingLimit /\ y.findings = <<>>
       /\ x.verified => y.verified
       /\ x.lineage = "ok" => y.lineage = "ok"
    \/ /\ p = "dsr"
       /\ x.verified => y.verified
       /\ x.passed => y.passed
       /\ x.exitZero => y.exitZero
    \/ /\ p = "renderdiff"
       /\ x.complete => y.complete
       /\ x.verified => y.verified
       /\ y.assessment \in {x.assessment, "false"}
       /\ y.summary \in {x.summary, "false"}
    \/ p = "transition" /\ y.disposition \in {x.disposition, "CLOSED"}

\* Showing more never lowers the ceiling: a verification that succeeds, an
\* error that is resolved, a dimension that passes, a finding that goes away.
\* (adapters.py, the conditions of every status.)
BetterReportNeverHurts ==
    [][\A p \in Producers :
          /\ supplied[p] \notin {NotSupplied, Malformed}
          /\ \A q \in Producers \ {p} : supplied'[q] = supplied[q]
          /\ AtLeast(p, supplied[p], supplied'[p])
          => Ceiling(supplied') >= Ceiling(supplied)]_supplied

\* "The report identifies the highest residual-risk link as the current bound"
\* (DDC_GATES.md, G11): the bounding link alone explains the ceiling, and there
\* is one as soon as anything is not closed.
BoundExplainsCeiling ==
    report # NoReport =>
        /\ Autonomy(report.bounding, Default) = report.autonomy
        /\ report.bounding = {} <=> \A s \in report.links : s.status = "CLOSED"

\* Gate G11, "must not claim to have ... closed a condition for which no evidence
\* was supplied": material divergence is closed only if the report says in so
\* many words that there is none.
DivergenceClosedOnEvidence ==
    \A s \in Bundled(supplied) :
        s.name = <<"representation_divergence">> /\ s.status = "CLOSED"
            => "false" \in {supplied["renderdiff"].assessment,
                            supplied["renderdiff"].summary}
=============================================================================
